----------------------------- MODULE UsbTxProofs -----------------------------
(***************************************************************************)
(* Proofs about UsbTx: the types, what a drain promises, and that the      *)
(* endpoint is a pipe of two packets.                                      *)
(*                                                                         *)
(* The flags of tx_state_t, the packets the handler has not seen and the   *)
(* toggles of the hardware and of the host describe the same packets; only *)
(* a slot that holds one the host has not read is armed; and the hardware  *)
(* is told the length of that packet.  None of it holds while a bus reset  *)
(* or a race of a submit has left the two sides out of step.               *)
(***************************************************************************)
EXTENDS UsbTx, SequenceTheorems, TLAPS

Num(b) == IF b THEN 1 ELSE 0

\* Slots not free; packets submitted (or in a slot that is about to be) and not read.
Busy   == Num(~free[0]) + Num(~free[1])
Unread == Len(sent) - base - Len(got)

\* The slot filled next, and the states in which the last one filled is not yet armed.
Fil == IF pc = "taken" THEN Other(fill_sel) ELSE fill_sel
Mid == pc \in {"taken", "flipped", "sized", "loaded"}

\* In any state, out of step or not.
AlwaysInv ==
  /\ sent \in Seq(Nat \X Lens) /\ got \in Seq(Nat \X (Lens \union {0}))
  /\ \A n \in 1 .. Len(sent) : sent[n][1] = n
  /\ Len(sent) > 0 => sent[Len(sent)][2] = len
  /\ pc = "filled" \/ Mid => len \in Lens /\ Len(sent) > 0
  /\ pc = "loaded" => Ch32
  /\ wire.fresh => wire.on /\ Submitting

\* The packets the main loop, the handler and the hardware count are the same ones.
CountInv ==
  /\ Unread + irqs = Busy + Num(pc = "filled")
  /\ irqs <= Busy
  /\ ~free[Other(hw_sel)] => ~free[hw_sel]
  /\ Fil = IF Busy = 1 THEN Other(hw_sel) ELSE hw_sel
  /\ tog = IF irqs = 1 THEN Other(hw_sel) ELSE hw_sel
  /\ pid = tog
  /\ pc = "filled" => free[Fil]
  /\ Mid => Unread >= 1 /\ Busy >= 1

\* Only a slot with a packet the host has not read is armed, and while a packet is
\* submitted no other one than it can still be unfinished at the end.
ArmInv ==
  /\ wire.on => wire.slot = tog /\ Unread >= 1 /\ armed[tog]
  /\ wire.on /\ ~wire.fresh /\ Submitting => Unread = 2
  /\ Ch32 => /\ irqs <= 1 /\ armed[0] = armed[1]
             /\ armed[0] => Busy >= 1
             /\ ~armed[0] => irqs = 0 /\ (Busy = 0 \/ (Busy = 1 /\ Mid))
             /\ wire.on => irqs = 0
  /\ ~Ch32 => \A s \in Slots : armed[s] => /\ ~free[s] /\ irqs # 2
                                           /\ irqs = 1 => s # hw_sel
                                           /\ Mid => s # Other(Fil)

\* The packets not read are in their slots.
BufInv ==
  /\ Unread >= 1 => buf[tog] = base + Len(got) + 1
  /\ Unread = 2 => buf[Other(tog)] = base + Len(got) + 2

\* The lengths the hardware is told are theirs.  On the CH32V305 this leaves out the
\* packet that is only copied: its slot is not the hardware's yet.
LenInv ==
  /\ \A i \in 1 .. Len(got) : got[i] = sent[base + i]
  /\ wire.on => wire.len = sent[buf[tog]][2]
  /\ pc \in {"sized", "loaded"} => tx_len[Other(fill_sel)] = len
  /\ Ch32 => /\ tx_len[0] = tx_len[1]
             /\ armed[0] => \A n \in base + Len(got) + 1 .. Len(sent) - Num(pc = "filled") :
                               sent[n][2] = tx_len[0]
  /\ ~Ch32 => \A s \in Slots : armed[s] => tx_len[s] = sent[buf[s]][2]

TxInv == /\ TypeOK /\ AlwaysInv
         /\ InStep => CountInv /\ ArmInv /\ BufInv /\ LenInv

\* The types.
LEMMA TxTypeStep ==
  ASSUME TypeOK, AlwaysInv, InStep => CountInv /\ ArmInv, [Next]_vars
  PROVE  TypeOK' /\ AlwaysInv'
<1> USE TxAssumption DEF TxAssumption, Slots, Other, InStep
<1>1. ASSUME NEW l \in Lens, Fill(l) PROVE TypeOK' /\ AlwaysInv'
  <2>1. buf' \in [Slots -> 0 .. MaxPackets]
    BY <1>1 DEF Fill, TypeOK
  <2>2. sent \in Seq(Nat \X Lens) /\ <<Len(sent) + 1, l>> \in Nat \X Lens
    BY <1>1 DEF AlwaysInv
  <2>3. sent' \in Seq(Nat \X Lens) /\ Len(sent') = Len(sent) + 1
        /\ sent'[Len(sent) + 1] = <<Len(sent) + 1, l>>
        /\ (\A n \in 1 .. Len(sent) : sent'[n] = sent[n])
    BY <1>1, <2>2 DEF Fill
  <2>4. TypeOK'
    BY <1>1, <2>1, <2>3 DEF Fill, stateVars, hwVars, resetVars, TypeOK
  <2>5. \A n \in 1 .. Len(sent') : sent'[n][1] = n
    <3>1. ASSUME NEW n \in 1 .. Len(sent) PROVE sent'[n][1] = n
      BY <2>3 DEF AlwaysInv
    <3>2. sent'[Len(sent) + 1][1] = Len(sent) + 1
      BY <2>3
    <3> QED
      BY <2>2, <2>3, <3>1, <3>2
  <2> QED
    BY <1>1, <2>2, <2>3, <2>4, <2>5 DEF Fill, stateVars, hwVars, resetVars, AlwaysInv, Submitting, Mid, Loop, Ch32
<1>2. CASE Take
  <2>1. free' \in [Slots -> BOOLEAN]
    BY <1>2 DEF Take, TypeOK
  <2>2. intact' \in BOOLEAN /\ (InStep' => InStep)
    BY <1>2, Zenon DEF Take, TypeOK, InStep
  <2> QED
    BY <1>2, <2>1, <2>2 DEF Take, hwVars, resetVars, TypeOK, AlwaysInv, Submitting, Mid, Loop, Ch32
<1>3. CASE Flip
  BY <1>3 DEF Flip, SelectNext, hwVars, resetVars, TypeOK, AlwaysInv, Submitting, Mid, Loop, Ch32
<1>4. CASE SetLen
  <2>1. tx_len' \in [Slots -> Lens \union {0}]
    BY <1>4 DEF SetLen, TypeOK
  <2> QED
    BY <1>4, <2>1 DEF SetLen, stateVars, resetVars, TypeOK, AlwaysInv, Submitting, Mid, Loop, Ch32
<1>5. CASE Arm
  <2>1. armed' \in [Slots -> BOOLEAN]
    BY <1>5 DEF Arm, ArmSlot, TypeOK
  <2>2. wire' \in [slot : Slots, len : Lens \union {0}, fresh : BOOLEAN, on : BOOLEAN] /\ ~wire'.fresh
    BY <1>5 DEF Arm, TypeOK
  <2>3. intact' \in BOOLEAN /\ (InStep' => InStep) /\ tog' \in Slots
    BY <1>5 DEF Arm, TypeOK, InStep
  <2> QED
    BY <1>5, <2>1, <2>2, <2>3 DEF Arm, stateVars, TypeOK, AlwaysInv, Submitting, Mid, Loop, Ch32
<1>l. CASE LoadCtrl
  BY <1>l DEF LoadCtrl, stateVars, hwVars, resetVars, TypeOK, AlwaysInv, Submitting, Mid, Loop, Ch32
<1>6. CASE BeginDrain \/ EndDrain
  <2>1. UNCHANGED <<platform, free, fill_sel, hw_sel, len, buf, sent, loaded, tx_len, armed, tog, wire, irqs,
                    pid, got, resets, base, clean, intact>> /\ pc \in Loop /\ pc' \in Loop
    BY <1>6 DEF BeginDrain, EndDrain, stateVars, hwVars, resetVars, Loop
  <2> QED
    BY <2>1 DEF TypeOK, AlwaysInv, Submitting, Mid, Loop, Ch32
<1>7. CASE TxIsr
  <2>1. free' \in [Slots -> BOOLEAN]
    BY <1>7 DEF TxIsr, TypeOK
  <2>2. armed' \in [Slots -> BOOLEAN]
    BY <1>7 DEF TxIsr, NakIfEmpty, TypeOK
  <2>3. irqs' \in Nat /\ irqs' <= irqs
    BY <1>7 DEF TxIsr, TypeOK
  <2> QED
    BY <1>7, <2>1, <2>2, <2>3 DEF TxIsr, loopVars, resetVars, TypeOK, AlwaysInv, Submitting, Mid, Loop, Ch32
<1>8. CASE BusReset
  <2>1. free' \in [Slots -> BOOLEAN] /\ fill_sel' \in Slots /\ hw_sel' \in Slots
    BY <1>8 DEF BusReset, SlotsAnew
  <2>2. tx_len' \in [Slots -> Lens \union {0}] /\ armed' \in [Slots -> BOOLEAN] /\ tog' \in Slots
    BY <1>8 DEF BusReset, HardwareAnew, TypeOK
  <2>3. clean' \in BOOLEAN /\ intact' \in BOOLEAN
    BY <1>8, Zenon DEF BusReset
  <2>4. wire' \in [slot : Slots, len : Lens \union {0}, fresh : BOOLEAN, on : BOOLEAN] /\ ~wire'.fresh
    BY <1>8 DEF BusReset, Nothing
  <2>5. UNCHANGED <<platform, pc, len, buf, sent, loaded>> /\ got' = << >> /\ pid' = 0
        /\ base' = Len(sent) /\ resets' \in 0 .. MaxResets
    BY <1>8 DEF BusReset, loopVars, TypeOK
  <2>6. irqs' \in Nat /\ (clean' => irqs' <= 2)
    BY <1>8 DEF BusReset, TypeOK
  <2> QED
    BY <2>1, <2>2, <2>3, <2>4, <2>5, <2>6 DEF TypeOK, AlwaysInv, Mid, Ch32
<1>9. CASE InStart
  <2>1. wire' \in [slot : Slots, len : Lens \union {0}, fresh : BOOLEAN, on : BOOLEAN]
    BY <1>9 DEF InStart, Submitting, TypeOK
  <2>2. wire'.fresh => wire'.on /\ Submitting
    BY <1>9 DEF InStart
  <2> QED
    BY <1>9, <2>1, <2>2 DEF InStart, stateVars, loopVars, resetVars, TypeOK, AlwaysInv, Submitting, Mid, Loop, Ch32
<1>10. CASE InDone
  <2>1. armed' \in [Slots -> BOOLEAN]
    BY <1>10 DEF InDone, TypeOK
  <2>2. wire' \in [slot : Slots, len : Lens \union {0}, fresh : BOOLEAN, on : BOOLEAN] /\ ~wire'.fresh
    BY <1>10 DEF InDone, Nothing
  <2>3. <<buf[wire.slot], wire.len>> \in Nat \X (Lens \union {0})
    BY DEF TypeOK
  <2>4. got' \in Seq(Nat \X (Lens \union {0})) /\ Len(got') \in {Len(got), Len(got) + 1} /\ pid' \in Slots
    BY <1>10, <2>3 DEF InDone, AlwaysInv, TypeOK
  <2>5. InStep => Unread >= 1 /\ irqs <= 1
    BY <1>10 DEF InDone, CountInv, ArmInv, TypeOK, AlwaysInv, Busy, Num, Ch32
  <2>6. InStep => Len(got') <= Len(sent)
    BY <2>4, <2>5 DEF TypeOK, AlwaysInv, Unread
  <2> QED
    BY <1>10, <2>1, <2>2, <2>4, <2>5, <2>6
    DEF InDone, stateVars, loopVars, resetVars, TypeOK, AlwaysInv, Submitting, Mid, Loop, Ch32
<1>11. CASE UNCHANGED vars
  BY <1>11 DEF vars, stateVars, loopVars, hwVars, resetVars, TypeOK, AlwaysInv, Submitting, Mid, Loop, Ch32
<1> QED
  BY <1>1, <1>2, <1>3, <1>4, <1>5, <1>l, <1>6, <1>7, <1>8, <1>9, <1>10, <1>11 DEF Next, Submit, InNak

\* The parts of the invariant that hold in step.
CleanInv == CountInv /\ ArmInv /\ BufInv

\* The main loop, up to the store that takes the slot.
LEMMA FillStep ==
  ASSUME TypeOK, AlwaysInv, CleanInv, (\E l \in Lens : Fill(l)) \/ Take \/ BeginDrain \/ EndDrain
  PROVE  CleanInv'
<1> USE DEF Slots, Other, TypeOK, AlwaysInv, CleanInv, Busy, Unread, Num, Fil, Mid, Ch32, Submitting, Loop
<1>1. ASSUME NEW l \in Lens, Fill(l) PROVE CleanInv'
  <2>f. UNCHANGED <<platform, free, fill_sel, hw_sel, tx_len, armed, tog, wire, irqs, pid, got, base>>
        /\ pc = "idle" /\ pc' = "filled" /\ free[fill_sel]
        /\ buf' = [buf EXCEPT ![fill_sel] = Len(sent) + 1]
    BY <1>1 DEF Fill, SlotFree, stateVars, hwVars, resetVars
  <2>s. Len(sent') = Len(sent) + 1
    BY <1>1 DEF Fill
  <2>1. Unread' = Unread + 1 /\ Busy' = Busy /\ Unread \in Nat
    BY <2>f, <2>s DEF CountInv
  <2>2. CountInv'
    BY <2>f, <2>1 DEF CountInv
  <2>3. ArmInv'
    <3>1. Unread <= 1 /\ ~wire.fresh
      BY <2>f, <2>1 DEF CountInv
    <3>2. wire.on => wire.slot = tog /\ Unread = 1 /\ armed[tog]
      BY <2>1, <3>1 DEF ArmInv
    <3>3. CASE Ch32
      <4>1. armed'[0] => Busy' >= 1
        BY <2>f, <2>1, <3>3 DEF ArmInv
      <4>2. ~armed'[0] => irqs = 0 /\ Busy' = 0
        BY <2>f, <2>1, <3>3 DEF ArmInv
      <4>3. irqs <= 1 /\ armed[0] = armed[1] /\ (wire.on => irqs = 0)
        BY <3>3 DEF ArmInv
      <4> QED
        BY <2>f, <2>1, <3>1, <3>2, <3>3, <4>1, <4>2, <4>3 DEF ArmInv
    <3>4. CASE ~Ch32
      BY <2>f, <2>1, <3>1, <3>2, <3>4 DEF ArmInv
    <3> QED
      BY <3>3, <3>4
  <2>4. BufInv'
    <3>1. CASE Unread = 0
      <4>1. fill_sel = tog
        BY <2>f, <2>1, <3>1 DEF CountInv
      <4> QED
        BY <2>f, <2>s, <2>1, <3>1, <4>1 DEF BufInv
    <3>2. CASE Unread = 1
      <4>1. fill_sel = Other(tog)
        BY <2>f, <2>1, <3>2 DEF CountInv
      <4> QED
        BY <2>f, <2>s, <2>1, <3>2, <4>1 DEF BufInv
    <3>3. Unread <= 1
      BY <2>f, <2>1 DEF CountInv
    <3> QED
      BY <2>1, <3>1, <3>2, <3>3
  <2> QED
    BY <2>2, <2>3, <2>4
<1>2. CASE Take
  <2>f. UNCHANGED <<platform, fill_sel, hw_sel, buf, sent, tx_len, armed, tog, wire, irqs, pid, got, base>>
        /\ pc = "filled" /\ pc' = "taken" /\ free' = [free EXCEPT ![fill_sel] = FALSE] /\ free[fill_sel]
    BY <1>2 DEF Take, CountInv, hwVars, resetVars
  <2>1. Unread' = Unread /\ Busy' = Busy + 1 /\ Unread \in Nat
    <3>1. Unread' = Unread /\ Unread \in Nat
      BY <2>f DEF CountInv
    <3>2. CASE fill_sel = 0
      BY <2>f, <3>1, <3>2
    <3>3. CASE fill_sel = 1
      BY <2>f, <3>1, <3>3
    <3> QED
      BY <3>2, <3>3
  <2>2. CountInv'
    <3>1. CASE fill_sel = 0
      BY <2>f, <2>1, <3>1 DEF CountInv
    <3>2. CASE fill_sel = 1
      BY <2>f, <2>1, <3>2 DEF CountInv
    <3> QED
      BY <3>1, <3>2
  <2>3. ArmInv'
    <3>1. CASE Ch32
      BY <2>f, <2>1, <3>1 DEF CountInv, ArmInv
    <3>2. CASE ~Ch32
      BY <2>f, <2>1, <3>2 DEF CountInv, ArmInv
    <3> QED
      BY <3>1, <3>2
  <2>4. BufInv'
    BY <2>f, <2>1 DEF BufInv
  <2> QED
    BY <2>2, <2>3, <2>4
<1>3. CASE BeginDrain \/ EndDrain
  <2>f. UNCHANGED <<platform, free, fill_sel, hw_sel, buf, sent, tx_len, armed, tog, wire, irqs, pid, got, base>>
        /\ pc \in Loop /\ pc' \in Loop
    BY <1>3 DEF BeginDrain, EndDrain, stateVars, hwVars, resetVars
  <2> QED
    BY <2>f DEF CountInv, ArmInv, BufInv
<1> QED
  BY <1>1, <1>2, <1>3

\* The rest of usb_*_tx_submit.
LEMMA SubmitStep ==
  ASSUME TypeOK, AlwaysInv, CleanInv, InStep', Flip \/ SetLen \/ LoadCtrl \/ Arm PROVE CleanInv'
<1> USE DEF Slots, Other, TypeOK, AlwaysInv, CleanInv, Busy, Unread, Num, Fil, Mid, Ch32, Submitting, Loop
<1>1. CASE Flip
  <2>f. UNCHANGED <<platform, free, hw_sel, buf, sent, tx_len, armed, tog, wire, irqs, pid, got, base>>
        /\ pc = "taken" /\ pc' = "flipped" /\ fill_sel' = 1 - fill_sel
    BY <1>1 DEF Flip, SelectNext, hwVars, resetVars
  <2>1. Fil' = Fil /\ Busy' = Busy /\ Unread' = Unread
    BY <2>f
  <2> QED
    BY <2>f, <2>1 DEF CountInv, ArmInv, BufInv
<1>2. CASE SetLen \/ LoadCtrl
  <2>f. UNCHANGED <<platform, free, fill_sel, hw_sel, buf, sent, armed, tog, wire, irqs, pid, got, base>>
        /\ pc \in {"flipped", "sized"} /\ pc' \in {"sized", "loaded"}
    BY <1>2 DEF SetLen, LoadCtrl, stateVars, hwVars, resetVars
  <2> QED
    BY <2>f DEF CountInv, ArmInv, BufInv
<1>3. CASE Arm
  <2>f. UNCHANGED <<platform, free, fill_sel, hw_sel, buf, sent, tog, irqs, pid, got, base>>
        /\ pc \in {"sized", "loaded"} /\ pc' = "idle" /\ wire'.on = wire.on /\ wire'.slot = wire.slot /\ ArmSlot
    BY <1>3 DEF Arm, InStep, stateVars
  <2>1. CountInv' /\ BufInv' /\ Busy' = Busy /\ Unread' = Unread
    BY <2>f DEF CountInv, BufInv
  <2>2. CASE Ch32
    <3>1. armed'[0] = TRUE /\ armed'[1] = TRUE
      BY <2>f, <2>2 DEF ArmSlot
    <3>2. ArmInv'
      BY <2>f, <2>1, <2>2, <3>1 DEF CountInv, ArmInv
    <3> QED
      BY <2>1, <3>2
  <2>3. CASE ~Ch32
    <3>1. armed' = [armed EXCEPT ![1 - fill_sel] = TRUE]
      BY <2>f, <2>3 DEF ArmSlot
    <3>2. ~free[1 - fill_sel] /\ irqs # 2 /\ (irqs = 1 => 1 - fill_sel # hw_sel)
      <4>1. Busy >= 1 /\ irqs < Busy /\ fill_sel = (IF Busy = 1 THEN 1 - hw_sel ELSE hw_sel)
        BY <2>f DEF CountInv
      <4>2. CASE Busy = 1
        <5>1. irqs = 0 /\ hw_sel = 1 - fill_sel
          BY <4>1, <4>2
        <5>2. ~free[hw_sel]
          BY <4>2 DEF CountInv
        <5> QED
          BY <5>1, <5>2
      <4>3. CASE Busy = 2
        <5>1. ~free[0] /\ ~free[1]
          BY <4>3
        <5> QED
          BY <4>1, <4>3, <5>1
      <4> QED
        BY <4>1, <4>2, <4>3
    <3>3. ArmInv'
      BY <2>f, <2>1, <2>3, <3>1, <3>2 DEF ArmInv
    <3> QED
      BY <2>1, <3>3
  <2> QED
    BY <2>2, <2>3
<1> QED
  BY <1>1, <1>2, <1>3

\* The interrupt handler.
LEMMA IsrStep == ASSUME TypeOK, AlwaysInv, CleanInv, TxIsr PROVE CleanInv'
<1> USE DEF Slots, Other, TypeOK, AlwaysInv, CleanInv, Busy, Unread, Num, Fil, Mid, Ch32, Submitting, Loop
<1>f. UNCHANGED <<platform, fill_sel, pc, buf, sent, tx_len, tog, wire, pid, got, base>>
      /\ irqs > 0 /\ irqs' = irqs - 1 /\ free' = [free EXCEPT ![hw_sel] = TRUE] /\ hw_sel' = 1 - hw_sel
      /\ NakIfEmpty
  BY DEF TxIsr, loopVars, resetVars
<1>1. ~free[hw_sel] /\ free'[hw_sel] /\ free'[1 - hw_sel] = free[1 - hw_sel]
  <2>1. Busy >= 1
    BY <1>f DEF CountInv
  <2>2. ~free[hw_sel]
    BY <2>1 DEF CountInv
  <2>3. CASE hw_sel = 0
    BY <1>f, <2>2, <2>3
  <2>4. CASE hw_sel = 1
    BY <1>f, <2>2, <2>4
  <2> QED
    BY <2>3, <2>4
<1>2. Unread' = Unread /\ Busy' = Busy - 1 /\ Fil' = Fil /\ Unread \in Nat
  <2>1. Unread' = Unread /\ Fil' = Fil /\ Unread \in Nat
    BY <1>f DEF CountInv
  <2>2. CASE hw_sel = 0
    BY <1>f, <1>1, <2>1, <2>2
  <2>3. CASE hw_sel = 1
    BY <1>f, <1>1, <2>1, <2>3
  <2> QED
    BY <2>2, <2>3
<1>3. CountInv'
  <2>1. Unread' + irqs' = Busy' + Num(pc' = "filled") /\ irqs' <= Busy'
    BY <1>f, <1>2 DEF CountInv
  <2>2. free'[1 - hw_sel'] /\ (pc' = "filled" => free'[Fil'])
    BY <1>f, <1>1, <1>2 DEF CountInv
  <2>3. Busy = 1 \/ Busy = 2
    BY <1>f DEF CountInv
  <2>4. Fil' = IF Busy' = 1 THEN 1 - hw_sel' ELSE hw_sel'
    BY <1>f, <1>2, <2>3 DEF CountInv
  <2>5. tog' = IF irqs' = 1 THEN 1 - hw_sel' ELSE hw_sel'
    BY <1>f, <2>3 DEF CountInv
  <2>6. Mid' => Unread' >= 1 /\ Busy' >= 1
    BY <1>f, <1>2 DEF CountInv
  <2>7. pid' = tog'
    BY <1>f DEF CountInv
  <2> QED
    BY <2>1, <2>2, <2>4, <2>5, <2>6, <2>7 DEF CountInv
<1>4. BufInv'
  BY <1>f, <1>2 DEF BufInv
<1>5. ArmInv'
  <2>1. CASE Ch32
    <3>1. CASE free'[1 - hw_sel]
      BY <1>f, <1>1, <1>2, <2>1, <3>1 DEF NakIfEmpty, CountInv, ArmInv
    <3>2. CASE ~free'[1 - hw_sel]
      BY <1>f, <1>1, <1>2, <2>1, <3>2 DEF NakIfEmpty, CountInv, ArmInv
    <3> QED
      BY <3>1, <3>2
  <2>2. CASE ~Ch32
    <3>1. armed' = armed
      BY <1>f, <2>2 DEF NakIfEmpty
    <3> QED
      BY <1>f, <1>1, <1>2, <2>2, <3>1 DEF CountInv, ArmInv
  <2> QED
    BY <2>1, <2>2
<1> QED
  BY <1>3, <1>4, <1>5

\* The hardware and the host.
LEMMA HostStep == ASSUME TypeOK, AlwaysInv, CleanInv, InStep, InStart \/ InDone PROVE CleanInv'
<1> USE DEF Slots, Other, TypeOK, AlwaysInv, CleanInv, Busy, Unread, Num, Fil, Mid, Ch32, Submitting, Loop
<1>1. CASE InStart
  <2>f. UNCHANGED <<platform, free, fill_sel, hw_sel, pc, buf, sent, tx_len, armed, tog, irqs, pid, got, base>>
        /\ ~wire.on /\ armed[tog] /\ (Ch32 => irqs = 0)
        /\ wire'.slot = tog /\ wire'.on /\ (pc \notin Loop => wire'.fresh)
    BY <1>1 DEF InStart, stateVars, loopVars, resetVars
  <2>1. CountInv' /\ BufInv'
    BY <2>f DEF CountInv, BufInv
  <2>2. Unread >= 1
    <3>1. CASE Ch32
      BY <2>f, <3>1 DEF CountInv, ArmInv
    <3>2. CASE ~Ch32
      BY <2>f, <3>2 DEF CountInv, ArmInv
    <3> QED
      BY <3>1, <3>2
  <2>3. ArmInv'
    BY <2>f, <2>2 DEF ArmInv
  <2> QED
    BY <2>1, <2>3
<1>2. CASE InDone
  <2>e. Expected /\ clean
    BY <1>2 DEF InDone, Expected, CountInv, ArmInv, InStep
  <2>f. UNCHANGED <<platform, free, fill_sel, hw_sel, pc, buf, sent, tx_len, base>>
        /\ wire.on /\ ~wire.fresh /\ ~wire'.on /\ tog' = 1 - tog /\ pid' = 1 - pid /\ irqs' = irqs + 1
        /\ Len(got') = Len(got) + 1
        /\ armed' = IF Ch32 THEN armed ELSE [armed EXCEPT ![wire.slot] = FALSE]
    BY <1>2, <2>e DEF InDone, Nothing, stateVars, loopVars, resetVars
  <2>1. Unread' = Unread - 1 /\ Unread \in Nat /\ Unread >= 1 /\ Busy' = Busy /\ Fil' = Fil
    BY <2>f DEF ArmInv
  <2>n. Busy \in 0 .. 2 /\ Unread <= 2 /\ (Submitting => Unread = 2)
    <3>1. Busy \in 0 .. 2
      OBVIOUS
    <3>2. Submitting => Unread = 2
      BY <2>f DEF ArmInv
    <3>3. pc # "filled" => Unread <= Busy
      <4>1. Unread + irqs = Busy + Num(pc = "filled") /\ irqs \in Nat
        BY DEF CountInv
      <4> HIDE DEF Busy, Unread
      <4> QED
        BY <2>1, <3>1, <4>1
    <3> HIDE DEF Busy, Unread
    <3> QED
      BY <2>1, <3>1, <3>2, <3>3
  <2>2. irqs <= 1 /\ ~free[tog] /\ irqs + 1 <= Busy
    <3>1. CASE Ch32
      BY <2>f, <3>1 DEF CountInv, ArmInv
    <3>2. CASE ~Ch32
      BY <2>f, <3>2 DEF CountInv, ArmInv
    <3> QED
      BY <3>1, <3>2
  <2>3. CountInv'
    <3>1. Unread' + irqs' = Busy' + Num(pc' = "filled") /\ irqs' <= Busy'
      <4>1. Unread + irqs = Busy + Num(pc = "filled")
        BY DEF CountInv
      <4> HIDE DEF Busy, Unread
      <4> QED
        BY <2>f, <2>1, <2>n, <2>2, <4>1
    <3>2. tog' = IF irqs' = 1 THEN 1 - hw_sel' ELSE hw_sel'
      BY <2>f, <2>2 DEF CountInv
    <3>3. Mid' => Unread' >= 1 /\ Busy' >= 1
      <4> HIDE DEF Busy, Unread
      <4> QED
        BY <2>f, <2>1, <2>n DEF CountInv
    <3> QED
      BY <2>f, <2>1, <3>1, <3>2, <3>3 DEF CountInv
  <2>4. BufInv'
    <3>1. CASE Unread = 2
      <4>1. buf[1 - tog] = base + Len(got) + 2
        BY <3>1 DEF BufInv
      <4>2. tog' = 1 - tog /\ base' = base /\ Len(got') = Len(got) + 1 /\ base \in Nat /\ Len(got) \in Nat
        BY <2>f
      <4>3. base' + Len(got') + 1 = base + Len(got) + 2
        BY <4>2
      <4>4. Unread' = 1
        BY <2>1, <3>1
      <4> HIDE DEF Unread
      <4> QED
        BY <2>f, <4>1, <4>2, <4>3, <4>4 DEF BufInv
    <3>2. CASE Unread = 1
      <4>1. Unread' = 0
        BY <2>1, <3>2
      <4> HIDE DEF Unread
      <4> QED
        BY <4>1 DEF BufInv
    <3> HIDE DEF Unread
    <3> QED
      BY <2>1, <2>n, <3>1, <3>2
  <2>5. ArmInv'
    <3>1. CASE Ch32
      BY <2>f, <2>1, <2>2, <3>1 DEF CountInv, ArmInv
    <3>2. CASE ~Ch32
      <4>1. ~armed'[tog] /\ armed'[1 - tog] = armed[1 - tog]
        <5>1. wire.slot = tog /\ armed' = [armed EXCEPT ![tog] = FALSE]
          BY <2>f, <3>2 DEF ArmInv
        <5>2. CASE tog = 0
          BY <5>1, <5>2
        <5>3. CASE tog = 1
          BY <5>1, <5>3
        <5> QED
          BY <5>2, <5>3
      <4>2. ASSUME NEW s \in Slots, armed'[s] PROVE s = 1 - tog /\ armed[s] /\ irqs = 0
        <5>1. s = 1 - tog /\ armed[s]
          BY <4>1, <4>2
        <5> QED
          BY <2>2, <3>2, <5>1 DEF CountInv, ArmInv
      <4>3. ASSUME NEW s \in Slots, armed'[s]
            PROVE  ~free[s] /\ irqs' # 2 /\ (irqs' = 1 => s # hw_sel) /\ (Mid => s # Other(Fil))
        <5>1. s = 1 - tog /\ armed[s] /\ irqs = 0 /\ irqs' = 1
          BY <2>f, <4>2, <4>3
        <5>2. ~free[s] /\ (Mid => s # Other(Fil))
          BY <3>2, <5>1 DEF ArmInv
        <5>3. tog = hw_sel
          BY <5>1 DEF CountInv
        <5> QED
          BY <5>1, <5>2, <5>3
      <4> QED
        BY <2>f, <2>1, <3>2, <4>3 DEF ArmInv
    <3> QED
      BY <3>1, <3>2
  <2> QED
    BY <2>3, <2>4, <2>5
<1> QED
  BY <1>1, <1>2

\* A bus reset that leaves the two sides in step.
LEMMA ResetStep == ASSUME TypeOK, AlwaysInv, BusReset, clean' PROVE CleanInv'
<1> USE DEF Slots, Other, TypeOK, AlwaysInv, CleanInv, Busy, Unread, Num, Fil, Mid, Ch32, Submitting, Loop
<1>f. UNCHANGED <<platform, pc, sent>> /\ free' = [s \in Slots |-> TRUE] /\ fill_sel' = 0 /\ hw_sel' = 0
      /\ tog' = 0 /\ pid' = 0 /\ ~wire'.on /\ irqs' = 0 /\ base' = Len(sent) /\ got' = << >> /\ pc \in Loop
  BY DEF BusReset, SlotsAnew, HardwareAnew, Nothing, loopVars
<1>1. ~armed'[0] /\ ~armed'[1]
  BY DEF BusReset, HardwareAnew
<1>2. free'[0] = TRUE /\ free'[1] = TRUE
  BY <1>f
<1>3. Busy' = 0
  BY <1>2
<1>4. Len(got') = 0 /\ Len(sent) \in Nat /\ Unread' = 0
  <2>1. Len(got') = 0 /\ Len(sent) \in Nat /\ Len(sent') = Len(sent)
    BY <1>f
  <2>2. Unread' = Len(sent) - Len(sent) - 0
    BY <1>f, <2>1
  <2> QED
    BY <2>1, <2>2
<1>5. CountInv'
  BY <1>f, <1>2, <1>3, <1>4 DEF CountInv
<1>6. ArmInv' /\ BufInv'
  BY <1>f, <1>1, <1>2, <1>3, <1>4 DEF ArmInv, BufInv
<1> QED
  BY <1>5, <1>6

\* A packet is its number and its length.
LEMMA SentIs ==
  ASSUME AlwaysInv, NEW n \in 1 .. Len(sent)
  PROVE  sent[n] = <<n, sent[n][2]>> /\ sent[n] \in Nat \X Lens /\ sent[n][2] \in Lens
<1>1. sent[n] \in Nat \X Lens /\ sent[n][1] = n
  BY DEF AlwaysInv
<1> QED
  BY <1>1

\* Where the packets not read are.
LEMMA UnreadPlaces ==
  ASSUME TypeOK, AlwaysInv, CleanInv
  PROVE  /\ Unread \in 0 .. 2 /\ Len(got) \in Nat /\ base \in Nat /\ Len(sent) \in Nat
         /\ base + Len(got) + Unread = Len(sent)
         /\ Unread >= 1 => buf[tog] = base + Len(got) + 1 /\ buf[tog] \in 1 .. Len(sent)
         /\ Unread = 2 => buf[Other(tog)] = Len(sent)
<1>1. Len(got) \in Nat /\ base \in Nat /\ Len(sent) \in Nat /\ Unread = Len(sent) - base - Len(got)
  BY DEF TypeOK, AlwaysInv, Unread
<1>2. Busy \in 0 .. 2 /\ irqs \in Nat /\ irqs <= Busy /\ Unread + irqs = Busy + Num(pc = "filled")
      /\ (pc = "filled" => Busy <= 1)
  <2>1. Busy \in 0 .. 2
    BY DEF Busy, Num
  <2>2. irqs \in Nat /\ irqs <= Busy /\ Unread + irqs = Busy + Num(pc = "filled")
    BY DEF TypeOK, CleanInv, CountInv
  <2>3. pc = "filled" => Busy <= 1
    BY DEF TypeOK, CleanInv, CountInv, Busy, Num, Fil, Slots, Other
  <2> QED
    BY <2>1, <2>2, <2>3
<1>3. Unread \in 0 .. 2
  <2>1. Unread \in Int
    BY <1>1
  <2>2. CASE pc = "filled"
    BY <1>2, <2>1, <2>2 DEF Num
  <2>3. CASE pc # "filled"
    BY <1>2, <2>1, <2>3 DEF Num
  <2> QED
    BY <2>2, <2>3
<1>4. base + Len(got) + Unread = Len(sent)
  BY <1>1
<1>5. Unread >= 1 => buf[tog] = base + Len(got) + 1 /\ buf[tog] \in 1 .. Len(sent)
  BY <1>1, <1>3, <1>4 DEF CleanInv, BufInv
<1>6. Unread = 2 => buf[Other(tog)] = Len(sent)
  BY <1>1, <1>4 DEF CleanInv, BufInv
<1> QED
  BY <1>1, <1>3, <1>4, <1>5, <1>6

\* The slot filled last.
LEMMA LastSlot ==
  ASSUME TypeOK, AlwaysInv, CleanInv, pc \in {"sized", "loaded"}
  PROVE  buf[Other(fill_sel)] = Len(sent)
<1>1. Busy >= 1 /\ Unread >= 1 /\ Fil = fill_sel /\ Unread + irqs = Busy
  <2>1. Mid /\ Fil = fill_sel /\ Num(pc = "filled") = 0 /\ Busy \in Nat
    BY DEF Mid, Fil, Num, Busy
  <2>2. Unread + irqs = Busy + Num(pc = "filled") /\ (Mid => Unread >= 1 /\ Busy >= 1)
    BY DEF CleanInv, CountInv
  <2> QED
    BY <2>1, <2>2
<1>2. Busy \in 0 .. 2
  BY DEF Busy, Num
<1>3. Unread \in 0 .. 2 /\ (Unread >= 1 => buf[tog] = base + Len(got) + 1)
      /\ base + Len(got) + Unread = Len(sent) /\ (Unread = 2 => buf[Other(tog)] = Len(sent))
  BY UnreadPlaces
<1>4. Unread = 1 => buf[tog] = Len(sent)
  BY <1>3
<1>5. fill_sel = (IF Busy = 1 THEN Other(hw_sel) ELSE hw_sel)
      /\ tog = (IF irqs = 1 THEN Other(hw_sel) ELSE hw_sel) /\ irqs \in Nat /\ hw_sel \in {0, 1}
  BY <1>1 DEF TypeOK, CleanInv, CountInv, Slots
<1>6. CASE Unread = 1
  <2>1. irqs = Busy - 1
    BY <1>1, <1>2, <1>5, <1>6
  <2>2. Other(fill_sel) = tog
    <3>1. CASE Busy = 1
      BY <1>5, <2>1, <3>1 DEF Other
    <3>2. CASE Busy = 2
      BY <1>5, <2>1, <3>2 DEF Other
    <3> QED
      BY <1>1, <1>2, <3>1, <3>2
  <2> QED
    BY <1>4, <1>6, <2>2
<1>7. CASE Unread = 2
  <2>1. Busy = 2 /\ irqs = 0
    BY <1>1, <1>2, <1>5, <1>7
  <2>2. fill_sel = tog
    BY <1>5, <2>1
  <2> QED
    BY <1>3, <1>7, <2>2
<1> QED
  BY <1>1, <1>3, <1>6, <1>7

\* The lengths.
LEMMA LenStep ==
  ASSUME TypeOK, AlwaysInv, CleanInv, LenInv, InStep, InStep', Next, ~BusReset
  PROVE  LenInv'
<1>u. Unread \in 0 .. 2 /\ Len(got) \in Nat /\ base \in Nat /\ Len(sent) \in Nat
      /\ base + Len(got) + Unread = Len(sent)
      /\ (Unread >= 1 => buf[tog] = base + Len(got) + 1 /\ buf[tog] \in 1 .. Len(sent))
  BY UnreadPlaces
<1>1. ASSUME NEW l \in Lens, Fill(l) PROVE LenInv'
  <2>f. UNCHANGED <<platform, free, fill_sel, hw_sel, tx_len, armed, tog, wire, irqs, got, base>>
        /\ pc = "idle" /\ pc' = "filled" /\ free[fill_sel] /\ len' = l
        /\ buf' = [buf EXCEPT ![fill_sel] = Len(sent) + 1]
    BY <1>1 DEF Fill, SlotFree, stateVars, hwVars, resetVars
  <2>s. Len(sent') = Len(sent) + 1 /\ sent'[Len(sent) + 1] = <<Len(sent) + 1, l>>
        /\ (\A n \in 1 .. Len(sent) : sent'[n] = sent[n])
    BY <1>1 DEF Fill, AlwaysInv
  <2>1. \A i \in 1 .. Len(got') : got'[i] = sent'[base' + i]
    <3>1. \A i \in 1 .. Len(got) : base + i \in 1 .. Len(sent)
      BY <1>u
    <3> QED
      BY <2>f, <2>s, <3>1 DEF LenInv
  <2>2. \A s \in Slots : ~Ch32 /\ armed[s] => s = tog /\ Unread >= 1 /\ s # fill_sel
    BY <2>f DEF TypeOK, CleanInv, CountInv, ArmInv, Busy, Num, Fil, Slots, Other, Ch32
  <2>3. wire.on => Unread >= 1 /\ tog # fill_sel
    <3>1. CASE Ch32
      BY <2>f, <3>1 DEF TypeOK, CleanInv, CountInv, ArmInv, Busy, Num, Fil, Slots, Other, Ch32
    <3>2. CASE ~Ch32
      BY <2>2, <3>2 DEF TypeOK, CleanInv, ArmInv
    <3> QED
      BY <3>1, <3>2
  <2>4. wire'.on => wire'.len = sent'[buf'[tog']][2]
    BY <1>u, <2>f, <2>s, <2>3 DEF LenInv, TypeOK
  <2>5. ~Ch32 => \A s \in Slots : armed[s] => tx_len[s] = sent'[buf'[s]][2]
    BY <1>u, <2>f, <2>s, <2>2 DEF LenInv, TypeOK
  <2>6. ASSUME Ch32, armed[0], NEW n \in base' + Len(got') + 1 .. Len(sent') - 1
        PROVE  sent'[n][2] = tx_len[0]
    <3>1. n \in base + Len(got) + 1 .. Len(sent)
      BY <1>u, <2>6, <2>f, <2>s
    <3> QED
      BY <1>u, <2>6, <2>f, <2>s, <3>1 DEF LenInv, Num
  <2> QED
    BY <2>f, <2>1, <2>4, <2>5, <2>6 DEF LenInv, Ch32, Num
<1>t. CASE Take
  <2>f. UNCHANGED <<platform, len, buf, sent, tx_len, armed, tog, wire, got, base>>
        /\ pc = "filled" /\ pc' = "taken" /\ ~Mixes
    BY <1>t DEF Take, InStep, hwVars
  <2>1. ASSUME Ch32, armed[0], NEW n \in base + Len(got) + 1 .. Len(sent) PROVE sent[n][2] = tx_len[0]
    <3>1. Busy >= 1 /\ free[fill_sel]
      BY <2>1, <2>f DEF CleanInv, CountInv, ArmInv, Fil
    <3>2. ~free[Other(fill_sel)]
      BY <3>1 DEF Busy, Num, Other, Slots, TypeOK
    <3>3. tx_len[0] = len
      BY <2>1, <2>f, <3>2 DEF Mixes, LenInv, Other, Slots, TypeOK
    <3>4. CASE n = Len(sent)
      BY <1>u, <2>f, <3>3, <3>4 DEF AlwaysInv
    <3>5. CASE n # Len(sent)
      <4>1. \A m \in base + Len(got) + 1 .. Len(sent) - Num(pc = "filled") : sent[m][2] = tx_len[0]
        BY <2>1 DEF LenInv
      <4>2. n \in base + Len(got) + 1 .. Len(sent) - Num(pc = "filled")
        BY <1>u, <2>f, <3>5 DEF Num
      <4> QED
        BY <4>1, <4>2
    <3> QED
      BY <3>4, <3>5
  <2>2. Ch32 => /\ tx_len[0] = tx_len[1]
                /\ armed[0] => \A n \in base + Len(got) + 1 .. Len(sent) : sent[n][2] = tx_len[0]
    BY <2>1 DEF LenInv
  <2> QED
    BY <1>u, <2>f, <2>2 DEF LenInv, Ch32, Num
<1>2. CASE Flip \/ LoadCtrl \/ BeginDrain \/ EndDrain \/ InNak
  <2>1. UNCHANGED <<platform, len, buf, sent, tx_len, armed, tog, wire, got, base>>
        /\ (pc' \in {"sized", "loaded"} => pc \in {"sized", "loaded"} /\ fill_sel' = fill_sel)
        /\ (pc' = "filled" <=> pc = "filled")
    BY <1>2 DEF Flip, LoadCtrl, BeginDrain, EndDrain, InNak, stateVars, loopVars, hwVars, resetVars, vars
  <2> QED
    BY <2>1 DEF LenInv, Ch32
<1>3. CASE SetLen
  <2>f. UNCHANGED <<platform, fill_sel, len, buf, sent, armed, tog, wire, got, base>> /\ pc = "flipped"
        /\ tx_len' = IF Ch32 THEN [s \in Slots |-> len] ELSE [tx_len EXCEPT ![Other(fill_sel)] = len]
    BY <1>3 DEF SetLen, stateVars, resetVars
  <2>g. pc' = "sized"
    BY <1>3 DEF SetLen
  <2>1. CASE Ch32
    <3>1. tx_len'[0] = len /\ tx_len'[1] = len /\ fill_sel \in {0, 1}
      BY <2>f, <2>1 DEF Slots, TypeOK
    <3>2. armed[0] => tx_len[0] = len
      <4>1. Unread >= 1
        BY <2>f DEF CleanInv, CountInv, Mid
      <4>2. Len(sent) \in base + Len(got) + 1 .. Len(sent)
        BY <1>u, <4>1
      <4> QED
        BY <1>u, <2>f, <2>1, <4>2 DEF LenInv, Num, AlwaysInv, Mid
    <3>3. armed[0] => \A n \in base + Len(got) + 1 .. Len(sent) : sent[n][2] = len
      BY <1>u, <2>f, <2>1, <3>2 DEF LenInv, Num
    <3>4. /\ \A i \in 1 .. Len(got) : got[i] = sent[base + i]
          /\ wire.on => wire.len = sent[buf[tog]][2]
      BY DEF LenInv
    <3> QED
      BY <1>u, <2>f, <2>g, <2>1, <3>1, <3>3, <3>4 DEF LenInv, Ch32, Other, Num
  <2>2. CASE ~Ch32
    <3>1. tx_len' = [tx_len EXCEPT ![Other(fill_sel)] = len] /\ Other(fill_sel) \in Slots
      BY <2>f, <2>2 DEF TypeOK, Slots, Other
    <3>2. \A s \in Slots : armed[s] => s # Other(fill_sel)
      BY <2>f, <2>2 DEF CleanInv, ArmInv, Mid, Fil
    <3> QED
      BY <2>f, <2>g, <2>2, <3>1, <3>2 DEF LenInv, Ch32, TypeOK
  <2> QED
    BY <2>1, <2>2
<1>4. CASE Arm
  <2>f. UNCHANGED <<platform, fill_sel, len, buf, sent, tx_len, tog, got, base>> /\ pc \in {"sized", "loaded"}
        /\ pc' = "idle" /\ wire'.on = wire.on /\ wire'.len = wire.len /\ ArmSlot
    BY <1>4 DEF Arm, InStep, stateVars, TypeOK
  <2>l. Len(sent) > 0 /\ sent[Len(sent)][2] = len /\ tx_len[Other(fill_sel)] = len
    BY <2>f DEF AlwaysInv, Mid, LenInv
  <2>1. CASE Ch32
    <3>1. tx_len[0] = len /\ tx_len[1] = len
      BY <2>1, <2>l DEF LenInv, TypeOK, Slots, Other
    <3>2. \A n \in base + Len(got) + 1 .. Len(sent) : sent[n][2] = len
      <4>1. CASE armed[0]
        BY <1>u, <2>1, <2>f, <2>l, <3>1, <4>1 DEF LenInv, Num
      <4>2. CASE ~armed[0]
        <5>1. Busy <= 1 /\ irqs = 0 /\ Unread + irqs = Busy
          BY <2>1, <2>f, <4>2 DEF CleanInv, CountInv, ArmInv, Busy, Num, TypeOK, Unread, AlwaysInv
        <5>2. Unread <= 1
          BY <1>u, <5>1
        <5>3. \A n \in base + Len(got) + 1 .. Len(sent) : n = Len(sent)
          BY <1>u, <5>2
        <5> QED
          BY <2>l, <5>3
      <4> QED
        BY <4>1, <4>2
    <3> QED
      BY <1>u, <2>f, <2>1, <3>1, <3>2 DEF LenInv, Ch32, Num
  <2>2. CASE ~Ch32
    <3>1. armed' = [armed EXCEPT ![Other(fill_sel)] = TRUE]
      BY <2>f, <2>2 DEF ArmSlot
    <3>2. buf[Other(fill_sel)] = Len(sent)
      BY <2>f, LastSlot
    <3>3. ASSUME NEW s \in Slots, armed'[s] PROVE tx_len[s] = sent[buf[s]][2]
      <4>1. CASE s = Other(fill_sel)
        BY <2>l, <3>2, <4>1
      <4>2. CASE s # Other(fill_sel)
        BY <2>2, <3>1, <3>3, <4>2 DEF LenInv, TypeOK
      <4> QED
        BY <4>1, <4>2
    <3> QED
      BY <2>f, <2>2, <3>3 DEF LenInv, Ch32
  <2> QED
    BY <2>1, <2>2
<1>5. CASE TxIsr
  <2>1. UNCHANGED <<platform, fill_sel, pc, len, buf, sent, tx_len, tog, wire, got, base>>
        /\ (\A s \in Slots : armed'[s] => armed[s])
    BY <1>5 DEF TxIsr, NakIfEmpty, loopVars, resetVars
  <2> QED
    BY <2>1 DEF LenInv, Ch32, Slots
<1>6. CASE InStart
  <2>f. UNCHANGED <<platform, fill_sel, pc, len, buf, sent, tx_len, armed, tog, got, base>>
        /\ armed[tog] /\ wire'.len = tx_len[tog]
    BY <1>6 DEF InStart, stateVars, loopVars, resetVars
  <2>1. tx_len[tog] = sent[buf[tog]][2]
    <3>1. CASE Ch32
      <4>1. Unread >= 1
        BY <1>6, <3>1 DEF InStart, TypeOK, AlwaysInv, CleanInv, CountInv, ArmInv, Busy, Num, Unread, Ch32, Slots
      <4>2. buf[tog] \in base + Len(got) + 1 .. Len(sent)
        BY <1>u, <4>1
      <4>5. pc = "filled" => buf[tog] # Len(sent)
        <5>1. pc = "filled" => Unread = 2
          BY <1>6, <3>1 DEF InStart, TypeOK, AlwaysInv, CleanInv, CountInv, ArmInv, Busy, Num, Unread, Ch32, Slots
        <5> QED
          BY <1>u, <4>1, <5>1
      <4>3. armed[0] /\ tx_len[tog] = tx_len[0]
        BY <2>f, <3>1 DEF CleanInv, ArmInv, LenInv, TypeOK, Slots
      <4> QED
        BY <1>u, <3>1, <4>2, <4>3, <4>5 DEF LenInv, Num
    <3>2. CASE ~Ch32
      BY <2>f, <3>2 DEF LenInv, TypeOK
    <3> QED
      BY <3>1, <3>2
  <2> QED
    BY <2>f, <2>1 DEF LenInv, Ch32
<1>7. CASE InDone
  <2>f. UNCHANGED <<platform, fill_sel, pc, len, buf, sent, tx_len, base>> /\ wire.on /\ ~wire'.on
        /\ (\A s \in Slots : armed'[s] => armed[s])
    BY <1>7 DEF InDone, Nothing, stateVars, loopVars, resetVars, TypeOK
  <2>1. Unread >= 1 /\ wire.slot = tog
    BY <2>f DEF CleanInv, ArmInv
  <2>2. <<buf[wire.slot], wire.len>> = sent[base + Len(got) + 1]
    <3>1. sent[buf[tog]] = <<buf[tog], sent[buf[tog]][2]>>
      BY <1>u, <2>1, SentIs
    <3> QED
      BY <1>u, <2>f, <2>1, <3>1 DEF LenInv
  <2>e. clean /\ Expected
    BY <2>f, <2>1 DEF Expected, CleanInv, CountInv, InStep
  <2>3. Len(got') = Len(got) + 1 /\ got'[Len(got) + 1] = <<buf[wire.slot], wire.len>>
        /\ (\A i \in 1 .. Len(got) : got'[i] = got[i])
    BY <1>7, <2>e DEF InDone, AlwaysInv
  <2>4. \A i \in 1 .. Len(got') : got'[i] = sent'[base' + i]
    <3>1. ASSUME NEW i \in 1 .. Len(got) PROVE got'[i] = sent[base + i]
      BY <2>3 DEF LenInv
    <3>2. got'[Len(got) + 1] = sent[base + Len(got) + 1]
      BY <2>2, <2>3
    <3>3. ASSUME NEW i \in 1 .. Len(got') PROVE got'[i] = sent[base + i]
      <4>1. i \in 1 .. Len(got) \/ i = Len(got) + 1
        BY <1>u, <2>3
      <4>2. CASE i = Len(got) + 1
        <5>1. base + i = base + Len(got) + 1
          BY <1>u, <4>2
        <5> QED
          BY <3>2, <4>2, <5>1
      <4> QED
        BY <3>1, <4>1, <4>2
    <3> QED
      BY <2>f, <3>3
  <2>5. \A n \in base' + Len(got') + 1 .. Len(sent') - Num(pc' = "filled") :
          n \in base + Len(got) + 1 .. Len(sent) - Num(pc = "filled")
    BY <1>u, <2>f, <2>3 DEF Num
  <2> QED
    BY <2>f, <2>4, <2>5 DEF LenInv, Ch32, Slots
<1> QED
  BY <1>1, <1>t, <1>2, <1>3, <1>4, <1>5, <1>6, <1>7 DEF Next, Submit

\* The invariant.
LEMMA TxInit == ASSUME Init PROVE TxInv
<1> USE TxAssumption DEF TxAssumption, Init, Slots, Nothing
<1>1. TypeOK
  BY DEF TypeOK
<1>2. AlwaysInv
  BY DEF AlwaysInv, Mid
<1>3. CountInv
  BY DEF CountInv, Fil, Busy, Unread, Num, Mid, Other
<1>4. ArmInv /\ BufInv
  BY DEF ArmInv, BufInv, Busy, Unread, Num, Ch32
<1>5. LenInv
  BY DEF LenInv, Num
<1> QED
  BY <1>1, <1>2, <1>3, <1>4, <1>5 DEF TxInv

LEMMA TxStep == ASSUME TxInv, [Next]_vars PROVE TxInv'
<1>1. TypeOK /\ AlwaysInv /\ (InStep => CleanInv /\ LenInv)
  BY DEF TxInv, CleanInv
<1>2. TypeOK' /\ AlwaysInv'
  BY <1>1, TxTypeStep DEF CleanInv
<1>3. ASSUME InStep' PROVE CleanInv' /\ LenInv'
  <2>1. CASE BusReset
    <3>1. CleanInv'
      BY <1>1, <1>3, <2>1, ResetStep DEF InStep
    <3>2. got' = << >> /\ ~wire'.on /\ ~armed'[0] /\ ~armed'[1] /\ pc' \in Loop /\ platform' = platform
      BY <1>3, <2>1 DEF InStep, BusReset, HardwareAnew, Nothing, loopVars, Slots, Ch32
    <3>3. Ch32 => tx_len'[0] = tx_len'[1]
      BY <2>1 DEF BusReset, HardwareAnew, Slots
    <3>4. LenInv'
      BY <3>2, <3>3 DEF LenInv, Ch32, Slots, Loop
    <3> QED
      BY <3>1, <3>4
  <2>2. CASE Next /\ ~BusReset
    <3>1. InStep
      BY <1>3, <2>2 DEF InStep, Next, Submit, Fill, Take, Flip, SetLen, LoadCtrl, Arm, BeginDrain, EndDrain,
         TxIsr, InStart, InDone, InNak, resetVars, vars
    <3>2. CleanInv'
      <4>1. CASE InNak
        BY <1>1, <3>1, <4>1 DEF InNak, vars, stateVars, loopVars, hwVars, resetVars, CleanInv, CountInv,
           ArmInv, BufInv, Busy, Unread, Fil, Mid, Submitting, Ch32
      <4>2. CASE ~InNak
        BY <1>1, <1>3, <2>2, <3>1, <4>2, FillStep, SubmitStep, IsrStep, HostStep DEF Next, Submit
      <4> QED
        BY <4>1, <4>2
    <3> QED
      BY <1>1, <1>3, <2>2, <3>1, <3>2, LenStep
  <2>3. CASE UNCHANGED vars
    <3>1. CleanInv /\ LenInv
      BY <1>1, <1>3, <2>3 DEF vars, resetVars, InStep
    <3> QED
      BY <2>3, <3>1 DEF vars, stateVars, loopVars, hwVars, resetVars, CleanInv, CountInv,
         ArmInv, BufInv, LenInv, Busy, Unread, Fil, Mid, Submitting, Ch32
  <2> QED
    BY <2>1, <2>2, <2>3
<1> QED
  BY <1>2, <1>3 DEF TxInv, CleanInv

LEMMA TxInvariant == Spec => []TxInv
<1>1. Init => TxInv
  BY TxInit
<1>2. TxInv /\ [Next]_vars => TxInv'
  BY TxStep
<1> QED
  BY <1>1, <1>2, PTL DEF Spec

\* tx_state_t, the main loop and the hardware keep to their types on both platforms,
\* whatever the resets and the lengths, and unless the two sides are out of step no more
\* than two finished packets wait for the handler.
THEOREM TxTypeCorrect == Spec => []TypeOK
<1>1. TxInv => TypeOK
  BY DEF TxInv
<1> QED
  BY <1>1, TxInvariant, PTL

\* Whenever usb_*_tx_drain returns in step, the host has read every packet submitted
\* since the last reset, unchanged and in order, and no slot is armed, whatever the
\* lengths and wherever the interrupts and the resets came.
THEOREM DrainCorrect == Spec => DrainedMeansRead
<1>1. TxInv /\ [Next]_vars =>
        [pc = "draining" /\ pc' = "idle" /\ InStep =>
           got = SubSeq(sent, base + 1, Len(sent)) /\ (\A s \in Slots : ~armed[s])]_vars
  <2> SUFFICES ASSUME TxInv, [Next]_vars, pc = "draining", pc' = "idle", InStep
               PROVE  got = SubSeq(sent, base + 1, Len(sent)) /\ (\A s \in Slots : ~armed[s])
    OBVIOUS
  <2>1. TypeOK /\ AlwaysInv /\ CountInv /\ ArmInv /\ CleanInv /\ LenInv
    BY DEF TxInv, CleanInv
  <2>2. free[0] /\ free[1]
    BY DEF Next, Submit, Fill, Take, Flip, SetLen, LoadCtrl, Arm, BeginDrain, EndDrain, Drained, AllFree, TxIsr,
       BusReset, InStart, InDone, InNak, loopVars, vars
  <2>3. Busy = 0
    BY <2>2 DEF Busy, Num
  <2>4. Unread \in 0 .. 2 /\ Len(got) \in Nat /\ base \in Nat /\ Len(sent) \in Nat
        /\ base + Len(got) + Unread = Len(sent)
    BY <2>1, UnreadPlaces
  <2>5. Unread = 0
    BY <2>1, <2>3, <2>4 DEF CountInv, Num, TypeOK
  <2>6. \A s \in Slots : ~armed[s]
    BY <2>1, <2>2, <2>3 DEF ArmInv, Slots
  <2>7. got = SubSeq(sent, base + 1, Len(sent))
    <3> DEFINE r == SubSeq(sent, base + 1, Len(sent))
    <3>1. Len(got) = Len(sent) - base /\ base + 1 \in Int /\ Len(sent) \in Int
      BY <2>4, <2>5
    <3>2. \A i \in base + 1 .. Len(sent) : sent[i] \in Nat \X Lens
      BY <2>1, <2>4 DEF AlwaysInv
    <3>3. r \in Seq(Nat \X Lens)
          /\ Len(r) = (IF base + 1 <= Len(sent) THEN Len(sent) - (base + 1) + 1 ELSE 0)
          /\ (\A i \in 1 .. Len(sent) - (base + 1) + 1 : r[i] = sent[base + 1 + i - 1])
      BY <3>1, <3>2, SubSeqProperties
    <3> HIDE DEF r
    <3>4. Len(r) = Len(got)
      <4>1. CASE base + 1 <= Len(sent)
        BY <2>4, <3>1, <3>3, <4>1
      <4>2. CASE base = Len(sent)
        BY <2>4, <3>1, <3>3, <4>2
      <4> QED
        BY <2>4, <3>1, <4>1, <4>2
    <3>5. ASSUME NEW i \in 1 .. Len(got) PROVE got[i] = r[i]
      <4>1. i \in 1 .. Len(sent) - (base + 1) + 1 /\ base + 1 + i - 1 = base + i
        BY <2>4, <3>1
      <4> QED
        BY <2>1, <3>3, <4>1 DEF LenInv
    <3>6. got = r
      <4>1. got \in Seq(Nat \X (Lens \union {0})) /\ r \in Seq(Nat \X Lens)
        BY <2>1, <3>3 DEF AlwaysInv
      <4> QED
        BY <3>4, <3>5, <4>1, SeqEqual
    <3> QED
      BY <3>6 DEF r
  <2> QED
    BY <2>6, <2>7
<1> QED
  BY <1>1, TxInvariant, PTL DEF Spec, DrainedMeansRead

-----------------------------------------------------------------------------
(* The refinement.                                                         *)

Queue == IF InStep THEN SubSeq(sent, base + Len(got) + 1, Len(sent)) ELSE << >>
Read  == IF InStep THEN got ELSE << >>

\* What is left of a sequence from a place on: its first element, the rest of it, and
\* what an append does to it.
LEMMA Suffix ==
  ASSUME NEW S, NEW p \in Seq(S), NEW k \in 0 .. Len(p)
  PROVE  /\ Len(SubSeq(p, k + 1, Len(p))) = Len(p) - k
         /\ k = Len(p) => SubSeq(p, k + 1, Len(p)) = << >>
         /\ k < Len(p) => /\ SubSeq(p, k + 1, Len(p)) # << >>
                          /\ Head(SubSeq(p, k + 1, Len(p))) = p[k + 1]
                          /\ Tail(SubSeq(p, k + 1, Len(p))) = SubSeq(p, k + 2, Len(p))
         /\ \A e \in S : SubSeq(Append(p, e), k + 1, Len(p) + 1) = Append(SubSeq(p, k + 1, Len(p)), e)
<1> DEFINE q == SubSeq(p, k + 1, Len(p))
<1>l. Len(p) \in Nat /\ k \in Int /\ k + 1 \in Int /\ k <= Len(p) /\ 0 <= k
  OBVIOUS
<1>1. q \in Seq(S) /\ Len(q) = Len(p) - k /\ (\A i \in 1 .. Len(p) - k : q[i] = p[k + 1 + i - 1])
  <2>1. \A i \in k + 1 .. Len(p) : p[i] \in S
    BY <1>l
  <2>2. Len(p) - (k + 1) + 1 = Len(p) - k /\ (k + 1 > Len(p) => Len(p) - k = 0)
    BY <1>l
  <2>3. q \in Seq(S) /\ Len(q) = (IF k + 1 <= Len(p) THEN Len(p) - (k + 1) + 1 ELSE 0)
        /\ (\A i \in 1 .. Len(p) - (k + 1) + 1 : q[i] = p[k + 1 + i - 1])
    BY <1>l, <2>1, SubSeqProperties
  <2> HIDE DEF q
  <2>4. Len(q) = Len(p) - k
    <3>1. CASE k + 1 <= Len(p)
      BY <2>2, <2>3, <3>1
    <3>2. CASE k = Len(p)
      BY <1>l, <2>3, <3>2
    <3> QED
      BY <1>l, <3>1, <3>2
  <2> QED
    BY <2>2, <2>3, <2>4
<1>2. k = Len(p) => q = << >>
  BY <1>l, SubSeqEmpty
<1>3. ASSUME k < Len(p) PROVE q # << >> /\ Head(q) = p[k + 1] /\ Tail(q) = SubSeq(p, k + 2, Len(p))
  <2>1. k + 1 \in 1 .. Len(p) /\ Len(p) \in k + 1 .. Len(p) /\ k + 1 + 1 = k + 2
    BY <1>l, <1>3
  <2>2. Head(q) = p[k + 1] /\ Tail(q) = SubSeq(p, k + 1 + 1, Len(p))
    BY <2>1, HeadTailOfSubSeq
  <2>3. q # << >>
    <3> HIDE DEF q
    <3> QED
      BY <1>l, <1>1, <1>3
  <2> QED
    BY <2>1, <2>2, <2>3
<1>4. ASSUME NEW e \in S PROVE SubSeq(Append(p, e), k + 1, Len(p) + 1) = Append(q, e)
  <2> DEFINE t == Append(p, e)
             r == SubSeq(t, k + 1, Len(p) + 1)
  <2>1. t \in Seq(S) /\ Len(t) = Len(p) + 1 /\ t[Len(p) + 1] = e
        /\ (\A i \in 1 .. Len(p) : t[i] = p[i])
    BY AppendProperties
  <2> HIDE DEF t
  <2>2. \A i \in k + 1 .. Len(p) + 1 : t[i] \in S
    BY <1>l, <2>1
  <2>3. r \in Seq(S) /\ Len(r) = (IF k + 1 <= Len(p) + 1 THEN Len(p) + 1 - (k + 1) + 1 ELSE 0)
        /\ (\A i \in 1 .. Len(p) + 1 - (k + 1) + 1 : r[i] = t[k + 1 + i - 1])
    BY <1>l, <2>2, SubSeqProperties
  <2> HIDE DEF r, q
  <2>4. Append(q, e) \in Seq(S) /\ Len(Append(q, e)) = Len(q) + 1 /\ Append(q, e)[Len(q) + 1] = e
        /\ (\A i \in 1 .. Len(q) : Append(q, e)[i] = q[i])
    BY <1>1, AppendProperties
  <2>5. Len(r) = Len(Append(q, e)) /\ Len(r) = Len(p) - k + 1
    BY <1>l, <1>1, <2>3, <2>4
  <2>6. ASSUME NEW i \in 1 .. Len(r) PROVE r[i] = Append(q, e)[i]
    <3>1. r[i] = t[k + i]
      BY <1>l, <2>3, <2>5
    <3>2. CASE i <= Len(p) - k
      <4>1. t[k + i] = p[k + i] /\ q[i] = p[k + i] /\ i \in 1 .. Len(q)
        BY <1>l, <1>1, <2>1, <2>5, <3>2
      <4> QED
        BY <2>4, <3>1, <4>1
    <3>3. CASE i = Len(p) - k + 1
      BY <1>l, <1>1, <2>1, <2>4, <3>1, <3>3
    <3>4. i <= Len(p) - k \/ i = Len(p) - k + 1
      BY <1>l, <2>5
    <3> QED
      BY <3>2, <3>3, <3>4
  <2>7. r = Append(q, e)
    BY <2>3, <2>4, <2>5, <2>6, SeqEqual
  <2> QED
    BY <2>7 DEF r, t
<1> QED
  BY <1>1, <1>2, <1>3, <1>4

\* A packet is in the pipe from the moment its slot is filled.
LEMMA FillSubmits ==
  ASSUME TypeOK, AlwaysInv, CleanInv, InStep, NEW l \in Lens, Fill(l)
  PROVE  /\ <<Len(sent) + 1, l>> \in (1 .. MaxPackets) \X Lens /\ Len(Queue) < 2
         /\ Queue' = Append(Queue, <<Len(sent) + 1, l>>) /\ Read' = Read
<1> DEFINE k == base + Len(got)
           e == <<Len(sent) + 1, l>>
<1>1. Unread \in 0 .. 2 /\ Len(got) \in Nat /\ base \in Nat /\ Len(sent) \in Nat
      /\ base + Len(got) + Unread = Len(sent)
  BY UnreadPlaces
<1>2. InStep' /\ got' = got /\ base' = base /\ sent' = Append(sent, e) /\ pc = "idle" /\ free[fill_sel]
      /\ Len(sent) < MaxPackets
  BY DEF Fill, SlotFree, InStep, hwVars, resetVars
<1>3. sent \in Seq(Nat \X Lens) /\ e \in Nat \X Lens /\ Len(sent') = Len(sent) + 1
  BY <1>1, <1>2 DEF AlwaysInv
<1>4. k \in 0 .. Len(sent) /\ Len(sent) - k = Unread
  BY <1>1
<1>5. Unread < 2
  BY <1>1, <1>2 DEF TypeOK, CleanInv, CountInv, Busy, Num, Slots
<1>6. Queue = SubSeq(sent, k + 1, Len(sent)) /\ Queue' = SubSeq(Append(sent, e), k + 1, Len(sent) + 1)
  BY <1>2, <1>3 DEF Queue
<1>7. Len(SubSeq(sent, k + 1, Len(sent))) = Len(sent) - k
      /\ SubSeq(Append(sent, e), k + 1, Len(sent) + 1) = Append(SubSeq(sent, k + 1, Len(sent)), e)
  <2> HIDE DEF k, e
  <2> QED
    BY <1>3, <1>4, Suffix
<1>8. Len(sent) + 1 \in 1 .. MaxPackets
  BY <1>1, <1>2, TxAssumption DEF TxAssumption
<1>9. Len(Queue) < 2 /\ Queue' = Append(Queue, e)
  <2> HIDE DEF k, e
  <2> QED
    BY <1>1, <1>4, <1>5, <1>6, <1>7
<1> QED
  BY <1>2, <1>8, <1>9 DEF Read

\* What the host reads is the oldest packet it has not read.
LEMMA DoneReads ==
  ASSUME TypeOK, AlwaysInv, CleanInv, LenInv, InStep, InDone
  PROVE  Queue # << >> /\ Queue' = Tail(Queue) /\ Read' = Append(Read, Head(Queue))
<1> DEFINE k == base + Len(got)
           e == <<buf[wire.slot], wire.len>>
<1>1. Unread \in 0 .. 2 /\ Len(got) \in Nat /\ base \in Nat /\ Len(sent) \in Nat
      /\ base + Len(got) + Unread = Len(sent)
      /\ (Unread >= 1 => buf[tog] = k + 1 /\ buf[tog] \in 1 .. Len(sent))
  BY UnreadPlaces
<1>2. InStep' /\ got' = Append(got, e) /\ base' = base /\ sent' = sent
  BY DEF InDone, Expected, CleanInv, CountInv, ArmInv, InStep, loopVars, resetVars
<1>3. Unread >= 1 /\ wire.slot = tog /\ wire.len = sent[buf[tog]][2]
  BY DEF InDone, CleanInv, ArmInv, LenInv
<1>4. k \in 0 .. Len(sent) /\ k < Len(sent) /\ sent \in Seq(Nat \X Lens)
  BY <1>1, <1>3 DEF AlwaysInv
<1>5. e = sent[k + 1]
  <2>1. sent[buf[tog]] = <<buf[tog], sent[buf[tog]][2]>>
    BY <1>1, <1>3, SentIs
  <2> QED
    BY <1>1, <1>3, <2>1
<1>6. Len(got') = Len(got) + 1
  BY <1>2 DEF AlwaysInv
<1>7. Queue = SubSeq(sent, k + 1, Len(sent)) /\ Queue' = SubSeq(sent, k + 2, Len(sent))
  <2>1. base' + Len(got') + 1 = k + 2
    BY <1>1, <1>2, <1>6
  <2> QED
    BY <1>2, <2>1 DEF Queue
<1>8. Queue # << >> /\ Head(Queue) = sent[k + 1] /\ Queue' = Tail(Queue)
  <2> HIDE DEF k, e
  <2> QED
    BY <1>4, <1>7, Suffix
<1> QED
  BY <1>2, <1>5, <1>8 DEF Read

\* A bus reset empties the pipe, and so it is out of step.
LEMMA ResetEmpties == ASSUME AlwaysInv, BusReset PROVE Queue' = << >> /\ Read' = << >>
<1>1. sent' = sent /\ base' = Len(sent) /\ got' = << >> /\ sent \in Seq(Nat \X Lens)
  BY DEF AlwaysInv, BusReset, loopVars
<1>2. base' + Len(got') + 1 = Len(sent) + 1 /\ Len(sent) \in 0 .. Len(sent)
  BY <1>1
<1>3. SubSeq(sent, Len(sent) + 1, Len(sent)) = << >>
  BY <1>1, <1>2, Suffix
<1> QED
  BY <1>1, <1>2, <1>3 DEF Queue, Read

\* What the model does the pipe may do.
LEMMA PipeStep == ASSUME TxInv, [Next]_vars PROVE Pipe!Next \/ UNCHANGED Pipe!pipeVars
<1> USE DEF Pipe!Next, Pipe!pipeVars, Pipe!HostRead, Pipe!Submit, Pipe!Reset
<1>q. Queue = (IF InStep THEN SubSeq(sent, base + Len(got) + 1, Len(sent)) ELSE << >>)
      /\ Read = (IF InStep THEN got ELSE << >>)
  BY DEF Queue, Read
<1>i. TypeOK /\ AlwaysInv /\ (InStep => CleanInv /\ LenInv)
  BY DEF TxInv, CleanInv
<1>1. CASE BusReset
  BY <1>1, <1>i, ResetEmpties DEF Queue, Read
<1>2. ASSUME InStep, NEW l \in Lens, Fill(l) PROVE Pipe!Next
  BY <1>2, <1>i, FillSubmits DEF Queue, Read
<1>3. CASE InStep /\ InDone
  BY <1>3, <1>i, DoneReads DEF Queue, Read
<1>4. CASE ~InStep'
  <2>1. Queue' = << >> /\ Read' = << >>
    BY <1>4 DEF Queue, Read
  <2> QED
    BY <2>1 DEF Queue, Read
<1>5. CASE InStep /\ InStep' /\ UNCHANGED <<sent, base, got>>
  BY <1>5
<1> QED
  <2>1. BusReset \/ (InStep' => InStep)
    BY DEF InStep, Next, Submit, Fill, Take, Flip, SetLen, LoadCtrl, Arm, BeginDrain, EndDrain, TxIsr,
       InStart, InDone, InNak, vars, hwVars, resetVars
  <2>2. BusReset \/ (\E l \in Lens : Fill(l)) \/ InDone \/ UNCHANGED <<sent, base, got>>
    BY DEF Next, Submit, Take, Flip, SetLen, LoadCtrl, Arm, BeginDrain, EndDrain, TxIsr, InStart, InNak,
       vars, loopVars, hwVars, resetVars
  <2> QED
    BY <1>1, <1>2, <1>3, <1>4, <1>5, <2>1, <2>2

\* On both platforms every packet submitted reaches the host once, unchanged and in order,
\* no more than two are under way, and a bus reset, or a submit of the CH32V305 that undoes
\* a toggle or a length, loses those: the endpoint implements the pipe.
THEOREM TxImplementsPipe == Spec => ImplementsPipe
<1>1. Init => Pipe!Init
  BY DEF Init, Pipe!Init
<1>2. TxInv /\ [Next]_vars => [Pipe!Next]_(Pipe!pipeVars)
  BY PipeStep
<1> QED
  BY <1>1, <1>2, TxInvariant, PTL DEF Spec, ImplementsPipe, Pipe!Spec
=============================================================================
