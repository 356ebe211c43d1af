----------------------------- MODULE UsbRxProofs -----------------------------
(***************************************************************************)
(* Proofs about UsbRx: the types, what cmd_task finds in the slot it has   *)
(* given back, and that the endpoint is a pipe of two packets.             *)
(*                                                                         *)
(* The counts of three actors (the flags of rx_state_t, the packets the    *)
(* handler has not seen, the toggles of the hardware and of the host)      *)
(* describe the same packets; from that and from what is in which slot     *)
(* follows that the packet read next is the oldest one.  None of it holds  *)
(* while a bus reset or a toggle undone by a consume has left the two      *)
(* sides out of step, so it is conditional on InStep.                      *)
(***************************************************************************)
EXTENDS UsbRx, SequenceTheorems, TLAPS

Num(b) == IF b THEN 1 ELSE 0

\* Packets that are received and not yet given back, and packets not yet read.
Held   == Num(ready[0]) + Num(ready[1]) + irqs
Unread == Len(put) - base - Len(taken)

\* The slot the main loop reads next.
App == IF pc = "cleared" THEN Other(app_sel) ELSE app_sel

\* In any state, out of step or not.
AlwaysInv ==
  /\ put \in Seq(Nat) /\ taken \in Seq(Nat)
  /\ \A i \in 1 .. Len(put) : put[i] = i
  /\ wire # "none" => Len(put) < MaxPackets
  /\ wire = "fresh" => Consuming
  /\ pc = "loaded" => Ch32

\* The packets the hardware, the handler and the main loop count are the same ones.
CountInv ==
  /\ Unread + Num(pc = "used") = Held
  /\ irqs = 1 => ~ready[hw_sel]
  /\ ready[Other(App)] => ready[App]
  /\ hw_sel = IF ready[App] /\ ~ready[Other(App)] THEN Other(App) ELSE App
  /\ tog = IF irqs = 0 THEN hw_sel ELSE Other(hw_sel)
  /\ pid = tog
  /\ ~configured => Held = 0 /\ wire = "none" /\ pc \in {"idle", "consumed"}

\* Each of them is in its slot.
BufInv ==
  /\ irqs = 1 => buf[hw_sel] = Len(put)
  /\ ready[App] /\ ~ready[Other(App)] => buf[App] = Len(put) - irqs
  /\ ready[App] /\ ready[Other(App)] => buf[App] = Len(put) - 1 /\ buf[Other(App)] = Len(put)
  /\ wire # "none" => buf[tog] = Len(put) + 1

\* The hardware receives only into a free slot.
AvailInv ==
  /\ Ch32 => /\ avail[0] = avail[1]
             /\ avail[0] => ~(ready[0] /\ ready[1])
             /\ wire # "none" => irqs = 0 /\ Held <= 1
  /\ ~Ch32 => /\ \A s \in Slots : ready[s] => ~avail[s]
              /\ irqs = 1 => ~avail[hw_sel]
              /\ wire # "none" => avail[tog]

\* The slot being consumed is not received into before it is armed again, and the
\* arguments stay in it until a second packet comes.
ConsumeInv ==
  /\ pc = "used" => ready[app_sel] /\ pkt = app_sel
  /\ pc \in {"cleared", "flipped", "loaded"} =>
       pkt = Other(App) /\ ~ready[pkt] /\ Held + Num(wire = "old") <= 1
  /\ pc = "consumed" /\ taken # << >> => pkt = Other(App)
  /\ pc # "idle" /\ taken # << >> /\ SentSince <= Len(taken) + 1 => buf[pkt] = args

RxInv == TypeOK /\ AlwaysInv /\ (InStep => CountInv /\ BufInv /\ AvailInv /\ ConsumeInv)

\* The types.
LEMMA RxTypeStep == ASSUME RxInv, [Next]_vars PROVE TypeOK' /\ AlwaysInv'
<1> USE RxAssumption DEF RxAssumption, Slots, Other, InStep
<1>1. CASE Use
  <2>1. taken' \in Seq(Nat) /\ args' \in 0 .. MaxPackets /\ pkt' \in Slots
    BY <1>1 DEF Use, RxInv, TypeOK, AlwaysInv
  <2>2. InStep => Len(taken') <= Len(put) - base
    BY <1>1 DEF Use, RxInv, TypeOK, AlwaysInv, CountInv, ConsumeInv, App, Held, Unread, Num, Readable
  <2> QED
    BY <1>1, <2>1, <2>2 DEF Use, stateVars, hwVars, resetVars, RxInv, TypeOK, AlwaysInv, Consuming, Ch32
<1>2. CASE ClearReady
  <2>1. ready' \in [Slots -> BOOLEAN]
    BY <1>2 DEF ClearReady, RxInv, TypeOK
  <2> QED
    BY <1>2, <2>1 DEF ClearReady, hwVars, resetVars, RxInv, TypeOK, AlwaysInv, Consuming, Ch32
<1>3. CASE FlipApp
  BY <1>3 DEF FlipApp, hwVars, resetVars, RxInv, TypeOK, AlwaysInv, Consuming, Ch32
<1>l. CASE LoadCtrl
  BY <1>l DEF LoadCtrl, stateVars, hwVars, resetVars, RxInv, TypeOK, AlwaysInv, Consuming, Ch32
<1>4. CASE Rearm
  <2>1. avail' \in [Slots -> BOOLEAN]
    BY <1>4 DEF Rearm, RearmConsumed, RxInv, TypeOK
  <2>2. intact' \in BOOLEAN /\ (InStep' => InStep) /\ tog' \in Slots
    BY <1>4 DEF Rearm, RxInv, TypeOK
  <2> QED
    BY <1>4, <2>1, <2>2 DEF Rearm, stateVars, RxInv, TypeOK, AlwaysInv, Consuming, Ch32
<1>5. CASE ReadArgs
  BY <1>5 DEF ReadArgs, Packet, stateVars, hwVars, resetVars, RxInv, TypeOK, AlwaysInv, Consuming, Ch32
<1>6. CASE RxIsr
  <2>1. ready' \in [Slots -> BOOLEAN]
    BY <1>6 DEF RxIsr, RxInv, TypeOK
  <2>2. avail' \in [Slots -> BOOLEAN]
    BY <1>6, <2>1 DEF RxIsr, AfterReceive, RxInv, TypeOK
  <2> QED
    BY <1>6, <2>1, <2>2 DEF RxIsr, loopVars, resetVars, RxInv, TypeOK, AlwaysInv, Consuming, Ch32
<1>7. CASE BusReset
  <2>1. ready' \in [Slots -> BOOLEAN] /\ configured' \in BOOLEAN
    BY <1>7, Zenon DEF BusReset, SlotsAnew
  <2>2. avail' \in [Slots -> BOOLEAN] /\ tog' \in Slots
    BY <1>7 DEF BusReset, RxInv, TypeOK
  <2>3. clean' \in BOOLEAN /\ intact' \in BOOLEAN
    BY <1>7, Zenon DEF BusReset
  <2> QED
    BY <1>7, <2>1, <2>2, <2>3 DEF BusReset, SlotsAnew, RxInv, TypeOK, AlwaysInv, Consuming, Ch32
<1>8. CASE Configure
  <2>1. avail' \in [Slots -> BOOLEAN] /\ configured' \in BOOLEAN
    BY <1>8 DEF Configure, ArmAllRx, RxInv, TypeOK
  <2> QED
    BY <1>8, <2>1 DEF Configure, stateVars, loopVars, RxInv, TypeOK, AlwaysInv, Consuming, Ch32
<1>9. CASE OutStart
  <2>1. buf' \in [Slots -> 0 .. MaxPackets]
    BY <1>9 DEF OutStart, RxInv, TypeOK, AlwaysInv
  <2> QED
    BY <1>9, <2>1 DEF OutStart, stateVars, loopVars, resetVars, RxInv, TypeOK, AlwaysInv, Consuming, Ch32
<1>10. CASE OutDone
  <2>1. avail' \in [Slots -> BOOLEAN]
    BY <1>10 DEF OutDone, Receive, Drop, RxInv, TypeOK
  <2>3. tog' \in Slots /\ irqs' \in 0 .. 1 /\ pid' \in Slots
    BY <1>10 DEF OutDone, Receive, Drop, RxInv, TypeOK
  <2>2. put' \in Seq(Nat) /\ Len(put') = Len(put) + 1 /\ (\A i \in 1 .. Len(put') : put'[i] = i)
    BY <1>10 DEF OutDone, RxInv, AlwaysInv
  <2> QED
    BY <1>10, <2>1, <2>2, <2>3 DEF OutDone, stateVars, loopVars, resetVars, RxInv, TypeOK, AlwaysInv, Consuming, Ch32
<1>11. CASE UNCHANGED vars
  BY <1>11 DEF vars, stateVars, loopVars, hwVars, resetVars, RxInv, TypeOK, AlwaysInv, Consuming, Ch32
<1> QED
  BY <1>1, <1>2, <1>3, <1>l, <1>4, <1>5, <1>6, <1>7, <1>8, <1>9, <1>10, <1>11 DEF Next, Consume

\* The parts of the invariant that hold in step.
CleanInv == CountInv /\ BufInv /\ AvailInv /\ ConsumeInv

\* The main loop.
LEMMA ConsumeStep ==
  ASSUME TypeOK, AlwaysInv, CleanInv, InStep', Consume PROVE CleanInv'
<1> USE DEF Slots, Other, TypeOK, AlwaysInv, CleanInv, App, Held, Unread, Num, Ch32, Consuming, SentSince
<1>1. CASE Use
  <2>f. UNCHANGED <<platform, ready, hw_sel, app_sel, buf, avail, tog, wire, irqs, put, pid, configured, base>>
        /\ pc = "idle" /\ pc' = "used" /\ ready[app_sel] /\ pkt' = app_sel
        /\ taken' \in Seq(Nat) /\ Len(taken') = Len(taken) + 1 /\ args' = buf[app_sel]
    BY <1>1 DEF Use, Readable, InStep, stateVars, hwVars, resetVars
  <2>1. CountInv'
    BY <2>f DEF CountInv
  <2>2. BufInv' /\ AvailInv'
    BY <2>f DEF BufInv, AvailInv
  <2>3. ConsumeInv'
    BY <2>f DEF ConsumeInv
  <2> QED
    BY <2>1, <2>2, <2>3
<1>2. CASE ClearReady
  <2>f. UNCHANGED <<platform, hw_sel, app_sel, pkt, args, taken, buf, avail, tog, wire, irqs, put, pid, configured, base>>
        /\ pc = "used" /\ pc' = "cleared" /\ ready' = [ready EXCEPT ![app_sel] = FALSE]
        /\ ready[app_sel] /\ pkt = app_sel
    BY <1>2 DEF ClearReady, hwVars, resetVars, ConsumeInv
  <2>1. CountInv'
    BY <2>f DEF CountInv
  <2>2. BufInv' /\ AvailInv'
    <3>1. BufInv'
      BY <2>f DEF CountInv, BufInv
    <3>2. AvailInv'
      BY <2>f DEF AvailInv
    <3> QED
      BY <3>1, <3>2
  <2>3. ~ready'[pkt] /\ pkt = Other(App')
    BY <2>f
  <2>4. Held' + Num(wire = "old") <= 1
    <3>1. CASE app_sel = 0
      BY <2>f, <3>1 DEF CountInv, AvailInv
    <3>2. CASE app_sel = 1
      BY <2>f, <3>2 DEF CountInv, AvailInv
    <3> QED
      BY <3>1, <3>2
  <2>5. SentSince' = SentSince
    BY <2>f
  <2>6. ConsumeInv'
    BY <2>f, <2>3, <2>4, <2>5 DEF ConsumeInv
  <2> QED
    BY <2>1, <2>2, <2>6
<1>3. CASE FlipApp
  <2>f. UNCHANGED <<platform, ready, hw_sel, pkt, args, taken, buf, avail, tog, wire, irqs, put, pid, configured, base>>
        /\ pc = "cleared" /\ pc' = "flipped" /\ app_sel' = 1 - app_sel
    BY <1>3 DEF FlipApp, hwVars, resetVars
  <2>1. App' = App
    BY <2>f
  <2> QED
    BY <2>f, <2>1 DEF CountInv, BufInv, AvailInv, ConsumeInv
<1>l. CASE LoadCtrl
  <2>f. UNCHANGED <<platform, ready, hw_sel, app_sel, pkt, args, taken, buf, avail, tog, wire, irqs, put, pid, configured, base>>
        /\ pc = "flipped" /\ pc' = "loaded"
    BY <1>l DEF LoadCtrl, stateVars, hwVars, resetVars
  <2> QED
    BY <2>f DEF CountInv, BufInv, AvailInv, ConsumeInv
<1>4. CASE Rearm
  <2>f. UNCHANGED <<platform, ready, hw_sel, app_sel, pkt, args, taken, buf, tog, irqs, put, pid, configured, base>>
        /\ pc \in {"flipped", "loaded"} /\ pc' = "consumed" /\ RearmConsumed
        /\ wire' = IF wire = "fresh" THEN "old" ELSE wire
    BY <1>4 DEF Rearm, InStep, stateVars
  <2>1. CountInv' /\ BufInv' /\ ConsumeInv'
    BY <2>f DEF CountInv, BufInv, ConsumeInv
  <2>2. ~ready[pkt] /\ Held + Num(wire = "old") <= 1 /\ pkt = Other(App)
    BY <2>f DEF ConsumeInv
  <2>3. ready'[0] = ready[0] /\ ready'[1] = ready[1] /\ Held' = Held /\ Held <= 1
    BY <2>f, <2>2
  <2>4. CASE Ch32
    <3>1. avail'[0] = TRUE /\ avail'[1] = TRUE
      BY <2>f, <2>4 DEF RearmConsumed
    <3>2. ~(ready[0] /\ ready[1]) /\ (wire' # "none" => irqs = 0)
      BY <2>f, <2>3, <2>4 DEF AvailInv
    <3>3. AvailInv'
      BY <2>f, <2>3, <2>4, <3>1, <3>2 DEF AvailInv
    <3> QED
      BY <2>1, <3>3
  <2>5. CASE ~Ch32
    <3>1. avail' = [avail EXCEPT ![pkt] = TRUE]
      BY <2>f, <2>5 DEF RearmConsumed
    <3>2. irqs = 1 => hw_sel = App
      BY <2>f, <2>2 DEF CountInv
    <3>3. irqs = 1 => ~avail'[hw_sel]
      BY <2>f, <2>2, <2>5, <3>1, <3>2 DEF AvailInv
    <3>4. \A s \in Slots : ready[s] => ~avail'[s]
      BY <2>f, <2>2, <2>5, <3>1 DEF AvailInv
    <3>5. wire' # "none" => avail'[tog]
      BY <2>f, <2>5, <3>1 DEF AvailInv
    <3>6. AvailInv'
      BY <2>f, <2>5, <3>3, <3>4, <3>5 DEF AvailInv
    <3> QED
      BY <2>1, <3>6
  <2> QED
    BY <2>1, <2>4, <2>5
<1>5. CASE ReadArgs
  <2>f. UNCHANGED <<platform, ready, hw_sel, app_sel, pkt, taken, buf, avail, tog, wire, irqs, put, pid, configured, base>>
        /\ pc = "consumed" /\ pc' = "idle"
    BY <1>5 DEF ReadArgs, stateVars, hwVars, resetVars
  <2> QED
    BY <2>f DEF CountInv, BufInv, AvailInv, ConsumeInv
<1> QED
  BY <1>1, <1>2, <1>3, <1>l, <1>4, <1>5 DEF Consume

\* The interrupt handler, the hardware and the host.
LEMMA DeviceStep ==
  ASSUME TypeOK, AlwaysInv, CleanInv, RxIsr \/ OutStart \/ OutDone \/ Configure PROVE CleanInv'
<1> USE DEF Slots, Other, TypeOK, AlwaysInv, CleanInv, App, Held, Unread, Num, Ch32, Consuming, SentSince
<1>1. CASE RxIsr
  <2>f. UNCHANGED <<platform, app_sel, pc, pkt, args, taken, buf, tog, wire, put, pid, configured, base>>
        /\ irqs = 1 /\ irqs' = 0 /\ ready' = [ready EXCEPT ![hw_sel] = TRUE] /\ hw_sel' = 1 - hw_sel
        /\ ~ready[hw_sel] /\ AfterReceive
    BY <1>1 DEF RxIsr, loopVars, resetVars, CountInv
  <2>n. UNCHANGED <<App, Unread>>
    BY <2>f
  <2>1. CountInv'
    <3>1. Held' = Held
      <4>1. CASE hw_sel = 0
        BY <2>f, <4>1
      <4>2. CASE hw_sel = 1
        BY <2>f, <4>2
      <4> QED
        BY <4>1, <4>2
    <3>2. ready'[Other(App)] => ready'[App]
      BY <2>f DEF CountInv
    <3>3. hw_sel' = IF ready'[App] /\ ~ready'[Other(App)] THEN Other(App) ELSE App
      BY <2>f DEF CountInv
    <3>4. tog = hw_sel' /\ configured
      BY <2>f DEF CountInv
    <3>5. Unread' + Num(pc' = "used") = Held'
      BY <2>f, <2>n, <3>1 DEF CountInv
    <3> QED
      BY <2>f, <2>n, <3>2, <3>3, <3>4, <3>5 DEF CountInv
  <2>2. BufInv'
    BY <2>f DEF CountInv, BufInv
  <2>3. AvailInv'
    BY <2>f DEF AfterReceive, CountInv, AvailInv
  <2>4. ConsumeInv'
    <3>1. pc \in {"cleared", "flipped", "loaded"} => hw_sel = App /\ hw_sel # pkt
      <4>1. SUFFICES ASSUME pc \in {"cleared", "flipped", "loaded"} PROVE hw_sel = App /\ App # pkt
        OBVIOUS
      <4>2. pkt = Other(App) /\ Held <= 1
        BY <4>1 DEF ConsumeInv
      <4>3. ~ready[App]
        BY <2>f, <4>2
      <4> QED
        BY <4>2, <4>3 DEF CountInv
    <3>2. pc \in {"cleared", "flipped", "loaded"} => ~ready'[pkt] /\ Held' + Num(wire = "old") <= 1
      BY <2>f, <3>1 DEF ConsumeInv
    <3> QED
      BY <2>f, <2>n, <3>2 DEF ConsumeInv
  <2> QED
    BY <2>1, <2>2, <2>3, <2>4
<1>2. CASE OutStart
  <2>f. UNCHANGED <<platform, ready, hw_sel, app_sel, pc, pkt, args, taken, avail, tog, irqs, put, pid, configured, base>>
        /\ wire = "none" /\ wire' = (IF pc \in {"cleared", "flipped", "loaded"} THEN "fresh" ELSE "old")
        /\ buf' = [buf EXCEPT ![tog] = Len(put) + 1] /\ configured /\ avail[tog] /\ (Ch32 => irqs = 0)
    BY <1>2 DEF OutStart, stateVars, loopVars, resetVars
  <2>1. CountInv'
    BY <2>f DEF CountInv
  <2>2. ~ready[tog] /\ Held <= 1
    BY <2>f DEF CountInv, AvailInv
  <2>3. BufInv' /\ AvailInv'
    BY <2>f, <2>2 DEF CountInv, BufInv, AvailInv
  <2>4. pc \in {"cleared", "flipped", "loaded"} => wire' = "fresh"
    BY <2>f
  <2>5. ASSUME pc # "idle", taken # << >>, SentSince' <= Len(taken) + 1 PROVE buf'[pkt] = args
    <3>1. Len(put) - base <= Len(taken)
      BY <2>f, <2>5
    <3>2. SentSince <= Len(taken) + 1 /\ buf[pkt] = args
      BY <2>f, <2>5, <3>1 DEF ConsumeInv
    <3>3. tog # pkt
      <4>1. Len(put) - base = Len(taken) /\ Unread = 0
        <5>1. Unread + Num(pc = "used") = Held /\ Num(pc = "used") \in 0 .. 1 /\ Held \in Nat
          BY DEF CountInv
        <5>2. pc = "used" => Held >= 1
          BY DEF ConsumeInv
        <5>3. Unread \in Int /\ Unread <= 0
          BY <3>1
        <5>4. Unread >= 0
          <6> HIDE DEF Unread, Held
          <6> QED
            BY <5>1, <5>2, <5>3
        <5> QED
          BY <5>3, <5>4
      <4>2. CASE pc = "used"
        <5>1. ready[app_sel] /\ pkt = app_sel /\ Held = 1
          BY <4>1, <4>2 DEF CountInv, ConsumeInv
        <5> QED
          BY <2>2, <5>1
      <4>3. CASE pc # "used"
        <5>1. pkt = Other(App) /\ Held = 0
          BY <2>5, <4>1, <4>3 DEF CountInv, ConsumeInv
        <5>2. tog = App
          BY <5>1 DEF CountInv
        <5> QED
          BY <5>1, <5>2
      <4> QED
        BY <4>2, <4>3
    <3> QED
      BY <2>f, <3>2, <3>3
  <2>6. ConsumeInv'
    BY <2>f, <2>2, <2>4, <2>5 DEF ConsumeInv
  <2> QED
    BY <2>1, <2>3, <2>6
<1>3. CASE OutDone
  <2>f. UNCHANGED <<platform, ready, hw_sel, app_sel, pc, pkt, args, taken, buf, configured, base>>
        /\ wire = "old" /\ wire' = "none" /\ irqs = 0 /\ irqs' = 1 /\ tog' = 1 - tog /\ pid' = tog'
        /\ put' \in Seq(Nat) /\ Len(put') = Len(put) + 1
        /\ avail' = IF Ch32 THEN avail ELSE [avail EXCEPT ![tog] = FALSE]
    BY <1>3 DEF OutDone, Receive, CountInv, stateVars, loopVars, resetVars
  <2>1. ~ready[tog] /\ Held <= 1 /\ hw_sel = tog
    BY <2>f DEF CountInv, AvailInv
  <2>2. CountInv'
    <3>1. Unread' = Unread + 1 /\ Held' = Held + 1
      BY <2>f
    <3>2. Unread' + Num(pc' = "used") = Held'
      BY <2>f, <3>1 DEF CountInv
    <3>3. UNCHANGED <<App, configured>> /\ configured
      BY <2>f DEF CountInv
    <3> QED
      BY <2>f, <2>1, <3>2, <3>3 DEF CountInv
  <2>3. BufInv'
    BY <2>f, <2>1 DEF CountInv, BufInv
  <2>4. AvailInv'
    BY <2>f, <2>1 DEF AvailInv
  <2>5. ConsumeInv'
    BY <2>f, <2>1 DEF ConsumeInv
  <2> QED
    BY <2>2, <2>3, <2>4, <2>5
<1>4. CASE Configure
  <2>f. UNCHANGED <<platform, ready, hw_sel, app_sel, pc, pkt, args, taken, buf, tog, wire, irqs, put, pid, base>>
        /\ ~configured /\ configured' = TRUE /\ (IF Ch32 THEN UNCHANGED avail ELSE ArmAllRx)
    BY <1>4 DEF Configure, stateVars, loopVars
  <2>1. Held = 0 /\ wire = "none"
    BY <2>f DEF CountInv
  <2> QED
    BY <2>f, <2>1 DEF ArmAllRx, CountInv, BufInv, AvailInv, ConsumeInv
<1> QED
  BY <1>1, <1>2, <1>3, <1>4

\* A bus reset that leaves the two sides in step.
LEMMA ResetStep == ASSUME TypeOK, AlwaysInv, BusReset, clean' PROVE CleanInv'
<1> USE DEF Slots, Other, TypeOK, AlwaysInv, CleanInv, App, Held, Unread, Num, Ch32, Consuming, SentSince
<1>f. UNCHANGED <<platform, pc, pkt, args, put>> /\ configured' = FALSE
      /\ ready' = [s \in Slots |-> FALSE] /\ hw_sel' = 0 /\ app_sel' = 0
      /\ wire' = "none" /\ base' = Len(put) /\ taken' = << >> /\ irqs' = 0
      /\ (Ch32 => avail' = [s \in Slots |-> TRUE]) /\ tog' = 0 /\ pid' = 0 /\ pc \in {"idle", "consumed"}
  BY DEF BusReset, SlotsAnew
<1>r. ready'[0] = FALSE /\ ready'[1] = FALSE
  BY <1>f
<1>1. Held' = 0 /\ Unread' = 0 /\ App' = 0
  <2>1. Held' = 0
    BY <1>f, <1>r
  <2>2. Unread' = 0
    <3>1. Len(taken') = 0 /\ Len(put') = Len(put) /\ base' = Len(put) /\ Len(put) \in Nat
      BY <1>f
    <3> QED
      BY <3>1
  <2>3. App' = 0
    BY <1>f
  <2> QED
    BY <2>1, <2>2, <2>3
<1>2. CountInv'
  BY <1>f, <1>1 DEF CountInv
<1>3. BufInv'
  BY <1>f DEF BufInv
<1>4. AvailInv'
  <2>1. Ch32' => AvailInv'
    <3>1. Ch32 => avail'[0] = TRUE /\ avail'[1] = TRUE
      BY <1>f
    <3> QED
      BY <1>f, <1>r, <3>1 DEF AvailInv
  <2>2. ~Ch32' => AvailInv'
    BY <1>f, <1>r DEF AvailInv
  <2> QED
    BY <2>1, <2>2
<1>5. ConsumeInv'
  BY <1>f DEF ConsumeInv
<1> QED
  BY <1>2, <1>3, <1>4, <1>5

\* The invariant.
LEMMA RxInit == ASSUME Init PROVE RxInv
<1> USE RxAssumption DEF RxAssumption, Init, Slots
<1>1. TypeOK
  BY DEF TypeOK
<1>2. AlwaysInv
  BY DEF AlwaysInv
<1>3. CountInv
  BY DEF CountInv, App, Held, Unread, Num, Other
<1>4. BufInv /\ AvailInv /\ ConsumeInv
  BY DEF BufInv, AvailInv, ConsumeInv, App, Held, Num, Other, SentSince
<1> QED
  BY <1>1, <1>2, <1>3, <1>4 DEF RxInv

LEMMA RxStep == ASSUME RxInv, [Next]_vars PROVE RxInv'
<1>1. TypeOK /\ AlwaysInv /\ (InStep => CleanInv)
  BY DEF RxInv, CleanInv
<1>2. TypeOK' /\ AlwaysInv'
  BY RxTypeStep
<1>3. ASSUME InStep' PROVE CleanInv'
  <2>1. CASE BusReset
    BY <1>1, <1>3, <2>1, ResetStep DEF InStep
  <2>2. CASE Consume
    <3>1. InStep
      BY <1>3, <2>2 DEF InStep, Consume, Use, ClearReady, FlipApp, LoadCtrl, Rearm, ReadArgs, resetVars
    <3> QED
      BY <1>1, <1>3, <2>2, <3>1, ConsumeStep
  <2>3. CASE RxIsr \/ OutStart \/ OutDone \/ Configure
    <3>1. InStep
      BY <1>3, <2>3 DEF InStep, RxIsr, OutStart, OutDone, Configure, resetVars
    <3> QED
      BY <1>1, <2>3, <3>1, DeviceStep
  <2>4. CASE UNCHANGED vars
    <3>1. CleanInv
      BY <1>1, <1>3, <2>4 DEF InStep, vars, resetVars
    <3> QED
      BY <2>4, <3>1 DEF vars, stateVars, loopVars, hwVars, resetVars, CleanInv, CountInv, BufInv,
           AvailInv, ConsumeInv, App, Held, Unread, SentSince, Ch32
  <2> QED
    BY <2>1, <2>2, <2>3, <2>4 DEF Next
<1> QED
  BY <1>2, <1>3 DEF RxInv, CleanInv

LEMMA RxInvariant == Spec => []RxInv
<1>1. Init => RxInv
  BY RxInit
<1>2. RxInv /\ [Next]_vars => RxInv'
  BY RxStep
<1> QED
  BY <1>1, <1>2, PTL DEF Spec

\* rx_state_t, the main loop and the hardware keep to their types on both platforms,
\* whatever the resets: no more than one received packet waits for the handler, and the
\* caller has not read more than was sent.
THEOREM RxTypeCorrect == Spec => []TypeOK
<1>1. RxInv => TypeOK
  BY DEF RxInv
<1> QED
  BY <1>1, RxInvariant, PTL

\* In step, cmd_task, which reads the arguments of a command after usb_cmd_rx_consume has given
\* its slot back, finds those of that command unless the host has sent two more.
THEOREM ArgsCorrect == Spec => ArgsOfCommand
<1>1. RxInv /\ [Next]_vars =>
        [ReadArgs /\ InStep /\ taken # << >> /\ SentSince <= Len(taken) + 1 => args' = args]_vars
  BY DEF RxInv, ReadArgs, Packet, ConsumeInv
<1> QED
  BY <1>1, RxInvariant, PTL DEF Spec, ArgsOfCommand

-----------------------------------------------------------------------------
(* The refinement.                                                         *)

Queue == IF InStep THEN SubSeq(put, base + Len(taken) + 1, Len(put)) ELSE << >>
Read  == IF InStep THEN taken ELSE << >>

\* What is left of a sequence from a place on: its first element, the rest of it, and
\* what an append does to it.
LEMMA Suffix ==
  ASSUME NEW S, NEW p \in Seq(S), NEW k \in 0 .. Len(p)
  PROVE  /\ Len(SubSeq(p, k + 1, Len(p))) = Len(p) - k
         /\ k = Len(p) => SubSeq(p, k + 1, Len(p)) = << >>
         /\ k < Len(p) => /\ SubSeq(p, k + 1, Len(p)) # << >>
                          /\ Head(SubSeq(p, k + 1, Len(p))) = p[k + 1]
                          /\ Tail(SubSeq(p, k + 1, Len(p))) = SubSeq(p, k + 2, Len(p))
         /\ \A e \in S : SubSeq(Append(p, e), k + 1, Len(p) + 1) = Append(SubSeq(p, k + 1, Len(p)), e)
<1> DEFINE q == SubSeq(p, k + 1, Len(p))
<1>l. Len(p) \in Nat /\ k \in Int /\ k + 1 \in Int /\ k <= Len(p) /\ 0 <= k
  OBVIOUS
<1>1. q \in Seq(S) /\ Len(q) = Len(p) - k /\ (\A i \in 1 .. Len(p) - k : q[i] = p[k + 1 + i - 1])
  <2>1. \A i \in k + 1 .. Len(p) : p[i] \in S
    BY <1>l
  <2>2. Len(p) - (k + 1) + 1 = Len(p) - k /\ (k + 1 > Len(p) => Len(p) - k = 0)
    BY <1>l
  <2>3. q \in Seq(S) /\ Len(q) = (IF k + 1 <= Len(p) THEN Len(p) - (k + 1) + 1 ELSE 0)
        /\ (\A i \in 1 .. Len(p) - (k + 1) + 1 : q[i] = p[k + 1 + i - 1])
    BY <1>l, <2>1, SubSeqProperties
  <2> HIDE DEF q
  <2>4. Len(q) = Len(p) - k
    <3>1. CASE k + 1 <= Len(p)
      BY <2>2, <2>3, <3>1
    <3>2. CASE k = Len(p)
      BY <1>l, <2>3, <3>2
    <3> QED
      BY <1>l, <3>1, <3>2
  <2> QED
    BY <2>2, <2>3, <2>4
<1>2. k = Len(p) => q = << >>
  BY <1>l, SubSeqEmpty
<1>3. ASSUME k < Len(p) PROVE q # << >> /\ Head(q) = p[k + 1] /\ Tail(q) = SubSeq(p, k + 2, Len(p))
  <2>1. k + 1 \in 1 .. Len(p) /\ Len(p) \in k + 1 .. Len(p) /\ k + 1 + 1 = k + 2
    BY <1>l, <1>3
  <2>2. Head(q) = p[k + 1] /\ Tail(q) = SubSeq(p, k + 1 + 1, Len(p))
    BY <2>1, HeadTailOfSubSeq
  <2>3. q # << >>
    <3> HIDE DEF q
    <3> QED
      BY <1>l, <1>1, <1>3
  <2> QED
    BY <2>1, <2>2, <2>3
<1>4. ASSUME NEW e \in S PROVE SubSeq(Append(p, e), k + 1, Len(p) + 1) = Append(q, e)
  <2> DEFINE t == Append(p, e)
             r == SubSeq(t, k + 1, Len(p) + 1)
  <2>1. t \in Seq(S) /\ Len(t) = Len(p) + 1 /\ t[Len(p) + 1] = e
        /\ (\A i \in 1 .. Len(p) : t[i] = p[i])
    BY AppendProperties
  <2> HIDE DEF t
  <2>2. \A i \in k + 1 .. Len(p) + 1 : t[i] \in S
    BY <1>l, <2>1
  <2>3. r \in Seq(S) /\ Len(r) = (IF k + 1 <= Len(p) + 1 THEN Len(p) + 1 - (k + 1) + 1 ELSE 0)
        /\ (\A i \in 1 .. Len(p) + 1 - (k + 1) + 1 : r[i] = t[k + 1 + i - 1])
    BY <1>l, <2>2, SubSeqProperties
  <2> HIDE DEF r, q
  <2>4. Append(q, e) \in Seq(S) /\ Len(Append(q, e)) = Len(q) + 1 /\ Append(q, e)[Len(q) + 1] = e
        /\ (\A i \in 1 .. Len(q) : Append(q, e)[i] = q[i])
    BY <1>1, AppendProperties
  <2>5. Len(r) = Len(Append(q, e)) /\ Len(r) = Len(p) - k + 1
    BY <1>l, <1>1, <2>3, <2>4
  <2>6. ASSUME NEW i \in 1 .. Len(r) PROVE r[i] = Append(q, e)[i]
    <3>1. r[i] = t[k + i]
      BY <1>l, <2>3, <2>5
    <3>2. CASE i <= Len(p) - k
      <4>1. t[k + i] = p[k + i] /\ q[i] = p[k + i] /\ i \in 1 .. Len(q)
        BY <1>l, <1>1, <2>1, <2>5, <3>2
      <4> QED
        BY <2>4, <3>1, <4>1
    <3>3. CASE i = Len(p) - k + 1
      BY <1>l, <1>1, <2>1, <2>4, <3>1, <3>3
    <3>4. i <= Len(p) - k \/ i = Len(p) - k + 1
      BY <1>l, <2>5
    <3> QED
      BY <3>2, <3>3, <3>4
  <2>7. r = Append(q, e)
    BY <2>3, <2>4, <2>5, <2>6, SeqEqual
  <2> QED
    BY <2>7 DEF r, t
<1> QED
  BY <1>1, <1>2, <1>3, <1>4

\* The packet the main loop reads is the oldest one it has not read.
LEMMA UseReads ==
  ASSUME RxInv, InStep, Use
  PROVE  Queue # << >> /\ Queue' = Tail(Queue) /\ Read' = Append(Read, Head(Queue))
<1>1. TypeOK /\ AlwaysInv /\ CountInv /\ BufInv
  BY DEF RxInv
<1>2. pc = "idle" /\ ready[app_sel] /\ InStep' /\ put' = put /\ base' = base
      /\ taken' = Append(taken, buf[app_sel])
  BY DEF Use, Readable, InStep, hwVars, resetVars
<1>3. Unread > 0 /\ buf[app_sel] = base + Len(taken) + 1
  <2>1. Unread = Held /\ App = app_sel
    BY <1>1, <1>2 DEF CountInv, App, Num, Unread, Held, TypeOK, AlwaysInv
  <2>2. Held = 1 + Num(ready[Other(app_sel)]) + irqs
    BY <1>1, <1>2 DEF TypeOK, Held, Num, Slots, Other
  <2>3. Unread = Len(put) - base - Len(taken) /\ Len(put) \in Nat /\ base \in Nat /\ Len(taken) \in Nat
    BY <1>1 DEF TypeOK, AlwaysInv, Unread
  <2>4. CASE ~ready[Other(app_sel)]
    <3>1. buf[app_sel] = Len(put) - irqs /\ Held = 1 + irqs /\ irqs \in 0 .. 1
      BY <1>1, <1>2, <2>1, <2>2, <2>4 DEF TypeOK, BufInv, Num
    <3>2. Len(put) - base - Len(taken) = 1 + irqs
      BY <2>1, <2>3, <3>1
    <3>3. irqs \in Nat /\ Unread = 1 + irqs
      BY <2>1, <3>1
    <3>4. Unread > 0
      BY <3>3
    <3>5. Len(put) - irqs = base + Len(taken) + 1
      BY <2>3, <3>2, <3>3
    <3> QED
      BY <3>1, <3>4, <3>5
  <2>5. CASE ready[Other(app_sel)]
    <3>1. irqs = 0
      BY <1>1, <1>2, <2>1, <2>5 DEF TypeOK, CountInv
    <3>2. buf[app_sel] = Len(put) - 1 /\ Held = 2
      BY <1>1, <1>2, <2>1, <2>2, <2>5, <3>1 DEF BufInv, Num
    <3>3. Len(put) - base - Len(taken) = 2 /\ Unread = 2
      BY <2>1, <2>3, <3>2
    <3>4. Len(put) - 1 = base + Len(taken) + 1
      BY <2>3, <3>3
    <3> QED
      BY <3>2, <3>3, <3>4
  <2> QED
    BY <2>4, <2>5
<1> DEFINE k == base + Len(taken)
<1>4. put \in Seq(Nat) /\ k \in 0 .. Len(put) /\ k < Len(put) /\ put[k + 1] = k + 1
  BY <1>1, <1>3 DEF TypeOK, AlwaysInv, Unread
<1>5. Len(taken') = Len(taken) + 1
  BY <1>1, <1>2 DEF AlwaysInv
<1>6. Queue = SubSeq(put, k + 1, Len(put)) /\ Queue' = SubSeq(put, k + 2, Len(put))
  <2>1. base' + Len(taken') + 1 = k + 2
    BY <1>1, <1>2, <1>5 DEF TypeOK, AlwaysInv
  <2> QED
    BY <1>2, <2>1 DEF Queue
<1>7. Queue # << >> /\ Head(Queue) = k + 1 /\ Queue' = Tail(Queue)
  BY <1>4, <1>6, Suffix
<1> QED
  BY <1>2, <1>3, <1>7 DEF Read

\* A packet the host sees acknowledged is submitted, to an endpoint that has room.
LEMMA OutSubmits ==
  ASSUME RxInv, InStep, OutDone
  PROVE  /\ Len(put) + 1 \in 1 .. MaxPackets /\ Len(Queue) < 2
         /\ Queue' = Append(Queue, Len(put) + 1) /\ Read' = Read
<1>1. TypeOK /\ AlwaysInv /\ CountInv /\ AvailInv
  BY DEF RxInv
<1>2. wire = "old" /\ irqs = 0 /\ InStep' /\ put' = Append(put, Len(put) + 1) /\ base' = base /\ taken' = taken
  BY DEF OutDone, InStep, loopVars, resetVars
<1>3. Unread <= Held /\ Held <= 1
  <2>1. Held <= 1
    BY <1>1, <1>2 DEF TypeOK, CountInv, AvailInv, Held, Num, Slots, Other, Ch32
  <2> QED
    BY <1>1, <2>1 DEF TypeOK, AlwaysInv, CountInv, Held, Unread, Num
<1> DEFINE k == base + Len(taken)
<1>4. put \in Seq(Nat) /\ k \in 0 .. Len(put) /\ Len(put) - k = Unread /\ Len(put) \in Nat
      /\ Len(put') = Len(put) + 1 /\ Len(put) < MaxPackets
  BY <1>1, <1>2 DEF TypeOK, AlwaysInv, Unread
<1>5. Queue = SubSeq(put, k + 1, Len(put)) /\ Queue' = SubSeq(Append(put, Len(put) + 1), k + 1, Len(put) + 1)
  BY <1>2, <1>4 DEF Queue
<1>6. Len(Queue) = Unread /\ Queue' = Append(Queue, Len(put) + 1)
  <2>1. Len(put) + 1 \in Nat
    BY <1>4
  <2>2. SubSeq(Append(put, Len(put) + 1), k + 1, Len(put) + 1)
          = Append(SubSeq(put, k + 1, Len(put)), Len(put) + 1)
    BY <1>4, <2>1, Suffix
  <2>3. Len(SubSeq(put, k + 1, Len(put))) = Len(put) - k
    BY <1>4, Suffix
  <2> QED
    BY <1>4, <1>5, <2>2, <2>3
<1>7. Len(Queue) < 2
  BY <1>1, <1>3, <1>4, <1>6 DEF TypeOK, Held, Num
<1> QED
  BY <1>2, <1>4, <1>6, <1>7, RxAssumption DEF RxAssumption, Read

\* A bus reset empties the pipe, and so it is out of step.
LEMMA ResetEmpties == ASSUME RxInv, BusReset PROVE Queue' = << >> /\ Read' = << >>
<1>1. put' = put /\ base' = Len(put) /\ taken' = << >> /\ put \in Seq(Nat)
  BY DEF RxInv, AlwaysInv, BusReset
<1>2. base' + Len(taken') + 1 = Len(put) + 1 /\ Len(put) \in Nat
  BY <1>1
<1>3. SubSeq(put, Len(put) + 1, Len(put)) = << >>
  BY <1>1, <1>2, Suffix
<1> QED
  BY <1>1, <1>2, <1>3 DEF Queue, Read

\* What the model does the pipe may do.
LEMMA PipeStep == ASSUME RxInv, [Next]_vars PROVE Pipe!Next \/ UNCHANGED Pipe!pipeVars
<1> USE DEF Pipe!Next, Pipe!pipeVars, Pipe!HostRead, Pipe!Submit, Pipe!Reset
<1>q. Queue = (IF InStep THEN SubSeq(put, base + Len(taken) + 1, Len(put)) ELSE << >>)
      /\ Read = (IF InStep THEN taken ELSE << >>)
  BY DEF Queue, Read
<1>1. CASE BusReset
  BY <1>1, ResetEmpties DEF Queue, Read
<1>2. CASE InStep /\ Use
  BY <1>2, UseReads DEF Queue, Read
<1>3. CASE InStep /\ OutDone
  BY <1>3, OutSubmits DEF Queue, Read
<1>4. CASE ~InStep'
  <2>1. Queue' = << >> /\ Read' = << >>
    BY <1>4 DEF Queue, Read
  <2> QED
    BY <2>1 DEF Queue, Read
<1>5. CASE InStep /\ InStep' /\ UNCHANGED <<put, base, taken>>
  BY <1>5
<1> QED
  <2>1. BusReset \/ (InStep' => InStep)
    BY DEF InStep, Next, Consume, Use, ClearReady, FlipApp, LoadCtrl, Rearm, ReadArgs, RxIsr, Configure,
      OutStart, OutDone, vars, loopVars, hwVars, resetVars
  <2>2. BusReset \/ Use \/ OutDone \/ UNCHANGED <<put, base, taken>>
    BY DEF Next, Consume, ClearReady, FlipApp, LoadCtrl, Rearm, ReadArgs, RxIsr, Configure, OutStart,
      vars, loopVars, hwVars, resetVars
  <2> QED
    BY <1>1, <1>2, <1>3, <1>4, <1>5, <2>1, <2>2

\* On both platforms every packet the host has seen acknowledged reaches the caller of
\* usb_*_rx_buf once, unchanged and in order, no more than two wait, and a bus reset, or
\* a consume that undoes a toggle on the CH32V305, loses those: the endpoint implements
\* the pipe.
THEOREM RxImplementsPipe == Spec => ImplementsPipe
<1>1. Init => Pipe!Init
  BY DEF Init, Pipe!Init
<1>2. RxInv /\ [Next]_vars => [Pipe!Next]_(Pipe!pipeVars)
  BY PipeStep
<1> QED
  BY <1>1, <1>2, RxInvariant, PTL DEF Spec, ImplementsPipe, Pipe!Spec
=============================================================================
