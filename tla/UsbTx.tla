-------------------------------- MODULE UsbTx --------------------------------
(***************************************************************************)
(* A double-buffered IN endpoint (EP2 for responses, EP4 for data) of      *)
(* src/ch32v305/usb_dev.c and src/rp2040/usb_dev.c.  Three actors share    *)
(* its state without a lock: the main loop, which fills a slot and submits *)
(* it in several instructions; the interrupt handler, which may come       *)
(* between any two of them and retires a slot; and the USB hardware with   *)
(* the host behind it, which sends the slots in turn.                      *)
(*                                                                         *)
(* The CH32V305 has one length register and one ACK/NAK response for both  *)
(* slots, and answers NAK until the handler has run.  The RP2040 has both  *)
(* per slot, and may finish the second slot before the handler ran.        *)
(*                                                                         *)
(* A bus reset may come at any moment.  One that interrupts a submit leaves *)
(* the two sides out of step, and on the RP2040 so does one that finds a   *)
(* packet armed, the second slot next or two packets not yet handled, for  *)
(* nothing takes these back: "clean" says that no such reset has happened, *)
(* and on the CH32V305 the next reset between two submits makes it true    *)
(* again.                                                                  *)
(*                                                                         *)
(* Two races of the CH32V305's main loop do the same without a reset, and  *)
(* "intact" says that none has happened.  The response shares a register   *)
(* with the toggle the hardware flips, and a submit loads and stores that  *)
(* register whole: a packet that finishes in between has its toggle undone, *)
(* and the host drops the next packet as a repetition.  And a submit may   *)
(* change the length while a packet of another length is in flight.        *)
(*                                                                         *)
(* Assumed of the hardware: a packet that starts while a submit is under   *)
(* way takes longer than the rest of the submit, and the interrupt handler *)
(* of the CH32V305 changes the response while the hardware answers NAK, so *)
(* that no packet can finish inside it.                                    *)
(***************************************************************************)
EXTENDS Naturals, Sequences

CONSTANTS
  Platforms,     \* a set of "ch32v305", "rp2040"
  Lens,          \* packet lengths
  MaxPackets,    \* bound on the packets submitted
  MaxResets      \* bound on the bus resets

ASSUME TxAssumption ==
  /\ Platforms \subseteq {"ch32v305", "rp2040"}
  /\ Lens \subseteq Nat /\ MaxPackets \in Nat /\ MaxResets \in Nat

VARIABLES
  platform,            \* which of the two usb_dev.c is linked
  free, fill_sel, hw_sel,  \* tx_state_t
  pc,                  \* where the main loop is in a submit or a drain
  len,                 \* the argument of the submit
  buf,                 \* what the two packet buffers hold
  sent,                \* packets submitted so far
  loaded,              \* CH32V305: the toggle in the value read from UEPn_TX_CTRL
  \* the hardware
  tx_len,              \* UEPn_TX_LEN (both slots), or the length of each half
  armed,               \* CH32V305: the response is ACK; RP2040: AVAIL of each half
  tog,                 \* the slot the hardware sends next
  wire,                \* the packet being sent: its slot, length and whether it
                       \* started inside the current submit
  irqs,                \* finished packets the handler has not seen
  pid,                 \* the toggle the host expects next
  got,                 \* what the host has read since the last reset
  \* history
  resets, base,        \* bus resets so far, and the packets submitted before the last one
  clean,               \* no reset has left the two sides out of step
  intact               \* no submit has undone a toggle or changed the length of
                       \* another packet in flight

stateVars == <<free, fill_sel, hw_sel>>
loopVars  == <<pc, len, buf, sent, loaded>>
hwVars    == <<tx_len, armed, tog, wire, irqs, pid, got>>
resetVars == <<resets, base, clean, intact>>
vars      == <<platform, stateVars, loopVars, hwVars, resetVars>>

Slots == {0, 1}
Other(s) == 1 - s
Nothing == [slot |-> 0, len |-> 0, fresh |-> FALSE, on |-> FALSE]

Ch32 == platform = "ch32v305"

\* The packets of the host are those of the main loop.
InStep == clean /\ intact

Init ==
  /\ platform \in Platforms
  /\ free = [s \in Slots |-> TRUE] /\ fill_sel = 0 /\ hw_sel = 0
  /\ pc = "idle" /\ len = 0 /\ buf = [s \in Slots |-> 0] /\ sent = << >> /\ loaded = 0
  /\ tx_len = [s \in Slots |-> 0] /\ armed = [s \in Slots |-> FALSE]
  /\ tog = 0 /\ wire = Nothing /\ irqs = 0 /\ pid = 0 /\ got = << >>
  /\ resets = 0 /\ base = 0 /\ clean = TRUE /\ intact = TRUE

-----------------------------------------------------------------------------
(* The main loop: usb_*_tx_buf and the copy, then usb_*_tx_submit.         *)

AllFree == free[0] /\ free[1]

SlotFree == free[fill_sel]

Fill(l) ==
  /\ pc = "idle" /\ SlotFree
  /\ Len(sent) < MaxPackets
  /\ buf' = [buf EXCEPT ![fill_sel] = Len(sent) + 1]
  /\ sent' = Append(sent, <<Len(sent) + 1, l>>)
  /\ len' = l /\ pc' = "filled"
  /\ UNCHANGED <<platform, stateVars, loaded, hwVars, resetVars>>

\* A packet of another length is in flight, and the one length register is theirs both.
Mixes == Ch32 /\ ~free[Other(fill_sel)] /\ tx_len[Other(fill_sel)] # len

Take ==
  /\ pc = "filled" /\ pc' = "taken"
  /\ free' = [free EXCEPT ![fill_sel] = FALSE]
  /\ intact' = (intact /\ ~Mixes)
  /\ UNCHANGED <<platform, fill_sel, hw_sel, len, buf, sent, loaded, hwVars, resets, base, clean>>

SelectSame == UNCHANGED fill_sel

SelectNext == fill_sel' = Other(fill_sel)

Flip ==
  /\ pc = "taken" /\ pc' = "flipped"
  /\ SelectNext
  /\ UNCHANGED <<platform, free, hw_sel, len, buf, sent, loaded, hwVars, resetVars>>

\* CH32V305: one length for both slots; RP2040: the first store of arm_in_slot.
SetLen ==
  /\ pc = "flipped" /\ pc' = "sized"
  /\ tx_len' = IF Ch32 THEN [s \in Slots |-> len]
                       ELSE [tx_len EXCEPT ![Other(fill_sel)] = len]
  /\ UNCHANGED <<platform, stateVars, len, buf, sent, loaded, armed, tog, wire, irqs, pid, got, resetVars>>

\* CH32V305: the value of UEPn_TX_CTRL, to be stored with the response changed.
LoadCtrl ==
  /\ Ch32 /\ pc = "sized" /\ pc' = "loaded"
  /\ loaded' = tog
  /\ UNCHANGED <<platform, stateVars, len, buf, sent, hwVars, resetVars>>

ArmSlot == armed' = IF Ch32 THEN [s \in Slots |-> TRUE]
                            ELSE [armed EXCEPT ![Other(fill_sel)] = TRUE]

\* The store of the CH32V305 puts back the toggle that was loaded.
Arm ==
  /\ pc = (IF Ch32 THEN "loaded" ELSE "sized") /\ pc' = "idle"
  /\ ArmSlot
  /\ tog' = IF Ch32 THEN loaded ELSE tog
  /\ intact' = (intact /\ tog' = tog)
  /\ wire' = [wire EXCEPT !.fresh = FALSE]
  /\ UNCHANGED <<platform, stateVars, len, buf, sent, loaded, tx_len, irqs, pid, got, resets, base, clean>>

BeginDrain ==
  /\ pc = "idle" /\ pc' = "draining"
  /\ UNCHANGED <<platform, stateVars, len, buf, sent, loaded, hwVars, resetVars>>

OneFree == free[0] \/ free[1]

Drained == AllFree

EndDrain ==
  /\ pc = "draining" /\ Drained /\ pc' = "idle"
  /\ UNCHANGED <<platform, stateVars, len, buf, sent, loaded, hwVars, resetVars>>

-----------------------------------------------------------------------------
(* The interrupt handler: tx_isr.                                          *)

NakNever == UNCHANGED armed

NakAlways == armed' = IF Ch32 THEN [s \in Slots |-> FALSE] ELSE armed

NakIfEmpty ==
  armed' = IF Ch32 /\ free'[hw_sel'] THEN [s \in Slots |-> FALSE] ELSE armed

TxIsr ==
  /\ irqs > 0 /\ irqs' = irqs - 1
  /\ free' = [free EXCEPT ![hw_sel] = TRUE]
  /\ hw_sel' = Other(hw_sel)
  /\ NakIfEmpty
  /\ UNCHANGED <<platform, fill_sel, loopVars, tx_len, tog, wire, pid, got, resetVars>>

-----------------------------------------------------------------------------
(* The interrupt handler: bus reset.  The CH32V305's sees to the finished  *)
(* packet first; the RP2040's handles one in the same call, and a second   *)
(* one that has finished only after the reset.                             *)

SlotsKept == UNCHANGED stateVars

SlotsAnew == /\ free' = [s \in Slots |-> TRUE]
             /\ fill_sel' = 0 /\ hw_sel' = 0

\* endp_init writes the registers of the endpoint, and with them its toggle; the
\* RP2040's handler leaves them, and whether the hardware's choice of the next slot
\* survives is not documented.
HardwareAnew ==
  IF Ch32
  THEN /\ tx_len' = [s \in Slots |-> 0] /\ armed' = [s \in Slots |-> FALSE] /\ tog' = 0
  ELSE /\ UNCHANGED <<tx_len, armed>> /\ tog' \in {tog, 0}

Loop == {"idle", "draining"}

BusReset ==
  /\ Ch32 => irqs = 0
  /\ resets < MaxResets /\ resets' = resets + 1
  /\ SlotsAnew /\ HardwareAnew
  /\ irqs' = IF irqs > 0 THEN irqs - 1 ELSE 0
  /\ wire' = Nothing /\ base' = Len(sent) /\ pid' = 0 /\ got' = << >>
  /\ clean' = (pc \in Loop /\ irqs' = 0 /\ (Ch32 \/ (clean /\ tog' = 0 /\ ~armed[0] /\ ~armed[1])))
  /\ intact' = (intact \/ clean')
  /\ UNCHANGED <<platform, loopVars>>

-----------------------------------------------------------------------------
(* The hardware and the host.                                              *)

Submitting == pc \notin Loop

\* The CH32V305 answers NAK while a finished packet has not been handled.
InStart ==
  /\ ~wire.on /\ armed[tog] /\ (Ch32 => irqs = 0)
  /\ wire' = [slot |-> tog, len |-> tx_len[tog], fresh |-> Submitting, on |-> TRUE]
  /\ UNCHANGED <<platform, stateVars, loopVars, tx_len, armed, tog, irqs, pid, got, resetVars>>

\* The toggle of a packet is its slot; the host drops one it does not expect as a
\* repetition, and acknowledges it all the same.
Expected == wire.slot = pid

InDone ==
  /\ wire.on /\ ~wire.fresh /\ wire' = Nothing
  /\ got' = IF clean /\ Expected THEN Append(got, <<buf[wire.slot], wire.len>>) ELSE got
  /\ pid' = IF Expected THEN Other(pid) ELSE pid
  /\ tog' = Other(tog) /\ irqs' = irqs + 1
  /\ armed' = IF Ch32 THEN armed ELSE [armed EXCEPT ![wire.slot] = FALSE]
  /\ UNCHANGED <<platform, stateVars, loopVars, tx_len, resetVars>>

\* The host polls the endpoint and is told to come back.
InNak ==
  /\ ~wire.on /\ (armed[tog] => Ch32 /\ irqs > 0)
  /\ UNCHANGED vars

Submit == (\E l \in Lens : Fill(l)) \/ Take \/ Flip \/ SetLen \/ LoadCtrl \/ Arm

Next == Submit \/ BeginDrain \/ EndDrain \/ TxIsr \/ BusReset \/ InStart \/ InDone \/ InNak

Spec == Init /\ [][Next]_vars

\* The main loop goes on, interrupts are taken and the host keeps reading.
FairSpec == Spec /\ WF_vars(Take \/ Flip \/ SetLen \/ LoadCtrl \/ Arm \/ EndDrain)
                 /\ WF_vars(TxIsr) /\ WF_vars(InStart) /\ WF_vars(InDone)

-----------------------------------------------------------------------------
(* Properties.                                                             *)

\* Every variable has its type; at most two packets are unread or unhandled.
TypeOK ==
  /\ platform \in Platforms
  /\ free \in [Slots -> BOOLEAN] /\ fill_sel \in Slots /\ hw_sel \in Slots
  /\ pc \in {"idle", "filled", "taken", "flipped", "sized", "loaded", "draining"}
  /\ len \in Lens \union {0} /\ loaded \in Slots /\ pid \in Slots
  /\ buf \in [Slots -> 0 .. MaxPackets]
  /\ Len(sent) <= MaxPackets /\ (InStep => Len(got) <= Len(sent))
  /\ tx_len \in [Slots -> Lens \union {0}] /\ armed \in [Slots -> BOOLEAN] /\ tog \in Slots
  /\ wire \in [slot : Slots, len : Lens \union {0}, fresh : BOOLEAN, on : BOOLEAN]
  /\ irqs \in Nat /\ (InStep => irqs <= 2)
  /\ resets \in 0 .. MaxResets /\ base \in 0 .. Len(sent)
  /\ clean \in BOOLEAN /\ intact \in BOOLEAN

\* When usb_*_tx_drain returns and the two sides are in step, the host has read
\* everything that was submitted since the last reset, and nothing is left that it
\* could read again.
DrainedMeansRead ==
  [][pc = "draining" /\ pc' = "idle" /\ InStep =>
       got = SubSeq(sent, base + 1, Len(sent)) /\ (\A s \in Slots : ~armed[s])]_vars

\* A drain ends as long as the host reads, a bus reset in the middle of it or not, and
\* also after a submit has undone a toggle or a length.
DrainEnds == pc = "draining" ~> pc = "idle" \/ ~clean

\* The endpoint is a pipe of two packets: a packet is in it from the copy on, and a
\* bus reset empties it, as does a step that puts the two sides out of step.
Pipe == INSTANCE PacketPipe WITH
          Slots <- 2, Packets <- (1 .. MaxPackets) \X Lens,
          queue <- IF InStep THEN SubSeq(sent, base + Len(got) + 1, Len(sent)) ELSE << >>,
          read <- IF InStep THEN got ELSE << >>

ImplementsPipe == Pipe!Spec
=============================================================================
