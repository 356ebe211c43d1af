-------------------------------- MODULE UsbRx --------------------------------
(***************************************************************************)
(* A double-buffered OUT endpoint (EP1 for commands, EP3 for data) of      *)
(* src/ch32v305/usb_dev.c and src/rp2040/usb_dev.c, shared like UsbTx by   *)
(* the main loop, the interrupt handler and the USB hardware with the host.*)
(*                                                                         *)
(* The CH32V305 has one ACK/NAK response for both slots; the RP2040 has an *)
(* AVAIL bit and a length in the half of the buffer control register that  *)
(* belongs to the slot.                                                    *)
(*                                                                         *)
(* A bus reset may come at any moment, and the host sends again once it has *)
(* configured the device.  "clean" says that no reset has left the two      *)
(* sides out of step, which on both platforms one in the middle of a       *)
(* consume does, and on the RP2040 one with the second slot next.          *)
(*                                                                         *)
(* The CH32V305 also gets there without a reset: its response shares a     *)
(* register with the toggle the hardware flips, and a consume loads and    *)
(* stores that register whole.  A packet that arrives in between has its   *)
(* toggle undone, and the next one is acknowledged but dropped, for its    *)
(* toggle is not the expected one.  "intact" says that no consume has done *)
(* that since the two sides were last in step.                             *)
(*                                                                         *)
(* Assumed of the hardware: a packet takes longer than the few             *)
(* instructions of a consume and than the latency of the interrupt; it     *)
(* answers NAK while the handler runs; and it flips its toggle only for a  *)
(* packet that has the expected one.                                       *)
(***************************************************************************)
EXTENDS Naturals, Sequences

CONSTANTS
  Platforms,     \* a set of "ch32v305", "rp2040"
  MaxPackets,    \* bound on the packets the host sends
  MaxResets      \* bound on the bus resets

ASSUME RxAssumption ==
  /\ Platforms \subseteq {"ch32v305", "rp2040"} /\ MaxPackets \in Nat /\ MaxResets \in Nat

VARIABLES
  platform,                  \* which of the two usb_dev.c is linked
  ready, hw_sel, app_sel,    \* rx_state_t
  pc,                        \* where the main loop is in a consume
  pkt,                       \* the slot cmd_task has its packet in
  args,                      \* the packet whose bytes it found there afterwards
  taken,                     \* packets the caller has read since the last reset
  loaded,                    \* CH32V305: the toggle in the value read from UEPn_RX_CTRL
  \* the hardware
  buf,                       \* what the two packet buffers hold
  avail,                     \* CH32V305: the response is ACK; RP2040: AVAIL of each half
  tog,                       \* the slot the hardware receives into next
  wire,                      \* "none", "fresh" (began in the current consume) or "old"
  irqs,                      \* received packets the handler has not seen
  put,                       \* packets the host has sent and seen acknowledged
  pid,                       \* the toggle of the host's next packet
  configured,                \* dev_configured
  \* history
  resets, base,              \* bus resets so far, and the packets sent before the last one
  clean,                     \* no reset has left the two sides out of step
  intact                     \* no consume has undone a toggle

stateVars == <<ready, hw_sel, app_sel>>
loopVars  == <<pc, pkt, args, taken, loaded>>
hwVars    == <<buf, avail, tog, wire, irqs, put, pid>>
resetVars == <<configured, resets, base, clean, intact>>
vars      == <<platform, stateVars, loopVars, hwVars, resetVars>>

Slots == {0, 1}
Other(s) == 1 - s

Ch32 == platform = "ch32v305"

\* The packets of the main loop are those of the host.
InStep == clean /\ intact

\* After the first SET_CONFIGURATION: both slots may receive.
Init ==
  /\ platform \in Platforms
  /\ ready = [s \in Slots |-> FALSE] /\ hw_sel = 0 /\ app_sel = 0
  /\ pc = "idle" /\ pkt = 0 /\ args = 0 /\ taken = << >> /\ loaded = 0
  /\ buf = [s \in Slots |-> 0] /\ avail = [s \in Slots |-> TRUE]
  /\ tog = 0 /\ wire = "none" /\ irqs = 0 /\ put = << >> /\ pid = 0
  /\ configured = TRUE /\ resets = 0 /\ base = 0 /\ clean = TRUE /\ intact = TRUE

-----------------------------------------------------------------------------
(* The main loop: usb_*_rx_buf with the first byte of the packet,          *)
(* usb_*_rx_consume, and the other bytes, which cmd_task reads only then.  *)

Unchecked == TRUE

Readable == ready[app_sel]

Use ==
  /\ pc = "idle" /\ Readable
  /\ pkt' = app_sel
  /\ taken' = IF clean THEN Append(taken, buf[app_sel]) ELSE taken
  /\ args' = buf[app_sel] /\ pc' = "used"
  /\ UNCHANGED <<platform, stateVars, loaded, hwVars, resetVars>>

ClearReady ==
  /\ pc = "used" /\ pc' = "cleared"
  /\ ready' = [ready EXCEPT ![app_sel] = FALSE]
  /\ UNCHANGED <<platform, hw_sel, app_sel, pkt, args, taken, loaded, hwVars, resetVars>>

FlipApp ==
  /\ pc = "cleared" /\ pc' = "flipped"
  /\ app_sel' = Other(app_sel)
  /\ UNCHANGED <<platform, ready, hw_sel, pkt, args, taken, loaded, hwVars, resetVars>>

\* CH32V305: the value of UEPn_RX_CTRL, to be stored with the response changed.
LoadCtrl ==
  /\ Ch32 /\ pc = "flipped" /\ pc' = "loaded"
  /\ loaded' = tog
  /\ UNCHANGED <<platform, stateVars, pkt, args, taken, hwVars, resetVars>>

RearmNever == UNCHANGED avail

\* CH32V305: answer ACK again; RP2040: arm_out_slot of the consumed slot.
RearmConsumed ==
  avail' = IF Ch32 THEN [s \in Slots |-> TRUE] ELSE [avail EXCEPT ![pkt] = TRUE]

\* The store of the CH32V305 puts back the toggle that was loaded.
Rearm ==
  /\ pc = (IF Ch32 THEN "loaded" ELSE "flipped") /\ pc' = "consumed"
  /\ RearmConsumed
  /\ tog' = IF Ch32 THEN loaded ELSE tog
  /\ intact' = (intact /\ tog' = tog)
  /\ wire' = IF wire = "fresh" THEN "old" ELSE wire
  /\ UNCHANGED <<platform, stateVars, pkt, args, taken, loaded, buf, irqs, put, pid,
                 configured, resets, base, clean>>

PacketAgain == buf[app_sel]

Packet == buf[pkt]

\* The rest of cmd_task reads the arguments and sends the answer.
ReadArgs ==
  /\ pc = "consumed" /\ pc' = "idle"
  /\ args' = Packet
  /\ UNCHANGED <<platform, stateVars, pkt, taken, loaded, hwVars, resetVars>>

-----------------------------------------------------------------------------
(* The interrupt handler: rx_isr.                                          *)

AfterReceiveAck ==
  avail' = IF Ch32 THEN avail ELSE [avail EXCEPT ![1] = @ \/ (hw_sel = 0 /\ ~ready'[1])]

\* CH32V305: NAK when both slots are full.  RP2040: arm the other slot if it is
\* free; for slot 1 the store goes to the word before, of an unused endpoint.
AfterReceive ==
  avail' = IF Ch32
           THEN [s \in Slots |-> avail[s] /\ ~(ready'[0] /\ ready'[1])]
           ELSE [avail EXCEPT ![1] = @ \/ (hw_sel = 0 /\ ~ready'[1])]

RxIsr ==
  /\ irqs > 0 /\ irqs' = irqs - 1
  /\ ready' = [ready EXCEPT ![hw_sel] = TRUE]
  /\ hw_sel' = Other(hw_sel)
  /\ AfterReceive
  /\ UNCHANGED <<platform, app_sel, loopVars, buf, tog, wire, put, pid, resetVars>>

(* The interrupt handler: bus reset, after the packets that have arrived;  *)
(* and SET_CONFIGURATION, with arm_all_rx on the RP2040.                   *)

SlotsAnew == ready' = [s \in Slots |-> FALSE] /\ hw_sel' = 0 /\ app_sel' = 0

BusReset ==
  /\ irqs = 0 /\ resets < MaxResets /\ resets' = resets + 1
  /\ SlotsAnew /\ configured' = FALSE
  /\ IF Ch32 THEN avail' = [s \in Slots |-> TRUE] /\ tog' = 0
              ELSE UNCHANGED avail /\ tog' \in {tog, 0}
  /\ wire' = "none" /\ base' = Len(put) /\ taken' = << >> /\ pid' = 0
  /\ clean' = (pc \in {"idle", "consumed"} /\ (Ch32 \/ (clean /\ tog' = 0)))
  /\ intact' = (intact \/ clean')
  /\ UNCHANGED <<platform, pc, pkt, args, loaded, buf, irqs, put>>

ArmAllRx == avail' = [s \in Slots |-> TRUE]

Configure ==
  /\ ~configured /\ configured' = TRUE
  /\ IF Ch32 THEN UNCHANGED avail ELSE ArmAllRx
  /\ UNCHANGED <<platform, stateVars, loopVars, buf, tog, wire, irqs, put, pid,
                 resets, base, clean, intact>>

-----------------------------------------------------------------------------
(* The hardware and the host.                                              *)

Consuming == pc \in {"cleared", "flipped", "loaded"}

OutStart ==
  /\ configured /\ wire = "none" /\ avail[tog] /\ Len(put) < MaxPackets
  /\ Ch32 => irqs = 0
  /\ wire' = IF Consuming THEN "fresh" ELSE "old"
  /\ buf' = [buf EXCEPT ![tog] = Len(put) + 1]
  /\ UNCHANGED <<platform, stateVars, loopVars, avail, tog, irqs, put, pid, resetVars>>

\* A packet with the toggle the device expects (TOG_OK).
Receive ==
  /\ tog' = Other(tog) /\ irqs' = irqs + 1
  /\ avail' = IF Ch32 THEN avail ELSE [avail EXCEPT ![tog] = FALSE]

\* One with the other toggle is taken for a repetition: acknowledged and dropped.
Drop == UNCHANGED <<tog, irqs, avail>>

OutDone ==
  /\ wire = "old" /\ irqs = 0 /\ wire' = "none"
  /\ put' = Append(put, Len(put) + 1) /\ pid' = Other(pid)
  /\ IF pid = tog THEN Receive ELSE Drop
  /\ UNCHANGED <<platform, stateVars, loopVars, buf, resetVars>>

Consume == Use \/ ClearReady \/ FlipApp \/ LoadCtrl \/ Rearm \/ ReadArgs

Next == Consume \/ RxIsr \/ BusReset \/ Configure \/ OutStart \/ OutDone

Spec == Init /\ [][Next]_vars

\* The main loop goes on, interrupts are taken, a packet under way arrives and the
\* host goes on sending.
FairSpec == Spec /\ WF_vars(Consume) /\ WF_vars(RxIsr) /\ WF_vars(Configure)
                 /\ WF_vars(OutDone) /\ WF_vars(OutStart)

-----------------------------------------------------------------------------
(* Properties.                                                             *)

\* Every variable has its type.
TypeOK ==
  /\ platform \in Platforms
  /\ ready \in [Slots -> BOOLEAN] /\ hw_sel \in Slots /\ app_sel \in Slots
  /\ pc \in {"idle", "used", "cleared", "flipped", "loaded", "consumed"}
  /\ pkt \in Slots /\ args \in 0 .. MaxPackets /\ loaded \in Slots /\ pid \in Slots
  /\ buf \in [Slots -> 0 .. MaxPackets] /\ avail \in [Slots -> BOOLEAN] /\ tog \in Slots
  /\ wire \in {"none", "fresh", "old"} /\ irqs \in 0 .. 1
  /\ configured \in BOOLEAN /\ resets \in 0 .. MaxResets
  /\ clean \in BOOLEAN /\ intact \in BOOLEAN
  /\ Len(put) <= MaxPackets /\ base \in 0 .. Len(put)
  /\ InStep => Len(taken) <= Len(put) - base

SentSince == Len(put) - base + (IF wire = "none" THEN 0 ELSE 1)

\* The arguments cmd_task reads after the consume are those of the command it read
\* before, as long as the two sides are in step and the host has sent no more than one
\* packet after it.
ArgsOfCommand ==
  [][ReadArgs /\ InStep /\ taken # << >> /\ SentSince <= Len(taken) + 1 => args' = args]_vars

\* A packet that is acknowledged reaches the caller once, unchanged and in order; a
\* bus reset, or a consume that puts the two sides out of step, loses those the caller
\* has not seen.
Pipe == INSTANCE PacketPipe WITH
          Slots <- 2, Packets <- 1 .. MaxPackets,
          queue <- IF InStep THEN SubSeq(put, base + Len(taken) + 1, Len(put)) ELSE << >>,
          read <- IF InStep THEN taken ELSE << >>

ImplementsPipe == Pipe!Spec

\* While the caller consumes, the host can go on sending: the endpoint does not
\* end up answering NAK with both slots empty, and nothing stays in it, unless the two
\* sides are out of step.
AllArrive == []<>(~InStep \/ base + Len(taken) = MaxPackets)
=============================================================================
