--------------------------- MODULE ControlTransfer ---------------------------
(***************************************************************************)
(* Endpoint 0 of src/ch32v305/usb_dev.c and src/rp2040/usb_dev.c: the      *)
(* handler of SETUP packets, the completions of EP0 and the bus reset,     *)
(* with a host that enumerates the device, may give up a request or reset  *)
(* the bus at any moment, and whose acknowledgement of any packet of the   *)
(* device may be lost, that of the status stage of SET_ADDRESS included.   *)
(*                                                                         *)
(* A descriptor is its length; a packet is the part of it that it carries. *)
(* The CH32V305 sends a descriptor in packets of ep0_size and takes up the *)
(* next one when the last is finished; the RP2040 sends it in one packet.  *)
(* USB_EP0_SIZE is 64, and no descriptor is longer: ep0_size is a variable *)
(* so that the CH32V305's code for longer ones is exercised too.           *)
(*                                                                         *)
(* Assumed of the hardware: no packet is answered between a SETUP packet   *)
(* and its handler, nor on the CH32V305 (USBHS_UC_INT_BUSY) while a        *)
(* finished packet waits for it; a packet with the wrong DATA PID is       *)
(* acknowledged and dropped; the device's own acknowledgements arrive.     *)
(* Assumed of the host: its next SETUP packet comes later than the handler *)
(* of the IN packet it has just received, and on the CH32V305, which looks *)
(* at RX_LEN only then, also of the OUT packet it has just sent.  Nothing  *)
(* in the driver enforces that.                                            *)
(***************************************************************************)
EXTENDS Integers

CONSTANTS
  Platforms,     \* a set of "ch32v305", "rp2040"
  Ep0Sizes,      \* values of USB_EP0_SIZE for the CH32V305
  Kinds,         \* descriptors the host asks for
  Lengths,       \* values of wLength
  Addresses      \* addresses the host gives

\* The lengths of the descriptors: the packed structures, the configuration with
\* its interface and endpoints, and the strings.
DeviceLen == 1 + 1 + 2 + 1 + 1 + 1 + 1 + 2 + 2 + 2 + 1 + 1 + 1 + 1

QualifierLen == 1 + 1 + 2 + 1 + 1 + 1 + 1 + 1 + 1

ConfigLen == 9 + 9 + 4 * 7

DescLen == [device |-> DeviceLen, config |-> ConfigLen, qualifier |-> QualifierLen,
            lang |-> 4, manufacturer |-> 20, product |-> 34, serial |-> 22]

ASSUME ControlAssumption ==
  /\ Platforms \subseteq {"ch32v305", "rp2040"}
  /\ Ep0Sizes \subseteq Nat \ {0} /\ Lengths \subseteq Nat /\ Addresses \subseteq Nat \ {0}
  \* The last packet of a descriptor is a short one: nothing else ends it.
  /\ \A n \in Ep0Sizes, k \in DOMAIN DescLen : DescLen[k] % n # 0

VARIABLES
  platform, ep0_size,
  \* the driver
  desc_remain, desc_ptr, last_req,    \* CH32V305
  should_set_address, ep0_out_pid,    \* RP2040
  dev_addr, configured,
  \* the hardware
  DEV_AD,              \* the address the device answers to
  tx, rx,              \* what EP0 answers to IN and to OUT tokens
  rx_len,              \* RX_LEN
  irqs,                \* what the handler has not seen: "setup", "in", "out", "reset"
  \* the host
  req, stage,          \* its request, and how far it is with it
  pid,                 \* the DATA PID it expects
  rcvd, inOrder,       \* descriptor bytes it has, and whether each followed the last
  host_addr,           \* the address it uses
  lost,                \* whether its acknowledgement of the last IN packet was lost
  orphan,              \* whether it gave up a SET_ADDRESS since the last bus reset
  strayed              \* whether its acknowledgement of the end of one was lost

drvVars  == <<desc_remain, desc_ptr, last_req, should_set_address, ep0_out_pid, dev_addr, configured>>
hwVars   == <<DEV_AD, tx, rx, rx_len>>
hostVars == <<req, stage, pid, rcvd, inOrder, host_addr, lost, orphan, strayed>>
vars     == <<platform, ep0_size, drvVars, hwVars, irqs, hostVars>>

Ch32 == platform = "ch32v305"
Least(a, b) == IF a < b THEN a ELSE b

NoRequest == [type |-> "none", kind |-> "none", wLength |-> 0, addr |-> 0]

Requests ==
  [type : {"get"}, kind : Kinds, wLength : Lengths, addr : {0}]
    \union [type : {"address"}, kind : {"none"}, wLength : {0}, addr : Addresses]
    \union [type : {"configuration", "otherOut"}, kind : {"none"}, wLength : {0}, addr : {0}]
    \union [type : {"unknownGet", "otherIn", "outData"}, kind : {"none"}, wLength : {2}, addr : {0}]

Init ==
  /\ platform \in Platforms
  /\ ep0_size \in IF Ch32 THEN Ep0Sizes ELSE {64}
  /\ desc_remain = 0 /\ desc_ptr = 0 /\ last_req = "none"
  /\ should_set_address = FALSE /\ ep0_out_pid = 0 /\ dev_addr = 0 /\ configured = FALSE
  /\ DEV_AD = 0 /\ rx_len = 0 /\ irqs = {}
  /\ tx = [res |-> "nak", len |-> 0, from |-> 0, pid |-> 0]
  /\ rx = [res |-> IF Ch32 THEN "ack" ELSE "nak", pid |-> 0]
  /\ req = NoRequest /\ stage = "idle" /\ pid = 0 /\ rcvd = 0 /\ inOrder = TRUE
  /\ host_addr = 0 /\ lost = FALSE /\ orphan = FALSE /\ strayed = FALSE

-----------------------------------------------------------------------------
(* handle_setup_packet.                                                    *)

\* The RP2040 has no qualifier descriptor: it works at full speed only.
Known(r) == r.type = "get" /\ r.kind \in DOMAIN DescLen /\ (r.kind = "qualifier" => Ch32)

\* The bytes the device has for a request.
Answer(r) == IF Known(r) THEN Least(DescLen[r.kind], r.wLength) ELSE 0

\* The CH32V305 stalls what it does not know; the RP2040 sends an empty packet.
Refused(r) == Ch32 /\ r.type \in {"get", "unknownGet"} /\ ~Known(r)

Chunk(n) == Least(n, ep0_size)

AddressAtOnce == /\ dev_addr' = IF req.type = "address" THEN req.addr ELSE dev_addr
                 /\ DEV_AD' = dev_addr'

AddressLater == /\ dev_addr' = IF req.type = "address" THEN req.addr ELSE dev_addr
                /\ UNCHANGED DEV_AD

LeaveRx == UNCHANGED rx

CloseRx == rx' = [res |-> IF Refused(req) THEN "stall" ELSE "nak", pid |-> 1]

HandleSetup ==
  /\ AddressLater
  /\ configured' = (configured \/ req.type = "configuration")
  /\ tx' = [res |-> IF Refused(req) THEN "stall" ELSE "ack",
            len |-> Chunk(Answer(req)), from |-> 0, pid |-> 1]
  /\ IF Ch32
     THEN /\ CloseRx
          /\ last_req' = req.type
          /\ desc_ptr' = Chunk(Answer(req))
          /\ desc_remain' = Answer(req) - Chunk(Answer(req))
          /\ UNCHANGED <<should_set_address, ep0_out_pid>>
     ELSE /\ should_set_address' = (should_set_address \/ req.type = "address")
          /\ UNCHANGED <<rx, last_req, desc_ptr, desc_remain, ep0_out_pid>>
  /\ UNCHANGED rx_len

-----------------------------------------------------------------------------
(* EP0 IN and OUT complete.                                                *)

KeepPtr == UNCHANGED desc_ptr

AdvancePtr == desc_ptr' = desc_ptr + Chunk(desc_remain)

Continue ==
  /\ desc_remain > 0
  /\ tx' = [res |-> tx.res, len |-> Chunk(desc_remain), from |-> desc_ptr, pid |-> 1 - tx.pid]
  /\ desc_remain' = desc_remain - Chunk(desc_remain)
  /\ AdvancePtr
  /\ UNCHANGED <<DEV_AD, rx>>

KeepRx == UNCHANGED rx

OpenForStatus == rx' = [res |-> "ack", pid |-> 1]

StatusStage ==
  /\ desc_remain = 0
  /\ OpenForStatus
  /\ DEV_AD' = IF last_req = "address" THEN dev_addr ELSE DEV_AD
  /\ UNCHANGED <<tx, desc_remain, desc_ptr>>

InCompleteCh32 ==
  /\ Ch32 /\ (Continue \/ StatusStage)
  /\ UNCHANGED <<last_req, should_set_address, ep0_out_pid, dev_addr, configured, rx_len>>

InCompleteRp2040 ==
  /\ ~Ch32 /\ should_set_address' = FALSE
  /\ IF should_set_address
     THEN DEV_AD' = dev_addr /\ UNCHANGED <<rx, ep0_out_pid>>
     ELSE /\ rx' = [res |-> "ack", pid |-> ep0_out_pid]
          /\ ep0_out_pid' = 1 - ep0_out_pid
          /\ UNCHANGED DEV_AD
  /\ UNCHANGED <<tx, rx_len, desc_remain, desc_ptr, last_req, dev_addr, configured>>

Empty(res, p) == [res |-> res, len |-> 0, from |-> tx.from, pid |-> p]

\* The RP2040 only clears the flag.  desc_remain is a uint16_t.
OutComplete ==
  /\ IF Ch32
     THEN /\ desc_remain' = (desc_remain - rx_len) % 65536
          /\ tx' = IF desc_remain' = 0 THEN Empty("ack", 1) ELSE tx
     ELSE UNCHANGED <<desc_remain, tx>>
  /\ UNCHANGED <<DEV_AD, rx, rx_len, desc_ptr, last_req, should_set_address, ep0_out_pid,
                 dev_addr, configured>>

\* A bus reset: the RP2040 leaves EP0 as it is.
ResetComplete ==
  /\ DEV_AD' = 0 /\ dev_addr' = 0 /\ configured' = FALSE /\ should_set_address' = FALSE
  /\ IF Ch32
     THEN tx' = Empty("nak", 0) /\ rx' = [res |-> "ack", pid |-> 0]
     ELSE UNCHANGED <<tx, rx>>
  /\ UNCHANGED <<desc_remain, desc_ptr, last_req, ep0_out_pid, rx_len>>

\* The order in which one interrupt looks at what has happened.
Order == IF Ch32 THEN <<"in", "out", "setup", "reset">> ELSE <<"setup", "in", "out", "reset">>

Due(c) == /\ c \in irqs
          /\ \A i, j \in 1 .. 4 : Order[i] = c /\ Order[j] \in irqs => i <= j

IRQHandler ==
  /\ \/ Due("setup") /\ HandleSetup /\ irqs' = irqs \ {"setup"}
     \/ Due("in") /\ (InCompleteCh32 \/ InCompleteRp2040) /\ irqs' = irqs \ {"in"}
     \/ Due("out") /\ OutComplete /\ irqs' = irqs \ {"out"}
     \/ Due("reset") /\ ResetComplete /\ irqs' = irqs \ {"reset"}
  /\ UNCHANGED <<platform, ep0_size, hostVars>>

-----------------------------------------------------------------------------
(* The host and the hardware.                                              *)

Heard == host_addr = DEV_AD /\ "setup" \notin irqs /\ "reset" \notin irqs /\ (Ch32 => irqs = {})

FirstStage(r) == CASE r.type = "outData" -> "out"
                   [] r.wLength = 0      -> "statusIn"
                   [] OTHER              -> "in"

\* SET_ADDRESS is for a device without one, SET_CONFIGURATION for one that has one.
Setup(r) ==
  /\ stage = "idle" /\ (irqs = {} \/ (~Ch32 /\ irqs = {"out"}))
  /\ r.type = "address" => host_addr = 0
  /\ r.type = "configuration" => host_addr # 0
  /\ req' = r /\ stage' = FirstStage(r) /\ pid' = 1
  /\ rcvd' = 0 /\ inOrder' = TRUE /\ lost' = FALSE
  /\ irqs' = IF host_addr = DEV_AD THEN irqs \union {"setup"} ELSE irqs
  /\ UNCHANGED <<platform, ep0_size, drvVars, hwVars, host_addr, orphan, strayed>>

\* The host takes another part of the descriptor; a short packet is the last one.
Collect ==
  /\ pid' = 1 - pid
  /\ rcvd' = rcvd + tx.len /\ inOrder' = (inOrder /\ tx.from = rcvd)
  /\ stage' = IF tx.len < ep0_size \/ rcvd' >= req.wLength THEN "statusOut" ELSE "in"
  /\ UNCHANGED <<req, host_addr, orphan>>

Finish ==
  /\ stage' = "idle"
  /\ host_addr' = IF req.type = "address" THEN req.addr ELSE host_addr
  /\ UNCHANGED <<req, pid, rcvd, inOrder, lost, orphan>>

InPacket ==
  /\ stage \in {"in", "statusIn"} /\ Heard /\ tx.res = "ack"
  /\ IF tx.pid # pid THEN UNCHANGED hostVars
     ELSE /\ IF stage = "in" THEN Collect /\ UNCHANGED lost ELSE Finish
          /\ UNCHANGED strayed
  /\ irqs' = irqs \union {"in"}
  /\ tx' = IF Ch32 THEN tx ELSE [tx EXCEPT !.res = "nak"]
  /\ UNCHANGED <<platform, ep0_size, drvVars, DEV_AD, rx, rx_len>>

\* The device does not see the host's acknowledgement.  It sends the packet again,
\* unless it was the last one, after which the host wants no more.  After the status
\* stage of SET_ADDRESS the host uses the new address and the device the old one.
InAckLost ==
  /\ stage \in {"in", "statusIn"} /\ Heard /\ tx.res = "ack" /\ tx.pid = pid
  /\ IF stage = "in"
     THEN Collect /\ lost' = (stage' = "statusOut") /\ UNCHANGED strayed
     ELSE Finish /\ strayed' = (strayed \/ req.type = "address")
  /\ UNCHANGED <<platform, ep0_size, drvVars, hwVars, irqs>>

OutPacket ==
  /\ stage \in {"out", "statusOut"} /\ Heard /\ rx.res = "ack"
  /\ stage' = IF stage = "out" THEN "statusIn" ELSE "idle"
  /\ IF Ch32 \/ rx.pid = 1
     THEN /\ irqs' = irqs \union {"out"}
          /\ rx_len' = IF stage = "out" THEN req.wLength ELSE 0
          /\ rx' = IF Ch32 THEN rx ELSE [rx EXCEPT !.res = "nak"]
     ELSE UNCHANGED <<irqs, rx_len, rx>>
  /\ UNCHANGED <<platform, ep0_size, drvVars, DEV_AD, tx, req, pid, rcvd, inOrder,
                 host_addr, lost, orphan, strayed>>

Stall ==
  /\ stage # "idle" /\ Heard
  /\ IF stage \in {"in", "statusIn"} THEN tx.res = "stall" ELSE rx.res = "stall"
  /\ stage' = "idle"
  /\ UNCHANGED <<platform, ep0_size, drvVars, hwVars, irqs, req, pid, rcvd, inOrder,
                 host_addr, lost, orphan, strayed>>

\* The host gives up a request after seconds.
Abandon ==
  /\ stage # "idle" /\ irqs = {} /\ stage' = "idle"
  /\ orphan' = (orphan \/ req.type = "address")
  /\ UNCHANGED <<platform, ep0_size, drvVars, hwVars, irqs, req, pid, rcvd, inOrder,
                 host_addr, lost, strayed>>

BusReset ==
  /\ irqs' = irqs \union {"reset"}
  /\ stage' = "idle" /\ host_addr' = 0 /\ orphan' = FALSE /\ strayed' = FALSE
  /\ UNCHANGED <<platform, ep0_size, drvVars, hwVars, req, pid, rcvd, inOrder, lost>>

Next ==
  \/ IRQHandler
  \/ \E r \in Requests : Setup(r)
  \/ InPacket \/ InAckLost \/ OutPacket \/ Stall \/ Abandon \/ BusReset

Spec == Init /\ [][Next]_vars

\* Interrupts are taken, and the host goes on with the request it has begun.
FairSpec == Spec /\ WF_vars(IRQHandler) /\ WF_vars(InPacket) /\ WF_vars(OutPacket) /\ WF_vars(Stall)

-----------------------------------------------------------------------------
(* Properties.                                                             *)

\* Every variable has its type; the counts stay within the longest descriptor.
TypeOK ==
  /\ platform \in Platforms /\ ep0_size \in Ep0Sizes \union {64}
  /\ desc_remain \in 0 .. 46 /\ desc_ptr \in 0 .. 46
  /\ last_req \in {r.type : r \in Requests} \union {"none"}
  /\ should_set_address \in BOOLEAN /\ ep0_out_pid \in {0, 1}
  /\ dev_addr \in Addresses \union {0} /\ configured \in BOOLEAN
  /\ DEV_AD \in Addresses \union {0} /\ rx_len \in Nat
  /\ tx \in [res : {"nak", "ack", "stall"}, len : 0 .. 46, from : 0 .. 46, pid : {0, 1}]
  /\ rx \in [res : {"nak", "ack", "stall"}, pid : {0, 1}]
  /\ irqs \subseteq {"setup", "in", "out", "reset"}
  /\ req \in Requests \union {NoRequest} /\ pid \in {0, 1} /\ rcvd \in 0 .. 46
  /\ stage \in {"idle", "in", "out", "statusIn", "statusOut"}
  /\ inOrder \in BOOLEAN /\ host_addr \in Addresses \union {0}
  /\ lost \in BOOLEAN /\ orphan \in BOOLEAN /\ strayed \in BOOLEAN

\* On the RP2040 a SET_ADDRESS the host gives up still takes effect, at the end of
\* the next IN packet.  On both, the device misses the end of a SET_ADDRESS whose
\* acknowledgement is lost.  Only a bus reset brings host and device together again.
Misled == (~Ch32 /\ orphan) \/ strayed

\* A host that finishes a GET_DESCRIPTOR has the descriptor from its first byte, in
\* order and as much as it asked for, packets sent twice notwithstanding.
DescriptorWhole ==
  [][stage = "statusOut" /\ stage' = "idle" /\ req.type = "get" /\ OutPacket =>
       inOrder /\ rcvd = Answer(req)]_vars

\* The device answers to the address the host uses: it takes a new one when the host
\* has seen the end of the SET_ADDRESS, no sooner and no later, and loses it in a reset,
\* unless they are misled as above.
AddressAgreed == irqs = {} /\ ~Misled => DEV_AD = host_addr

\* The device answers every request, unknown ones too, unless it carries data to the
\* device, the host's last acknowledgement of it was lost, or the two are misled.
RequestsEnd ==
  stage # "idle" /\ req.type # "outData" /\ ~Misled ~> stage = "idle" \/ lost
=============================================================================
