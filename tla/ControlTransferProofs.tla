------------------------ MODULE ControlTransferProofs ------------------------
(***************************************************************************)
(* What ControlTransfer promises, on both platforms and for every packet   *)
(* size, set of descriptors, wLength and address.                          *)
(***************************************************************************)
EXTENDS ControlTransfer, TLAPS

\* The SETUP packet of the request under way has reached the device and its
\* handler has run.
Handled == stage # "idle" /\ "setup" \notin irqs /\ (host_addr = DEV_AD \/ "in" \in irqs)

-----------------------------------------------------------------------------
(* The inductive invariant.                                                *)

\* Which interrupts may be pending together, and where the host is meanwhile.
IrqInv ==
  /\ "reset" \in irqs => stage = "idle" /\ host_addr = 0 /\ ~orphan /\ ~strayed
  /\ "setup" \in irqs => /\ "in" \notin irqs /\ stage # "statusOut"
                         /\ "reset" \notin irqs => stage # "idle"
  /\ Ch32 /\ "out" \in irqs => stage = "idle" /\ "in" \notin irqs /\ "setup" \notin irqs
  /\ stage \in {"out", "statusIn"} => "in" \notin irqs

\* The stages a request goes through, and the packets the host waits for.
StageInv ==
  /\ stage # "idle" => req \in Requests
  /\ stage \in {"in", "statusOut"} => req.wLength # 0 /\ req.type # "outData"
  /\ stage = "out" => req.type = "outData"
  /\ stage \in {"out", "statusIn"} => pid = 1 /\ (Handled => tx.pid = 1)
  /\ stage = "in" /\ (~Ch32 \/ ~Handled) => pid = 1 /\ rcvd = 0 /\ inOrder
  /\ ~Ch32 => ep0_size = 64 /\ tx.res # "stall" /\ rx.res # "stall"
  \* The CH32V305 takes no data of an OUT request.
  /\ Ch32 => rx_len = 0 /\ (stage = "out" /\ Handled => rx.res # "ack")

\* Who has which address.  An IN packet the handler has not seen yet may be the
\* one after which the device takes its new address.
Pending == "in" \in irqs /\ IF Ch32 THEN desc_remain = 0 /\ last_req = "address"
                                    ELSE should_set_address

AddrInv ==
  /\ "reset" \notin irqs /\ ~Misled => host_addr = IF Pending THEN dev_addr ELSE DEV_AD
  /\ Handled /\ req.type = "address" => dev_addr = req.addr /\ (~Ch32 => should_set_address)
  /\ ~Ch32 /\ ~Misled /\ should_set_address /\ "reset" \notin irqs
       => "in" \in irqs \/ (stage = "statusIn" /\ req.type = "address" /\ Handled)
  /\ stage # "idle" /\ req.type = "address" => host_addr = 0
  \* A device that has missed the end of a SET_ADDRESS hears nothing any more.
  /\ strayed => host_addr # DEV_AD /\ irqs \subseteq {"out"}

\* What the CH32V305 still has to send.
DescInv ==
  Ch32 => /\ desc_ptr + desc_remain <= 46
          /\ last_req # "get" => desc_remain = 0
          /\ Handled => last_req = req.type

\* The packet in EP0 is the next one of the descriptor, or the one the host has
\* taken last.
TxInv ==
  Handled =>
    /\ stage = "in" =>
         /\ inOrder
         /\ tx.from <= Answer(req) /\ tx.len = Chunk(Answer(req) - tx.from)
         /\ rcvd = IF tx.pid = pid THEN tx.from ELSE tx.from + tx.len
         /\ Ch32 => desc_ptr = tx.from + tx.len /\ desc_ptr + desc_remain = Answer(req)
         /\ Ch32 /\ "in" \in irqs => tx.pid # pid
         /\ ~Ch32 => tx.from = 0 /\ tx.pid = 1
    /\ stage = "statusOut" => inOrder /\ rcvd = Answer(req)

IInv == TypeOK /\ IrqInv /\ StageInv /\ AddrInv /\ DescInv /\ TxInv

-----------------------------------------------------------------------------
(* Requests and their answers.                                             *)

LEMMA RequestFacts ==
  ASSUME NEW r \in Requests
  PROVE  /\ r.type \in {"get", "address", "configuration", "otherOut", "unknownGet",
                        "otherIn", "outData"}
         /\ r.wLength \in Nat /\ r.addr \in Addresses \union {0}
         /\ r.type = "address" => r.wLength = 0 /\ r.addr \in Addresses
         /\ r.type = "outData" => r.wLength = 2
<1> USE ControlAssumption DEF ControlAssumption
<1>1. CASE r \in [type : {"get"}, kind : Kinds, wLength : Lengths, addr : {0}]
  BY <1>1
<1>2. CASE r \in [type : {"address"}, kind : {"none"}, wLength : {0}, addr : Addresses]
  BY <1>2
<1>3. CASE r \in [type : {"configuration", "otherOut"}, kind : {"none"}, wLength : {0}, addr : {0}]
  BY <1>3
<1>4. CASE r \in [type : {"unknownGet", "otherIn", "outData"}, kind : {"none"}, wLength : {2}, addr : {0}]
  BY <1>4
<1> QED
  BY <1>1, <1>2, <1>3, <1>4 DEF Requests

LEMMA LengthFacts ==
  /\ DOMAIN DescLen = {"device", "config", "qualifier", "lang", "manufacturer", "product", "serial"}
  /\ \A k \in DOMAIN DescLen : DescLen[k] \in 0 .. 46
BY DEF DescLen, DeviceLen, QualifierLen, ConfigLen

\* No answer is longer than the longest descriptor or than the host asked for.
LEMMA AnswerFacts ==
  ASSUME NEW r \in Requests \union {NoRequest}
  PROVE  /\ Answer(r) \in 0 .. 46
         /\ Answer(r) <= r.wLength \/ r.type # "get"
         /\ r.type # "get" => Answer(r) = 0
<1>1. CASE Known(r)
  <2>1. r \in Requests /\ r.type = "get" /\ DescLen[r.kind] \in 0 .. 46
    BY <1>1, LengthFacts DEF Known, NoRequest
  <2>2. r.wLength \in Nat
    BY <2>1, RequestFacts
  <2> QED
    BY <1>1, <2>1, <2>2 DEF Answer, Least
<1>2. CASE ~Known(r)
  <2>1. r.wLength \in Nat
    BY RequestFacts DEF NoRequest
  <2> QED
    BY <1>2, <2>1 DEF Answer
<1> QED
  BY <1>1, <1>2

LEMMA ChunkFacts ==
  ASSUME NEW n \in Nat, ep0_size \in Nat \ {0}
  PROVE  Chunk(n) \in 0 .. n /\ (n > 0 => Chunk(n) > 0) /\ (Chunk(n) < ep0_size => Chunk(n) = n)
BY DEF Chunk, Least

-----------------------------------------------------------------------------
(* Every step keeps the invariant.                                         *)

LEMMA InitIInv == Init => IInv
<1> SUFFICES ASSUME Init PROVE IInv
  OBVIOUS
<1> USE ControlAssumption DEF ControlAssumption, Init, Ch32
<1>1. TypeOK
  <2>1. /\ should_set_address \in BOOLEAN /\ configured \in BOOLEAN /\ inOrder \in BOOLEAN
        /\ lost \in BOOLEAN /\ orphan \in BOOLEAN /\ strayed \in BOOLEAN
    BY Zenon
  <2>2. /\ tx \in [res : {"nak", "ack", "stall"}, len : 0 .. 46, from : 0 .. 46, pid : {0, 1}]
        /\ rx \in [res : {"nak", "ack", "stall"}, pid : {0, 1}]
    OBVIOUS
  <2> QED
    BY <2>1, <2>2 DEF TypeOK
<1>2. IrqInv /\ StageInv /\ AddrInv /\ DescInv /\ TxInv
  BY DEF IrqInv, StageInv, AddrInv, DescInv, TxInv, Handled, Pending, Misled
<1> QED
  BY <1>1, <1>2 DEF IInv

LEMMA SetupStep == ASSUME IInv, NEW r \in Requests, Setup(r) PROVE IInv'
<1> USE DEF IInv, Setup, drvVars, hwVars, Ch32
<1>1. TypeOK'
  <2>1. inOrder' \in BOOLEAN /\ lost' \in BOOLEAN
    BY Zenon
  <2>2. stage' \in {"in", "out", "statusIn"}
    BY DEF FirstStage
  <2>3. irqs' \subseteq {"setup", "in", "out", "reset"}
    BY DEF TypeOK
  <2> QED
    BY <2>1, <2>2, <2>3 DEF TypeOK
<1>2. r.type = "address" => r.wLength = 0
  BY RequestFacts
<1>3. stage' = FirstStage(r) /\ stage' # "idle"
  BY DEF FirstStage
<1>4. Handled' => FALSE
  BY DEF Handled, IrqInv, AddrInv, TypeOK
<1>5. IrqInv'
  BY <1>3, <1>4 DEF IrqInv, TypeOK, FirstStage
<1>7. StageInv'
  <2>1. r.type \in {"get", "address", "configuration", "otherOut", "unknownGet",
                    "otherIn", "outData"}
    BY RequestFacts
  <2> QED
    BY <1>3, <1>4, <2>1, RequestFacts DEF StageInv, FirstStage, TypeOK
<1>6. AddrInv' /\ DescInv' /\ TxInv'
  BY <1>3, <1>4 DEF AddrInv, DescInv, TxInv, Pending, Misled
<1> QED
  BY <1>1, <1>5, <1>6, <1>7

\* The handler of SETUP packets.
LEMMA HandleSetupStep ==
  ASSUME IInv, Due("setup"), HandleSetup, irqs' = irqs \ {"setup"},
         UNCHANGED <<platform, ep0_size, hostVars>>
  PROVE  IInv'
<1> USE DEF IInv, HandleSetup, AddressLater, hostVars, Ch32
<1>2. /\ Answer(req) \in 0 .. 46 /\ (req.type # "get" => Answer(req) = 0)
      /\ ep0_size \in Nat \ {0}
  BY AnswerFacts, ControlAssumption DEF TypeOK, ControlAssumption
<1>3. Chunk(Answer(req)) \in 0 .. Answer(req)
  BY <1>2, ChunkFacts
<1>4. "setup" \in irqs
  BY DEF Due
<1>5. TypeOK'
  <2>1. should_set_address' \in BOOLEAN /\ configured' \in BOOLEAN
    BY Zenon DEF TypeOK
  <2>2. dev_addr' \in Addresses \union {0}
    BY RequestFacts DEF TypeOK, NoRequest
  <2>3. tx' \in [res : {"nak", "ack", "stall"}, len : 0 .. 46, from : 0 .. 46, pid : {0, 1}]
    BY <1>2, <1>3
  <2>4. rx' \in [res : {"nak", "ack", "stall"}, pid : {0, 1}]
    BY DEF CloseRx, TypeOK
  <2>5. desc_ptr' \in 0 .. 46 /\ desc_remain' \in 0 .. 46
    BY <1>2, <1>3 DEF TypeOK
  <2>6. last_req' \in {r.type : r \in Requests} \union {"none"}
    BY DEF TypeOK, NoRequest
  <2> QED
    BY <2>1, <2>2, <2>3, <2>4, <2>5, <2>6 DEF TypeOK
<1>6. IrqInv'
  BY <1>4 DEF IrqInv
<1>7. stage # "idle" => "reset" \notin irqs /\ req \in Requests
  BY DEF IrqInv, StageInv
<1>8. StageInv'
  BY <1>4 DEF StageInv, Handled, CloseRx, Refused
<1>9. AddrInv'
  <2>1. ASSUME "reset" \notin irqs', ~Misled' PROVE host_addr = DEV_AD /\ "in" \notin irqs'
    BY <1>4, <2>1 DEF AddrInv, Pending, Misled, IrqInv
  <2>2. ASSUME ~Ch32, ~Misled, should_set_address', "reset" \notin irqs
        PROVE  stage = "statusIn" /\ req.type = "address" /\ Handled'
    <3>1. host_addr = DEV_AD
      BY <2>1, <2>2 DEF Misled
    <3>2. req.type = "address"
      BY <1>4, <2>2 DEF AddrInv, IrqInv, Handled
    <3>3. stage = "statusIn"
      BY <1>4, <1>7, <3>2, RequestFacts, <2>2 DEF IrqInv, StageInv, TypeOK
    <3> QED
      BY <3>1, <3>2, <3>3 DEF Handled
  <2> QED
    BY <1>4, <2>1, <2>2 DEF AddrInv, Pending, Misled
<1>10. DescInv'
  BY <1>2, <1>3 DEF DescInv, TypeOK
<1>11. TxInv'
  <2>1. stage # "statusOut" /\ (stage = "in" => pid = 1 /\ rcvd = 0 /\ inOrder)
    BY <1>4 DEF StageInv, IrqInv, Handled
  <2>2. tx'.from = 0 /\ tx'.pid = 1 /\ tx'.len = Chunk(Answer(req))
    OBVIOUS
  <2>3. Answer(req) - 0 = Answer(req) /\ 0 + Chunk(Answer(req)) = Chunk(Answer(req))
    BY <1>2, <1>3
  <2>4. Answer(req)' = Answer(req) /\ \A n : Chunk(n)' = Chunk(n)
    BY DEF Answer, Known, Chunk
  <2>5. Ch32 => desc_ptr' + desc_remain' = Answer(req)
    BY <1>2, <1>3
  <2>6. "in" \notin irqs'
    BY <1>4 DEF IrqInv
  <2> QED
    BY <1>2, <1>3, <2>1, <2>2, <2>3, <2>4, <2>5, <2>6 DEF TxInv
<1> QED
  BY <1>5, <1>6, <1>8, <1>9, <1>10, <1>11

\* What the steps below need to know of the answer and of the size of a packet.
LEMMA SizeFacts ==
  ASSUME TypeOK
  PROVE  Answer(req) \in 0 .. 46 /\ ep0_size \in Nat \ {0}
BY AnswerFacts, ControlAssumption DEF TypeOK, ControlAssumption

\* The CH32V305 takes up the next packet of a descriptor.
LEMMA ContinueStep ==
  ASSUME IInv, Ch32, Due("in"), Continue, irqs' = irqs \ {"in"},
         UNCHANGED <<last_req, should_set_address, ep0_out_pid, dev_addr, configured, rx_len>>,
         UNCHANGED <<platform, ep0_size, hostVars>>
  PROVE  IInv'
<1> USE DEF IInv, Continue, AdvancePtr, hostVars, Ch32
<1>1. "in" \in irqs /\ desc_remain \in 1 .. 46 /\ desc_ptr \in 0 .. 46
  BY DEF Due, TypeOK
<1>2. Chunk(desc_remain) \in 0 .. desc_remain /\ Answer(req) \in 0 .. 46
  BY <1>1, SizeFacts, ChunkFacts
<1>3. desc_ptr + desc_remain <= 46
  BY DEF DescInv
<1>4. TypeOK'
  <2>1. tx' \in [res : {"nak", "ack", "stall"}, len : 0 .. 46, from : 0 .. 46, pid : {0, 1}]
    <3>1. Chunk(desc_remain) \in 0 .. 46 /\ 1 - tx.pid \in {0, 1}
      BY <1>1, <1>2 DEF TypeOK
    <3> QED
      BY <1>1, <3>1 DEF TypeOK
  <2>2. desc_ptr' \in 0 .. 46 /\ desc_remain' \in 0 .. 46
    BY <1>1, <1>2, <1>3
  <2> QED
    BY <2>1, <2>2 DEF TypeOK
<1>5. IrqInv'
  BY <1>1 DEF IrqInv
<1>6. stage \notin {"out", "statusIn"}
  BY <1>1 DEF IrqInv
<1>7. Handled' => Handled
  BY <1>1 DEF Handled, IrqInv
<1>8. last_req = "get" /\ (Handled => req.type = "get")
  BY <1>1 DEF DescInv
<1>9. StageInv'
  <2>1. stage # "idle" => Handled'
    BY <1>1 DEF IrqInv, AddrInv, Pending, Misled, Handled
  <2> QED
    BY <1>1, <1>6, <2>1 DEF StageInv
<1>10. AddrInv'
  BY <1>1, <1>7, <1>8 DEF AddrInv, Pending, Misled
<1>11. DescInv'
  BY <1>1, <1>2, <1>7 DEF DescInv
<1>12. TxInv'
  <2> SUFFICES ASSUME Handled, stage = "in"
               PROVE  /\ inOrder
                      /\ tx'.from <= Answer(req) /\ tx'.len = Chunk(Answer(req) - tx'.from)
                      /\ rcvd = (IF tx'.pid = pid THEN tx'.from ELSE tx'.from + tx'.len)
                      /\ desc_ptr' = tx'.from + tx'.len /\ desc_ptr' + desc_remain' = Answer(req)
    BY <1>1, <1>7 DEF TxInv, Answer, Known, Chunk
  <2>1. /\ inOrder /\ tx.pid # pid /\ rcvd = tx.from + tx.len
        /\ desc_ptr = tx.from + tx.len /\ desc_ptr + desc_remain = Answer(req)
    BY <1>1 DEF TxInv
  <2>2. tx'.from = desc_ptr /\ tx'.len = Chunk(desc_remain) /\ tx'.pid = pid
    BY <2>1 DEF TypeOK
  <2>3. Answer(req) - desc_ptr = desc_remain
    BY <1>1, <1>2, <2>1
  <2> QED
    BY <1>1, <1>2, <2>1, <2>2, <2>3
<1> QED
  BY <1>4, <1>5, <1>9, <1>10, <1>11, <1>12

\* The CH32V305 is ready for the status stage, and takes a new address.
LEMMA StatusStageStep ==
  ASSUME IInv, Ch32, Due("in"), StatusStage, irqs' = irqs \ {"in"},
         UNCHANGED <<last_req, should_set_address, ep0_out_pid, dev_addr, configured, rx_len>>,
         UNCHANGED <<platform, ep0_size, hostVars>>
  PROVE  IInv'
<1> USE DEF IInv, StatusStage, OpenForStatus, hostVars, Ch32
<1>1. "in" \in irqs /\ "setup" \notin irqs
  BY DEF Due, IrqInv
<1>2. TypeOK'
  BY DEF TypeOK
<1>3. IrqInv'
  BY <1>1 DEF IrqInv
<1>4. stage \notin {"out", "statusIn"}
  BY <1>1 DEF IrqInv
<1>5. Handled' => Handled
  BY <1>1 DEF Handled
<1>6. ~Misled /\ (~Handled' /\ stage # "idle" => "reset" \notin irqs)
  BY <1>1 DEF Misled, IrqInv, AddrInv
<1>7. AddrInv'
  BY <1>1, <1>5 DEF AddrInv, Pending, Misled
<1>8. stage # "idle" => Handled'
  BY <1>1, <1>6, <1>7 DEF AddrInv, Pending, Misled, Handled
<1>9. StageInv'
  BY <1>1, <1>4, <1>5, <1>8 DEF StageInv
<1>10. DescInv'
  BY <1>5 DEF DescInv
<1>11. TxInv'
  BY <1>1, <1>5 DEF TxInv, Answer, Known, Chunk
<1> QED
  BY <1>2, <1>3, <1>7, <1>9, <1>10, <1>11

\* The RP2040 takes a new address, or is ready for the status stage.
LEMMA InCompleteRp2040Step ==
  ASSUME IInv, Due("in"), InCompleteRp2040, irqs' = irqs \ {"in"},
         UNCHANGED <<platform, ep0_size, hostVars>>
  PROVE  IInv'
<1> USE DEF IInv, InCompleteRp2040, hostVars, Ch32
<1>1. "in" \in irqs /\ "setup" \notin irqs /\ stage \notin {"out", "statusIn"}
  BY DEF Due, IrqInv
<1>2. TypeOK'
  <2>1. should_set_address' \in BOOLEAN
    BY Zenon
  <2>2. rx' \in [res : {"nak", "ack", "stall"}, pid : {0, 1}] /\ ep0_out_pid' \in {0, 1}
    BY DEF TypeOK
  <2> QED
    BY <2>1, <2>2 DEF TypeOK
<1>3. IrqInv'
  BY <1>1 DEF IrqInv
<1>4. Handled' => Handled
  BY <1>1 DEF Handled
<1>5. AddrInv'
  <2>1. Handled' => req.type # "address"
    BY <1>1, <1>4, RequestFacts DEF StageInv, TypeOK, Handled
  <2> QED
    BY <1>1, <2>1 DEF AddrInv, Pending, Misled, IrqInv
<1>7. StageInv'
  BY <1>1, <1>4 DEF StageInv
<1>8. DescInv' /\ TxInv'
  BY <1>1, <1>4 DEF DescInv, TxInv, Answer, Known, Chunk
<1> QED
  BY <1>2, <1>3, <1>5, <1>7, <1>8

\* EP0 has received a packet.
LEMMA OutCompleteStep ==
  ASSUME IInv, Due("out"), OutComplete, irqs' = irqs \ {"out"},
         UNCHANGED <<platform, ep0_size, hostVars>>
  PROVE  IInv'
<1> USE DEF IInv, OutComplete, hostVars, Ch32
<1>1. "out" \in irqs /\ (Ch32 => stage = "idle" /\ "in" \notin irqs /\ "setup" \notin irqs)
  BY DEF Due, IrqInv
<1>2. desc_remain' = desc_remain
  BY DEF StageInv, TypeOK
<1>3. TypeOK'
  <2>1. tx' \in [res : {"nak", "ack", "stall"}, len : 0 .. 46, from : 0 .. 46, pid : {0, 1}]
    <3>1. CASE tx' = tx
      BY <3>1 DEF TypeOK
    <3>2. CASE tx' = Empty("ack", 1)
      BY <3>2 DEF TypeOK, Empty
    <3> QED
      BY <3>1, <3>2
  <2> QED
    BY <1>2, <2>1 DEF TypeOK
<1>4. IrqInv' /\ StageInv'
  BY <1>1 DEF IrqInv, StageInv, Handled
<1>5. AddrInv'
  BY <1>1, <1>2 DEF AddrInv, Pending, Misled, Handled
<1>6. DescInv' /\ TxInv'
  BY <1>1, <1>2 DEF DescInv, TxInv, Handled, Answer, Known, Chunk
<1> QED
  BY <1>3, <1>4, <1>5, <1>6

\* A bus reset is handled last.
LEMMA ResetCompleteStep ==
  ASSUME IInv, Due("reset"), ResetComplete, irqs' = irqs \ {"reset"},
         UNCHANGED <<platform, ep0_size, hostVars>>
  PROVE  IInv'
<1> USE DEF IInv, ResetComplete, hostVars, Ch32
<1>1. "reset" \in irqs /\ irqs' = {}
  BY DEF Due, Order, TypeOK
<1>2. stage = "idle" /\ host_addr = 0 /\ ~orphan /\ ~strayed
  BY <1>1 DEF IrqInv
<1>3. TypeOK'
  <2>1. configured' \in BOOLEAN /\ should_set_address' \in BOOLEAN
    BY Zenon
  <2>2. rx' \in [res : {"nak", "ack", "stall"}, pid : {0, 1}]
    BY DEF TypeOK
  <2>3. tx' \in [res : {"nak", "ack", "stall"}, len : 0 .. 46, from : 0 .. 46, pid : {0, 1}]
    <3>1. CASE tx' = tx
      BY <3>1 DEF TypeOK
    <3>2. CASE tx' = Empty("nak", 0)
      BY <3>2 DEF TypeOK, Empty
    <3> QED
      BY <3>1, <3>2
  <2> QED
    BY <1>1, <2>1, <2>2, <2>3 DEF TypeOK
<1>4. IrqInv' /\ StageInv'
  BY <1>1, <1>2 DEF IrqInv, StageInv, Handled
<1>5. AddrInv' /\ DescInv' /\ TxInv'
  BY <1>1, <1>2 DEF AddrInv, Pending, Misled, Handled, DescInv, TxInv
<1> QED
  BY <1>3, <1>4, <1>5

-----------------------------------------------------------------------------
(* The host.                                                               *)

\* A packet is answered only after the request was handled, and it is not that
\* of a request with a new address if there is data.
LEMMA HeardFacts ==
  ASSUME IInv, Heard, stage # "idle"
  PROVE  /\ Handled /\ "setup" \notin irqs /\ "reset" \notin irqs /\ host_addr = DEV_AD
         /\ req \in Requests /\ (Ch32 => irqs = {} /\ last_req = req.type)
         /\ req.type = "address" => stage = "statusIn"
<1>1. Handled /\ "setup" \notin irqs /\ "reset" \notin irqs /\ req \in Requests
  BY DEF Heard, Handled, IInv, StageInv
<1>2. req.type = "address" => req.wLength = 0
  BY <1>1, RequestFacts
<1>3. stage \in {"in", "out", "statusIn", "statusOut"}
  BY DEF IInv, TypeOK
<1>4. req.type = "address" => stage = "statusIn"
  BY <1>2, <1>3 DEF IInv, StageInv
<1> QED
  BY <1>1, <1>4 DEF Heard, IInv, DescInv

\* The packet the host takes brings it exactly up to the part the device has sent.
LEMMA CollectFacts ==
  ASSUME IInv, Heard, stage = "in", tx.pid = pid, Collect
  PROVE  /\ pid' \in {0, 1} /\ pid' # tx.pid
         /\ rcvd' = tx.from + tx.len /\ rcvd' \in 0 .. 46 /\ inOrder'
         /\ stage' \in {"in", "statusOut"} /\ (~Ch32 => stage' = "statusOut")
         /\ stage' = "statusOut" => rcvd' = Answer(req)
<1>1. Handled /\ req \in Requests /\ TypeOK
  BY HeardFacts DEF IInv
<1>2. /\ inOrder /\ rcvd = tx.from /\ tx.from <= Answer(req)
      /\ tx.len = Chunk(Answer(req) - tx.from)
  BY <1>1 DEF IInv, TxInv
<1>3. tx.from \in 0 .. 46 /\ tx.len \in 0 .. 46 /\ pid \in {0, 1} /\ Answer(req) \in 0 .. 46
  BY <1>1, SizeFacts DEF TypeOK
<1>4. Answer(req) - tx.from \in Nat /\ ep0_size \in Nat \ {0}
  BY <1>1, <1>2, <1>3, SizeFacts
<1>5. /\ tx.len <= Answer(req) - tx.from
      /\ tx.len < ep0_size => tx.len = Answer(req) - tx.from
  BY <1>2, <1>3, <1>4, ChunkFacts
<1>6. rcvd' = tx.from + tx.len /\ inOrder' /\ pid' = 1 - pid
  BY <1>2 DEF Collect
<1>7. stage' = "statusOut" => rcvd' = Answer(req)
  <2>1. CASE tx.len < ep0_size
    BY <1>3, <1>5, <1>6, <2>1
  <2>2. CASE tx.len >= ep0_size /\ rcvd' >= req.wLength
    <3>1. tx.len > 0 /\ Answer(req) > 0
      BY <1>3, <1>4, <1>5, <2>2
    <3>2. Answer(req) <= req.wLength /\ req.wLength \in Nat
      BY <1>1, <3>1, AnswerFacts, RequestFacts
    <3> QED
      BY <1>3, <1>5, <1>6, <2>2, <3>2
  <2> QED
    BY <1>3, <1>4, <2>1, <2>2 DEF Collect
<1>8. ~Ch32 => tx.len < ep0_size
  BY <1>3 DEF IInv, StageInv
<1> QED
  BY <1>3, <1>5, <1>6, <1>7, <1>8 DEF Collect

\* What the host's next packet may still change about the device.
LEMMA InPacketStep == ASSUME IInv, InPacket PROVE IInv'
<1> USE DEF InPacket, drvVars
<1>1. /\ Handled /\ "setup" \notin irqs /\ "reset" \notin irqs /\ host_addr = DEV_AD
      /\ req \in Requests /\ (Ch32 => irqs = {} /\ last_req = req.type)
      /\ req.type = "address" => stage = "statusIn"
  BY HeardFacts
<1>2. /\ tx'.len = tx.len /\ tx'.from = tx.from /\ tx'.pid = tx.pid
      /\ tx' \in [res : {"nak", "ack", "stall"}, len : 0 .. 46, from : 0 .. 46, pid : {0, 1}]
  BY DEF IInv, TypeOK
<1>3. irqs' \subseteq {"setup", "in", "out", "reset"} /\ irqs' = irqs \union {"in"}
  BY DEF IInv, TypeOK
<1>4. CASE tx.pid # pid /\ UNCHANGED hostVars
  <2> USE DEF hostVars
  <2>1. Ch32 /\ stage = "in"
    BY <1>1, <1>4 DEF IInv, StageInv, TxInv
  <2>2. TypeOK'
    BY <1>2, <1>3, <1>4 DEF IInv, TypeOK
  <2>3. IrqInv' /\ StageInv'
    BY <1>1, <1>3, <1>4, <2>1 DEF IInv, IrqInv, StageInv, Handled, Ch32
  <2>4. AddrInv'
    BY <1>1, <1>3, <1>4, <2>1 DEF IInv, AddrInv, Pending, Misled, Handled, Ch32
  <2>5. DescInv' /\ TxInv'
    BY <1>1, <1>2, <1>3, <1>4, <2>1 DEF IInv, DescInv, TxInv, Handled, Ch32, Answer, Known, Chunk
  <2> QED
    BY <2>2, <2>3, <2>4, <2>5 DEF IInv
<1>5. CASE tx.pid = pid /\ stage = "in" /\ Collect /\ UNCHANGED <<lost, strayed>>
  <2>1. /\ pid' \in {0, 1} /\ pid' # tx.pid
        /\ rcvd' = tx.from + tx.len /\ rcvd' \in 0 .. 46 /\ inOrder'
        /\ stage' \in {"in", "statusOut"} /\ (~Ch32 => stage' = "statusOut")
        /\ stage' = "statusOut" => rcvd' = Answer(req)
    BY <1>5, CollectFacts
  <2>2. UNCHANGED <<req, host_addr, orphan>>
    BY <1>5 DEF Collect
  <2>3. inOrder' \in BOOLEAN
    BY <1>5, Zenon DEF Collect, IInv, TypeOK
  <2>4. TypeOK'
    BY <1>2, <1>3, <1>5, <2>1, <2>2, <2>3 DEF IInv, TypeOK
  <2>5. IrqInv' /\ StageInv'
    BY <1>1, <1>3, <1>5, <2>1, <2>2 DEF IInv, IrqInv, StageInv, Handled, Ch32
  <2>6. AddrInv'
    BY <1>1, <1>3, <1>5, <2>1, <2>2 DEF IInv, AddrInv, Pending, Misled, Handled, Ch32
  <2>7. DescInv' /\ TxInv'
    BY <1>1, <1>2, <1>3, <1>5, <2>1, <2>2
    DEF IInv, DescInv, TxInv, Handled, Ch32, Answer, Known, Chunk
  <2> QED
    BY <2>4, <2>5, <2>6, <2>7 DEF IInv
<1>6. CASE tx.pid = pid /\ stage = "statusIn" /\ Finish /\ UNCHANGED strayed
  <2>1. stage' = "idle" /\ UNCHANGED <<req, pid, rcvd, inOrder, lost, orphan, strayed>>
    BY <1>6 DEF Finish
  <2>2. host_addr' = IF req.type = "address" THEN req.addr ELSE host_addr
    BY <1>6 DEF Finish
  <2>3. TypeOK'
    BY <1>1, <1>2, <1>3, <2>1, <2>2, RequestFacts DEF IInv, TypeOK
  <2>4. IrqInv' /\ StageInv'
    BY <1>1, <1>3, <2>1 DEF IInv, IrqInv, StageInv, Handled, Ch32
  <2>5. "in" \notin irqs
    BY <1>6 DEF IInv, IrqInv
  <2>6. AddrInv'
    BY <1>1, <1>3, <2>1, <2>2, <2>5 DEF IInv, AddrInv, DescInv, Pending, Misled, Handled, Ch32
  <2>7. DescInv' /\ TxInv'
    BY <2>1 DEF IInv, DescInv, TxInv, Handled, Ch32
  <2> QED
    BY <2>3, <2>4, <2>6, <2>7 DEF IInv
<1> QED
  BY <1>4, <1>5, <1>6

\* The device does not notice that the host has the packet: it goes on waiting, and
\* after a SET_ADDRESS at an address the host no longer uses.
LEMMA InAckLostStep == ASSUME IInv, InAckLost PROVE IInv'
<1> USE DEF InAckLost, drvVars, hwVars
<1>1. /\ Handled /\ "setup" \notin irqs /\ "reset" \notin irqs /\ host_addr = DEV_AD
      /\ req \in Requests /\ (Ch32 => irqs = {} /\ last_req = req.type)
      /\ req.type = "address" => stage = "statusIn"
  BY HeardFacts
<1>2. CASE stage = "in" /\ Collect /\ lost' = (stage' = "statusOut") /\ UNCHANGED strayed
  <2>1. /\ pid' \in {0, 1} /\ pid' # tx.pid
        /\ rcvd' = tx.from + tx.len /\ rcvd' \in 0 .. 46 /\ inOrder'
        /\ stage' \in {"in", "statusOut"} /\ (~Ch32 => stage' = "statusOut")
        /\ stage' = "statusOut" => rcvd' = Answer(req)
    BY <1>2, CollectFacts
  <2>2. UNCHANGED <<req, host_addr, orphan>>
    BY <1>2 DEF Collect
  <2>3. TypeOK'
    <3>1. inOrder' \in BOOLEAN /\ lost' \in BOOLEAN
      BY <1>2, Zenon DEF Collect, IInv, TypeOK
    <3> QED
      BY <1>2, <2>1, <2>2, <3>1 DEF IInv, TypeOK
  <2>4. IrqInv' /\ StageInv'
    BY <1>1, <1>2, <2>1, <2>2 DEF IInv, IrqInv, StageInv, Handled, Ch32
  <2>5. AddrInv'
    BY <1>1, <1>2, <2>1, <2>2 DEF IInv, AddrInv, Pending, Misled, Handled, Ch32
  <2>6. DescInv' /\ TxInv'
    BY <1>1, <1>2, <2>1, <2>2 DEF IInv, DescInv, TxInv, Handled, Ch32, Answer, Known, Chunk
  <2> QED
    BY <2>3, <2>4, <2>5, <2>6 DEF IInv
<1>3. CASE stage = "statusIn" /\ Finish /\ strayed' = (strayed \/ req.type = "address")
  <2>1. stage' = "idle" /\ UNCHANGED <<req, pid, rcvd, inOrder, lost, orphan>>
    BY <1>3 DEF Finish
  <2>2. host_addr' = IF req.type = "address" THEN req.addr ELSE host_addr
    BY <1>3 DEF Finish
  <2>3. req.type = "address" => req.addr \in Addresses /\ req.addr # 0
    BY <1>1, RequestFacts, ControlAssumption DEF ControlAssumption
  <2>4. ~strayed /\ (strayed' <=> req.type = "address")
    BY <1>1, <1>3 DEF IInv, AddrInv
  <2>5. TypeOK'
    <3>1. strayed' \in BOOLEAN
      BY <1>3, Zenon DEF IInv, TypeOK
    <3> QED
      BY <2>1, <2>2, <2>3, <3>1 DEF IInv, TypeOK
  <2>6. IrqInv' /\ StageInv'
    BY <1>1, <2>1 DEF IInv, IrqInv, StageInv, Handled, Ch32
  <2>7. "in" \notin irqs /\ irqs \subseteq {"out"}
    BY <1>1, <1>3 DEF IInv, IrqInv, TypeOK
  <2>8. AddrInv'
    BY <1>1, <1>3, <2>1, <2>2, <2>3, <2>4, <2>7
    DEF IInv, AddrInv, DescInv, Pending, Misled, Handled, Ch32
  <2>9. DescInv' /\ TxInv'
    BY <2>1 DEF IInv, DescInv, TxInv, Handled, Ch32
  <2> QED
    BY <2>5, <2>6, <2>8, <2>9 DEF IInv
<1> QED
  BY <1>2, <1>3

LEMMA OutPacketStep == ASSUME IInv, OutPacket PROVE IInv'
<1> USE DEF OutPacket, drvVars
<1>1. /\ Handled /\ "setup" \notin irqs /\ "reset" \notin irqs /\ host_addr = DEV_AD
      /\ req \in Requests /\ (Ch32 => irqs = {} /\ last_req = req.type)
      /\ req.type # "address"
  BY HeardFacts
<1>2. Ch32 => stage = "statusOut"
  BY <1>1 DEF IInv, StageInv
<1>3. /\ rx' \in [res : {"nak", "ack", "stall"}, pid : {0, 1}]
      /\ rx_len' \in Nat /\ (Ch32 => rx_len' = 0 /\ rx' = rx)
  BY <1>1, <1>2, RequestFacts DEF IInv, StageInv, TypeOK
<1>4. /\ irqs' \in {irqs, irqs \union {"out"}} /\ (Ch32 => irqs' = {"out"})
      /\ irqs' \subseteq {"setup", "in", "out", "reset"}
  BY <1>1 DEF IInv, TypeOK
<1>5. TypeOK'
  BY <1>3, <1>4 DEF IInv, TypeOK
<1>6. stage = "out" => "in" \notin irqs'
  BY <1>4 DEF IInv, IrqInv
<1>7. IrqInv'
  BY <1>1, <1>2, <1>4, <1>6 DEF IInv, IrqInv, Ch32
<1>8. Handled' => stage = "out"
  BY DEF Handled
<1>9. StageInv'
  BY <1>1, <1>2, <1>3, <1>4, <1>8 DEF IInv, StageInv, Handled, Ch32
<1>10. AddrInv'
  BY <1>1, <1>2, <1>4, <1>8 DEF IInv, AddrInv, Pending, Misled, Handled, Ch32
<1>11. DescInv' /\ TxInv'
  BY <1>1, <1>2, <1>4, <1>8 DEF IInv, DescInv, TxInv, Handled, Ch32
<1> QED
  BY <1>5, <1>7, <1>9, <1>10, <1>11 DEF IInv

LEMMA StallStep == ASSUME IInv, Stall PROVE IInv'
<1> USE DEF IInv, Stall, drvVars, hwVars, Ch32
<1>1. ~Handled'
  BY DEF Handled
<1>2. "setup" \notin irqs /\ "reset" \notin irqs
  BY DEF Heard
<1>3. Ch32
  BY DEF StageInv
<1>4. TypeOK' /\ IrqInv' /\ StageInv'
  BY <1>1, <1>2 DEF TypeOK, IrqInv, StageInv
<1>5. AddrInv'
  BY <1>1, <1>3 DEF AddrInv, Pending, Misled
<1>6. DescInv' /\ TxInv'
  BY <1>1 DEF DescInv, TxInv
<1> QED
  BY <1>4, <1>5, <1>6

LEMMA AbandonStep == ASSUME IInv, Abandon PROVE IInv'
<1> USE DEF IInv, Abandon, drvVars, hwVars, Ch32
<1>1. ~Handled'
  BY DEF Handled
<1>2. TypeOK'
  <2>1. orphan' \in BOOLEAN
    BY Zenon DEF TypeOK
  <2> QED
    BY <2>1 DEF TypeOK
<1>3. IrqInv' /\ StageInv'
  BY <1>1 DEF IrqInv, StageInv
<1>4. AddrInv'
  BY <1>1 DEF AddrInv, Pending, Misled
<1>5. DescInv' /\ TxInv'
  BY <1>1 DEF DescInv, TxInv
<1> QED
  BY <1>2, <1>3, <1>4, <1>5

LEMMA BusResetStep == ASSUME IInv, BusReset PROVE IInv'
<1> USE DEF IInv, BusReset, drvVars, hwVars, Ch32
<1>1. ~Handled'
  BY DEF Handled
<1>2. TypeOK'
  <2>1. orphan' \in BOOLEAN /\ strayed' \in BOOLEAN /\ irqs' \subseteq {"setup", "in", "out", "reset"}
    BY Zenon DEF TypeOK
  <2> QED
    BY <2>1 DEF TypeOK
<1>3. IrqInv' /\ StageInv'
  BY <1>1 DEF IrqInv, StageInv
<1>4. AddrInv' /\ DescInv' /\ TxInv'
  BY <1>1 DEF AddrInv, Pending, Misled, DescInv, TxInv
<1> QED
  BY <1>2, <1>3, <1>4

-----------------------------------------------------------------------------
(* The theorems.                                                           *)

LEMMA IInvStep == ASSUME IInv, [Next]_vars PROVE IInv'
<1>1. CASE IRQHandler
  <2>1. CASE Due("setup") /\ HandleSetup /\ irqs' = irqs \ {"setup"}
    BY <1>1, <2>1, HandleSetupStep DEF IRQHandler
  <2>2. CASE Due("in") /\ (InCompleteCh32 \/ InCompleteRp2040) /\ irqs' = irqs \ {"in"}
    BY <1>1, <2>2, ContinueStep, StatusStageStep, InCompleteRp2040Step
    DEF IRQHandler, InCompleteCh32
  <2>3. CASE Due("out") /\ OutComplete /\ irqs' = irqs \ {"out"}
    BY <1>1, <2>3, OutCompleteStep DEF IRQHandler
  <2>4. CASE Due("reset") /\ ResetComplete /\ irqs' = irqs \ {"reset"}
    BY <1>1, <2>4, ResetCompleteStep DEF IRQHandler
  <2> QED
    BY <1>1, <2>1, <2>2, <2>3, <2>4 DEF IRQHandler
<1>2. CASE UNCHANGED vars
  <2> USE <1>2 DEF vars, drvVars, hwVars, hostVars, IInv, Handled, Ch32
  <2>1. TypeOK'
    BY DEF TypeOK
  <2>2. IrqInv' /\ StageInv'
    BY DEF IrqInv, StageInv
  <2>3. AddrInv'
    BY DEF AddrInv, Pending, Misled
  <2>4. DescInv' /\ TxInv'
    BY DEF DescInv, TxInv, Answer, Known, Chunk
  <2> QED
    BY <2>1, <2>2, <2>3, <2>4
<1> QED
  BY <1>1, <1>2, SetupStep, InPacketStep, InAckLostStep, OutPacketStep, StallStep, AbandonStep,
     BusResetStep DEF Next

\* The invariant of the enumeration.
LEMMA IInvCorrect == Spec => []IInv
BY InitIInv, IInvStep, PTL DEF Spec

\* The counts of the descriptor bytes never leave the longest descriptor, and every
\* variable has its type: OUT packets are never subtracted from what remains.
THEOREM ControlTypeCorrect == Spec => []TypeOK
<1>1. IInv => TypeOK
  BY DEF IInv
<1> QED
  BY <1>1, IInvCorrect, PTL

\* The device answers to the address the host uses, on both platforms, unless the
\* host's acknowledgement of the end of a SET_ADDRESS was lost or, on the RP2040, the
\* host gave one up, and there has been no bus reset since.
THEOREM AddressCorrect == Spec => []AddressAgreed
<1>1. IInv => AddressAgreed
  BY DEF IInv, AddrInv, Pending, AddressAgreed
<1> QED
  BY <1>1, IInvCorrect, PTL

\* A host that finishes a GET_DESCRIPTOR has all of it, in order.
THEOREM DescriptorCorrect == Spec => DescriptorWhole
<1>1. IInv /\ [Next]_vars =>
        [stage = "statusOut" /\ stage' = "idle" /\ req.type = "get" /\ OutPacket =>
           inOrder /\ rcvd = Answer(req)]_vars
  <2> SUFFICES ASSUME IInv, stage = "statusOut", OutPacket
               PROVE  inOrder /\ rcvd = Answer(req)
    OBVIOUS
  <2>1. Handled
    BY HeardFacts DEF OutPacket
  <2> QED
    BY <2>1 DEF IInv, TxInv
<1> QED
  BY <1>1, IInvCorrect, PTL DEF Spec, DescriptorWhole
=============================================================================
