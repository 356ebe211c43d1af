---------------------------- MODULE SpiBusProofs -----------------------------
(***************************************************************************)
(* Proofs about SpiBus: the types, and that every access is what it is to  *)
(* be on the bus and for its caller.                                       *)
(*                                                                         *)
(* The bytes of an access stand in a row: taken by the caller, in the      *)
(* receive register or FIFO, being shifted, in the transmit register or    *)
(* FIFO, not yet put.  Each platform has counters that say how many are    *)
(* where (Put and Got, or Sent, Pulled, Pushed and Taken), and the n-th    *)
(* byte carries its number wherever it is.                                 *)
(***************************************************************************)
EXTENDS SpiBus, SequenceTheorems, TLAPS

USE DEF cfgVars, askVars, callVars, progVars, busVars, spiVars, pioVars, hwVars, dmaVars

Num(b) == IF b THEN 1 ELSE 0

\* What the caller has of the first r bytes of an access.
KeptOf(r) == IF op = "write" \/ r <= WaitBytes THEN 0 ELSE r - WaitBytes
DstInv(r) == Len(dst) = KeptOf(r) /\ \A n \in 1 .. Len(dst) : dst[n] = n + WaitBytes

\* The selection so far is the beginning of the frame of the access.
Prefix == /\ Len(frame) >= 1 /\ frame[1] = Header(op)
          /\ \A i \in 2 .. Len(frame) : frame[i] = Byte(i - 1)

\* In any state.
AlwaysInv ==
  /\ pc = "idle" \/ (op = "write" /\ size = 4) \/ (op # "write" /\ size \in Sizes)
  /\ pc = "header" => tx_remain = Total /\ rx_remain = Total
  /\ pc # "idle" => tx_remain <= Total /\ rx_remain <= Total
  /\ pc # "polling" => dma_tx = 0 /\ dma_skip = 0 /\ dma_data = 0
  /\ pc \in {"start", "polling"} => op = "dma"
  /\ asked \in Seq(Seq(Nat))

-----------------------------------------------------------------------------
(* CH32V305.                                                               *)

\* Bytes given to SPI1 and bytes taken from it (or moved by hand).
Dmaing == op = "dma" /\ pc \in {"polling", "bsy", "end"}
Put == Total - (IF Dmaing THEN dma_tx ELSE tx_remain)
Got == Total - (IF Dmaing THEN dma_data ELSE rx_remain)

Quiet == txf = << >> /\ rxf = << >> /\ ~shifting

ChIdle == cs = "high" /\ Quiet /\ spi1

ChAccess ==
  /\ cs = "low" /\ Prefix /\ DstInv(Got)
  /\ Put <= Total
  /\ Len(frame) - 1 + Len(txf) = Put
  /\ Len(frame) - 1 = Got + Num(shifting) + Len(rxf)
  /\ txf # << >> => txf[1] = Byte(Put)
  /\ rxf # << >> => rxf[1] = Got + 1
  /\ spi1 <=> ~bitbang

\* What follows from it (and from the rest) for the numbers.
ChCounted ==
  /\ Total \in Nat /\ Put \in Nat /\ Got \in Nat /\ Put <= Total /\ Got <= Total
  /\ frame \in Seq(Nat) /\ Len(frame) \in Nat /\ Len(frame) >= 1
  /\ Len(txf) \in {0, 1} /\ Len(rxf) \in {0, 1} /\ Num(shifting) \in {0, 1}
  /\ Len(frame) - 1 + Len(txf) = Put
  /\ Len(frame) - 1 = Got + Num(shifting) + Len(rxf)
  /\ (txf = << >> <=> Len(txf) = 0) /\ (rxf = << >> <=> Len(rxf) = 0)
  /\ (~shifting <=> Num(shifting) = 0)
  /\ (txf # << >> => txf = <<Byte(Put)>>) /\ (rxf # << >> => rxf = <<Got + 1>>)

ChInv ==
  /\ eng = "header"
  /\ dma_skip = 0
  /\ pc \in {"idle", "header", "drain", "bits", "put", "get", "start", "polling", "bsy", "end"}
  /\ Len(txf) <= 1 /\ Len(rxf) <= 1
  /\ asked = IF pc = "idle" THEN << >> ELSE <<FrameOf(op, size)>>
  /\ pc = "idle" => ChIdle
  /\ pc = "header" => ChIdle /\ dst = << >>
  /\ pc \notin {"idle", "header"} => ChAccess
  /\ pc # "idle" /\ op = "dma" => ~bitbang
  /\ pc = "bits" => bitbang /\ rx_remain >= 1 /\ tx_remain = rx_remain
  /\ pc \in {"drain", "put", "get", "start", "polling", "bsy"} => ~bitbang
  /\ pc = "drain" => tx_remain = Total /\ rx_remain = Total
  /\ pc \in {"drain", "put"} => tx_remain = rx_remain /\ rx_remain >= 1
  /\ pc = "get" => tx_remain = rx_remain - 1 /\ rx_remain >= 1
  /\ pc \in {"drain", "put", "get"} /\ op = "dma" => rx_remain > size
  /\ pc = "start" => tx_remain = size /\ rx_remain = size
  /\ pc = "polling" => dma_data <= size
  /\ pc \in {"bsy", "end"} => Got = Total
  /\ pc = "end" => Quiet

-----------------------------------------------------------------------------
(* RP2040.                                                                 *)

\* The words of an access in the transmit FIFO: header, count, bytes.
Word(n) == IF n = 1 THEN Header(op) ELSE IF n = 2 THEN Count ELSE Byte(n - 2)

\* Words put into the FIFO and pulled out of it, bytes pushed and taken.
Sent == CASE pc = "header" -> 0
          [] pc = "count" -> 1
          [] pc = "polling" -> 2 + Total - dma_tx
          [] OTHER -> 2 + Total - tx_remain

Pulled == CASE Len(asked) = 2 \/ (Len(asked) = 1 /\ eng = "header") -> 0
            [] Len(asked) = 0 -> 2 + Total
            [] Len(asked) = 1 /\ eng = "count" -> 1
            [] OTHER -> Len(frame) + 1

Pushed == CASE Len(asked) = 2 \/ (Len(asked) = 1 /\ eng \in {"header", "count"}) -> 0
            [] Len(asked) = 0 -> Total
            [] Len(asked) = 1 /\ eng = "push" -> Len(frame) - 2
            [] OTHER -> Len(frame) - 1

Taken == IF pc = "polling"
         THEN IF dma_skip > 0 THEN WaitBytes - dma_skip ELSE Total - dma_data
         ELSE Total - rx_remain

\* Where the PIO is: in the selection of the access before, in that of this one, or
\* through with it.
EngInv ==
  /\ cs = "high" <=> eng = "header"
  /\ pc = "idle" => asked = (IF eng = "end" THEN <<frame>> ELSE << >>) /\ eng \in {"header", "end"}
  /\ pc # "idle" =>
       \/ asked = <<frame, FrameOf(op, size)>> /\ eng = "end"
       \/ /\ asked = <<FrameOf(op, size)>>
          /\ eng # "header" => Prefix
          /\ eng = "count" => Len(frame) = 1
          /\ eng = "byte" => eng_x = Total - Len(frame) /\ Len(frame) <= Total
          /\ eng = "push" => eng_x = Total + 1 - Len(frame) /\ Len(frame) \in 2 .. Total + 1
          /\ eng = "end" => Len(frame) = Total + 1
       \/ asked = << >> /\ eng = "header"

TxRow == Len(txf) = Sent - Pulled /\ \A i \in 1 .. Len(txf) : txf[i] = Word(Pulled + i)
RxRow == Len(rxf) = Pushed - Taken /\ \A i \in 1 .. Len(rxf) : rxf[i] = Taken + i

FifoInv ==
  /\ pc = "idle" => txf = << >> /\ rxf = << >>
  /\ pc # "idle" => TxRow /\ RxRow /\ DstInv(Taken)

\* What follows from it (and from the rest) for the numbers.
RpCounted ==
  /\ Total \in Nat /\ Total >= 3 /\ frame \in Seq(Nat) /\ Len(frame) \in Nat
  /\ Sent \in Nat /\ Sent <= 2 + Total /\ Pulled \in Nat /\ Pulled <= Sent
  /\ Pushed \in Nat /\ Pushed <= Total /\ Taken \in Nat /\ Taken <= Pushed
  /\ Len(asked) \in Nat

RpInv ==
  /\ pc \in {"idle", "header", "count", "put", "get", "start", "polling"}
  /\ EngInv /\ FifoInv
  /\ pc \in {"count", "start"} => tx_remain = Total /\ rx_remain = Total
  /\ pc \in {"put", "get"} => op # "dma"
  /\ pc = "polling" => /\ dma_tx <= Total
                       /\ \/ dma_skip \in 1 .. WaitBytes /\ dma_data = 0
                          \/ dma_skip = 0 /\ dma_data <= size


SpiInv == TypeOK /\ AlwaysInv /\ (Ch32 => ChInv) /\ (~Ch32 => RpInv)

\* The main loop does not come round while the PIO sends a header and two bytes.
Slow == "rp2040" \in Platforms => SlowPoll

-----------------------------------------------------------------------------
(* The frame of an access and its answer.                                  *)

LEMMA SizeIsNat ==
  ASSUME TypeOK
  PROVE  size \in Nat /\ Total \in Nat /\ Kept \in Nat /\ (op = "write" => Total = 4)
                      /\ (op # "write" => Total = size + 2 /\ Kept = size)
  BY SpiAssumption DEF TypeOK, Ops, Total, Kept, WaitBytes

LEMMA SizeOf ==
  ASSUME AlwaysInv, pc # "idle"
  PROVE  size \in Nat /\ size >= 1 /\ (op = "write" => size = 4)
<1>1. (op = "write" /\ size = 4) \/ (op # "write" /\ size \in Sizes)
  BY DEF AlwaysInv
<1>2. \A s \in Sizes : s \in Nat /\ s >= 1  BY SpiAssumption
<1> QED BY <1>1, <1>2

LEMMA Singleton ==
  ASSUME NEW x
  PROVE  Len(<<x>>) = 1 /\ Head(<<x>>) = x /\ Tail(<<x>>) = << >>
OBVIOUS

LEMMA Pair ==
  ASSUME NEW x, NEW y
  PROVE  Append(<<x>>, y) = <<x, y>> /\ Len(<<x, y>>) = 2
<1> DEFINE a == Append(<<x>>, y)
           b == <<x, y>>
<1>1. <<x>> \in Seq({x, y}) /\ Len(<<x>>) = 1 /\ <<x>>[1] = x  OBVIOUS
<1>2. b \in Seq({x, y}) /\ Len(b) = 2 /\ b[1] = x /\ b[2] = y  OBVIOUS
<1> HIDE DEF b
<1>3. a \in Seq({x, y}) /\ Len(a) = 2 /\ a[1] = x /\ a[2] = y
  <2>1. y \in {x, y}  OBVIOUS
  <2>2. /\ a \in Seq({x, y}) /\ Len(a) = Len(<<x>>) + 1
        /\ \A i \in 1 .. Len(<<x>>) : a[i] = <<x>>[i]
        /\ a[Len(<<x>>) + 1] = y
    BY <1>1, <2>1, AppendProperties
  <2> QED BY <1>1, <2>2
<1> HIDE DEF a
<1>4. a = b  BY <1>2, <1>3, SeqEqual
<1> QED BY <1>2, <1>4 DEF a, b

LEMMA FrameShape ==
  ASSUME NEW o \in Ops, NEW s \in Nat, o = "write" => s = 4
  PROVE  /\ FrameOf(o, s) \in Seq(Nat)
         /\ Len(FrameOf(o, s)) = IF o = "write" THEN 5 ELSE s + 3
         /\ FrameOf(o, s)[1] = Header(o)
         /\ \A i \in 2 .. Len(FrameOf(o, s)) :
              FrameOf(o, s)[i] = IF o = "write" THEN i - 1 ELSE 255
<1> DEFINE a == <<Header(o)>>
           b == IF o = "write" THEN <<1, 2, 3, 4>> ELSE [n \in 1 .. s + 2 |-> 255]
<1>1. a \in Seq(Nat) /\ Len(a) = 1 /\ a[1] = Header(o)  BY DEF Header
<1>2. /\ b \in Seq(Nat) /\ Len(b) = IF o = "write" THEN 4 ELSE s + 2
      /\ \A i \in 1 .. Len(b) : b[i] = IF o = "write" THEN i ELSE 255
  <2>1. CASE o = "write"  BY <2>1
  <2>2. CASE o # "write"
    <3>1. b = [n \in 1 .. s + 2 |-> 255]  BY <2>2
    <3> HIDE DEF b
    <3>2. b \in Seq(Nat)  BY <3>1
    <3>3. Len(b) = s + 2  BY <3>1
    <3>4. \A i \in 1 .. Len(b) : b[i] = 255  BY <3>1, <3>3
    <3> QED BY <2>2, <3>2, <3>3, <3>4
  <2> QED BY <2>1, <2>2
<1>3. FrameOf(o, s) = a \o b  BY DEF FrameOf
<1> HIDE DEF a, b
<1>4. /\ a \o b \in Seq(Nat) /\ Len(a \o b) = Len(a) + Len(b)
      /\ \A i \in 1 .. Len(a) + Len(b) : (a \o b)[i] = IF i <= Len(a) THEN a[i] ELSE b[i - Len(a)]
  <2>1. a \in Seq(Nat) /\ b \in Seq(Nat)  BY <1>1, <1>2
  <2> QED BY <2>1, ConcatProperties, Zenon
<1>5. Len(a \o b) = IF o = "write" THEN 5 ELSE s + 3  BY <1>1, <1>2, <1>4
<1>6. (a \o b)[1] = Header(o)  BY <1>1, <1>2, <1>4
<1>7. \A i \in 2 .. Len(a \o b) : (a \o b)[i] = IF o = "write" THEN i - 1 ELSE 255
  <2> TAKE i \in 2 .. Len(a \o b)
  <2>1. i \in 1 .. Len(a) + Len(b) /\ ~(i <= Len(a)) /\ i - 1 \in 1 .. Len(b)
    BY <1>1, <1>2, <1>5
  <2>2. (a \o b)[i] = b[i - 1]  BY <1>1, <1>4, <2>1
  <2> QED BY <2>1, <2>2, <1>2
<1> QED BY <1>3, <1>4, <1>5, <1>6, <1>7

LEMMA FrameComplete ==
  ASSUME TypeOK, op = "write" => size = 4, Prefix, Len(frame) = Total + 1
  PROVE  frame = FrameOf(op, size)
<1> DEFINE f == FrameOf(op, size)
<1>1. op \in Ops /\ size \in Nat /\ frame \in Seq(Nat)  BY SizeIsNat DEF TypeOK
<1>2. /\ f \in Seq(Nat) /\ Len(f) = IF op = "write" THEN 5 ELSE size + 3
      /\ f[1] = Header(op)
      /\ \A i \in 2 .. Len(f) : f[i] = IF op = "write" THEN i - 1 ELSE 255
  BY <1>1, FrameShape
<1> HIDE DEF f
<1>3. Len(frame) = Len(f)  BY <1>2, SizeIsNat
<1>4. \A i \in 1 .. Len(frame) : frame[i] = f[i]
  <2>1. frame[1] = f[1]  BY <1>2 DEF Prefix
  <2>2. ASSUME NEW i \in 2 .. Len(frame)  PROVE frame[i] = f[i]
    <3>1. frame[i] = Byte(i - 1)  BY <2>2 DEF Prefix
    <3>2. f[i] = IF op = "write" THEN i - 1 ELSE 255  BY <1>2, <1>3, <2>2
    <3> QED BY <3>1, <3>2 DEF Byte
  <2>3. \A i \in 1 .. Len(frame) : i = 1 \/ i \in 2 .. Len(frame)  BY <1>1
  <2> QED BY <2>1, <2>2, <2>3
<1>5. frame = f  BY <1>1, <1>2, <1>3, <1>4, SeqEqual
<1> QED BY <1>5 DEF f

LEMMA AnswerComplete ==
  ASSUME TypeOK, op = "write" => size = 4, NEW d \in Seq(Nat), Len(d) = KeptOf(Total),
         \A n \in 1 .. Len(d) : d[n] = n + WaitBytes
  PROVE  d = Result(op, size)
<1>1. size \in Nat /\ Len(d) = IF op = "write" THEN 0 ELSE size
  BY SizeIsNat DEF KeptOf, WaitBytes
<1>2. CASE op = "write"
  <2>1. d = << >>  BY <1>1, <1>2, EmptySeq
  <2> QED BY <2>1, <1>2 DEF Result
<1>3. CASE op # "write"
  <2> DEFINE r == [n \in 1 .. size |-> n + 2]
  <2>1. r \in Seq(Nat) /\ Len(r) = size /\ \A n \in 1 .. size : r[n] = n + 2
    BY <1>1
  <2>2. Result(op, size) = r  BY <1>3 DEF Result
  <2> HIDE DEF r
  <2>3. Len(d) = Len(r) /\ \A n \in 1 .. Len(d) : d[n] = r[n]
    BY <1>1, <1>3, <2>1 DEF WaitBytes
  <2>4. d = r  BY <2>1, <2>3, SeqEqual
  <2> QED BY <2>2, <2>4
<1> QED BY <1>2, <1>3

-----------------------------------------------------------------------------
(* One byte more: in the selection, in the FIFOs, with the caller.         *)

LEMMA FrameGrows ==
  ASSUME Prefix, frame \in Seq(Nat), frame' = Append(frame, Byte(Len(frame))), op' = op
  PROVE  Prefix' /\ frame' \in Seq(Nat) /\ Len(frame') = Len(frame) + 1
<1>1. Len(frame) \in Nat /\ Byte(Len(frame)) \in Nat  BY DEF Byte
<1>2. /\ frame' \in Seq(Nat) /\ Len(frame') = Len(frame) + 1
      /\ \A i \in 1 .. Len(frame) : frame'[i] = frame[i]
      /\ frame'[Len(frame) + 1] = Byte(Len(frame))
  BY <1>1, AppendProperties
<1>3. Len(frame') >= 1 /\ frame'[1] = Header(op')
  BY <1>1, <1>2 DEF Prefix, Header
<1>4. ASSUME NEW i \in 2 .. Len(frame')  PROVE frame'[i] = Byte(i - 1)
  BY <1>1, <1>2, <1>4 DEF Prefix
<1>5. \A i \in 2 .. Len(frame') : frame'[i] = Byte(i - 1)'  BY <1>4 DEF Byte
<1> QED BY <1>2, <1>3, <1>5 DEF Prefix

LEMMA DstGrows ==
  ASSUME TypeOK, NEW r \in Nat, DstInv(r), op # "write", r >= WaitBytes,
         dst' = Append(dst, r + 1)
  PROVE  /\ dst' \in Seq(Nat) /\ Len(dst') = KeptOf(r + 1)
         /\ \A n \in 1 .. Len(dst') : dst'[n] = n + WaitBytes
<1>1. dst \in Seq(Nat) /\ r + 1 \in Nat /\ Len(dst) = r - 2 /\ KeptOf(r + 1) = r - 1
  BY DEF TypeOK, DstInv, KeptOf, WaitBytes
<1>2. /\ dst' \in Seq(Nat) /\ Len(dst') = Len(dst) + 1
      /\ \A i \in 1 .. Len(dst) : dst'[i] = dst[i]
      /\ dst'[Len(dst) + 1] = r + 1
  BY <1>1, AppendProperties
<1>3. ASSUME NEW n \in 1 .. Len(dst')  PROVE dst'[n] = n + WaitBytes
  BY <1>1, <1>2, <1>3 DEF DstInv, WaitBytes
<1> QED BY <1>1, <1>2, <1>3

LEMMA ReceiveKeeps ==
  ASSUME TypeOK, op' = op, size' = size, rx_remain >= 1, rx_remain <= Total,
         DstInv(Total - rx_remain), Receive(Total - rx_remain + 1)
  PROVE  /\ DstInv(Total - rx_remain)' /\ dst' \in Seq(Nat) /\ Len(dst') <= size
         /\ rx_remain' = rx_remain - 1
<1> DEFINE r == Total - rx_remain
<1>1. size \in Nat /\ Total \in Nat /\ Kept \in Nat /\ (op = "write" => Total = 4 /\ Kept = 0)
      /\ (op # "write" => Total = size + 2 /\ Kept = size) /\ rx_remain \in Nat /\ dst \in Seq(Nat)
  BY SizeIsNat DEF TypeOK, Kept
<1>2. r \in Nat /\ Total' = Total /\ rx_remain' = rx_remain - 1 /\ (Total - rx_remain)' = r + 1
  BY <1>1 DEF Receive, Total
<1>3. dst' = IF rx_remain <= Kept THEN Append(dst, r + 1) ELSE dst
  BY DEF Receive
<1>4. CASE rx_remain <= Kept
  <2>1. op # "write" /\ r >= WaitBytes /\ dst' = Append(dst, r + 1)
    BY <1>1, <1>3, <1>4 DEF WaitBytes
  <2>2. DstInv(r)  OBVIOUS
  <2>3. /\ dst' \in Seq(Nat) /\ Len(dst') = KeptOf(r + 1)
        /\ \A n \in 1 .. Len(dst') : dst'[n] = n + WaitBytes
    <3> HIDE DEF r
    <3> QED BY <1>2, <2>1, <2>2, DstGrows
  <2>4. KeptOf(Total - rx_remain)' = KeptOf(r + 1)  BY <1>2 DEF KeptOf
  <2>5. Len(dst') <= size  BY <1>1, <1>2, <1>4, <2>1, <2>3 DEF KeptOf, WaitBytes
  <2> QED BY <1>2, <2>3, <2>4, <2>5 DEF DstInv
<1>5. CASE ~(rx_remain <= Kept)
  <2>1. dst' = dst /\ (op = "write" \/ r + 1 <= 2)  BY <1>1, <1>3, <1>5
  <2>2. Len(dst) = 0  BY <1>1, <1>2, <2>1 DEF DstInv, KeptOf, WaitBytes
  <2> QED BY <1>1, <1>2, <2>1, <2>2 DEF DstInv, KeptOf, WaitBytes
<1> QED BY <1>4, <1>5

LEMMA ChCounts ==
  ASSUME TypeOK, AlwaysInv, ChInv, pc \notin {"idle", "header"}
  PROVE  ChCounted
<1>1. ChAccess  BY DEF ChInv
<1>2. /\ frame \in Seq(Nat) /\ Len(frame) \in Nat /\ Len(frame) >= 1
      /\ Len(txf) \in {0, 1} /\ Len(rxf) \in {0, 1}
      /\ (txf = << >> <=> Len(txf) = 0) /\ (rxf = << >> <=> Len(rxf) = 0)
      /\ txf \in Seq(Nat) /\ rxf \in Seq(Nat)
  <2>1. txf \in Seq(Nat) /\ rxf \in Seq(Nat) /\ frame \in Seq(Nat)
    BY DEF TypeOK
  <2>2. Len(frame) >= 1 /\ Len(txf) <= 1 /\ Len(rxf) <= 1
    BY <1>1 DEF ChAccess, Prefix, ChInv
  <2>3. Len(frame) \in Nat /\ Len(txf) \in Nat /\ Len(rxf) \in Nat  BY <2>1
  <2>4. (txf = << >> <=> Len(txf) = 0) /\ (rxf = << >> <=> Len(rxf) = 0)
    BY <2>1, EmptySeq
  <2>5. Len(txf) \in {0, 1} /\ Len(rxf) \in {0, 1}
    <3>1. \A n \in Nat : n <= 1 => n \in {0, 1}  OBVIOUS
    <3> QED BY <2>2, <2>3, <3>1
  <2> QED BY <2>1, <2>2, <2>3, <2>4, <2>5
<1>3. Num(shifting) \in {0, 1} /\ (~shifting <=> Num(shifting) = 0)  BY DEF Num
<1>4. Put \in Nat /\ Got \in Nat /\ Got <= Total
  <2>1. Put \in Int  BY SizeIsNat DEF Put, TypeOK
  <2>2. Put \in Nat  BY <1>1, <1>2, <2>1 DEF ChAccess
  <2>3. Got \in Nat /\ Got <= Total
    <3>1. /\ Total \in Nat /\ dma_data \in Nat /\ rx_remain \in Nat /\ rx_remain <= Total
      BY SizeIsNat DEF TypeOK, AlwaysInv
    <3>2. dma_data <= Total
      BY SizeIsNat DEF TypeOK, AlwaysInv, ChInv
    <3> QED BY <3>1, <3>2 DEF Got
  <2> QED BY <2>2, <2>3
<1>5. (txf # << >> => txf = <<Byte(Put)>>) /\ (rxf # << >> => rxf = <<Got + 1>>)
  <2>1. ASSUME NEW s \in Seq(Nat), Len(s) = 1 PROVE s = <<s[1]>>
    <3>1. s[1] \in Nat  BY <2>1, ElementOfSeq
    <3>2. <<s[1]>> \in Seq(Nat) /\ Len(<<s[1]>>) = 1 /\ <<s[1]>>[1] = s[1]
      BY <3>1
    <3>3. \A i \in 1 .. Len(s) : s[i] = <<s[1]>>[i]  BY <2>1, <3>2
    <3> QED BY <2>1, <3>2, <3>3, SeqEqual
  <2> QED BY <1>1, <1>2, <2>1 DEF ChAccess
<1> QED BY <1>1, <1>2, <1>3, <1>4, <1>5, SizeIsNat DEF ChAccess, ChCounted

LEMMA ChSendHeader ==
  ASSUME SpiInv, Ch32, SendHeader
  PROVE  SpiInv'
<1>1. ChInv /\ AlwaysInv /\ TypeOK  BY DEF SpiInv
<1>2. Ch32 /\ Ch32' /\ op' = op /\ size' = size /\ pc = "header"
  BY <1>1 DEF Ch32, ChInv, AlwaysInv, TypeOK, SendHeader
<1>3. Total' = Total /\ Total \in Nat /\ Kept \in Nat /\ size \in Nat
      /\ (op = "write" => Total = 4) /\ (op # "write" => Total = size + 2)
  BY <1>1, <1>2, SizeIsNat DEF Total
<1>4. AlwaysInv'
  BY <1>1, <1>2, <1>3 DEF AlwaysInv, ChInv, TypeOK, SendHeader
<1>5. ASSUME pc' \notin {"idle", "header"} PROVE ChAccess'
  <2>1. frame' = <<Header(op)>> /\ Len(frame') = 1 /\ frame'[1] = Header(op)
    BY DEF SendHeader
  <2>2. ChIdle /\ tx_remain = Total /\ rx_remain = Total /\ dst = << >> /\ dma_tx = 0 /\ dma_data = 0
    BY <1>1, <1>2 DEF ChInv, AlwaysInv
  <2>3. Prefix'  BY <1>2, <2>1 DEF Prefix, Header
  <2>4. Got' = 0 /\ Put' = 0
    BY <1>2, <1>3, <2>2 DEF Got, Put, Dmaing, SendHeader
  <2>5. DstInv(Got)'
    BY <1>3, <2>2, <2>4 DEF DstInv, KeptOf, WaitBytes, SendHeader
  <2>6. (spi1 <=> ~bitbang)'  BY Zenon DEF SendHeader
  <2> QED BY <1>3, <2>1, <2>2, <2>3, <2>4, <2>5, <2>6
       DEF ChAccess, ChIdle, Quiet, Num, SendHeader
<1>6. ChInv'
  BY <1>1, <1>2, <1>3, <1>5 DEF ChInv, AlwaysInv, SendHeader
<1>7. TypeOK'
  <2>1. (spi1 \in BOOLEAN)'  BY Zenon DEF SendHeader
  <2>2. (frame \in Seq(Nat))'  BY DEF Header, SendHeader
  <2> QED BY <1>1, <1>2, <2>1, <2>2, SpiAssumption DEF TypeOK, Ch32, SendHeader
<1> QED BY <1>2, <1>4, <1>6, <1>7 DEF SpiInv

LEMMA ChBitbangByte ==
  ASSUME SpiInv, Ch32, BitbangByte
  PROVE  SpiInv'
<1>1. ChInv /\ AlwaysInv /\ TypeOK  BY DEF SpiInv
<1>2. Ch32 /\ Ch32' /\ op' = op /\ size' = size /\ pc = "bits"
  BY <1>1 DEF Ch32, BitbangByte
<1>3. Total' = Total /\ Total \in Nat /\ Kept \in Nat /\ size \in Nat
      /\ (op = "write" => Total = 4) /\ (op # "write" => Total = size + 2)
  BY <1>1, <1>2, SizeIsNat DEF Total
<1>4. AlwaysInv'
  BY <1>1, <1>2, <1>3 DEF AlwaysInv, ChInv, TypeOK, BitbangByte, Receive
<1>5. ASSUME pc' \notin {"idle", "header"} PROVE ChAccess' /\ dst' \in Seq(Nat) /\ Len(dst') <= size
  <2>1. /\ ChAccess /\ bitbang /\ rx_remain >= 1 /\ tx_remain = rx_remain /\ ~Dmaing /\ ~Dmaing'
        /\ ChCounted
    BY <1>1, <1>2, ChCounts DEF ChInv, Dmaing
  <2>2. /\ Got = Total - rx_remain /\ Put = Got /\ Len(frame) = Got + 1
        /\ Len(txf) = 0 /\ Len(rxf) = 0 /\ ~shifting /\ rx_remain <= Total
    <3>1. Got = Total - rx_remain /\ Put = Got  BY <2>1 DEF Got, Put
    <3>2. rx_remain <= Total  BY <1>1, <1>2 DEF AlwaysInv
    <3>3. Len(frame) - 1 + Len(txf) = Put /\ Len(frame) - 1 = Got + Num(shifting) + Len(rxf)
      BY <2>1 DEF ChCounted
    <3> HIDE DEF Got, Put, Num
    <3>4. Len(txf) = 0 /\ Len(rxf) = 0 /\ Num(shifting) = 0 /\ Len(frame) = Got + 1
      BY <2>1, <3>1, <3>3 DEF ChCounted
    <3> QED BY <2>1, <3>1, <3>2, <3>4 DEF ChCounted
  <2>3. txf = << >> /\ rxf = << >> /\ frame \in Seq(Nat)
    BY <2>1, <2>2 DEF ChCounted
  <2>4. Prefix' /\ Len(frame') = Len(frame) + 1
    BY <1>2, <2>1, <2>3, FrameGrows DEF ChAccess, BitbangByte
  <2>5. DstInv(Total - rx_remain)' /\ rx_remain' = rx_remain - 1 /\ dst' \in Seq(Nat) /\ Len(dst') <= size
    <3>1. Receive(Total - rx_remain + 1) /\ DstInv(Total - rx_remain)
      BY <2>1, <2>2 DEF ChAccess, BitbangByte
    <3> QED BY <1>1, <1>2, <2>1, <2>2, <3>1, ReceiveKeeps
  <2>6. tx_remain' = tx_remain - 1 /\ cs' = cs /\ txf' = txf /\ rxf' = rxf /\ shifting' = shifting
        /\ spi1' = spi1 /\ bitbang' = bitbang
    BY DEF BitbangByte, Receive
  <2>7. Got' = Got + 1 /\ Put' = Put + 1 /\ Got' = (Total - rx_remain)' /\ Put' <= Total
    BY <1>1, <1>3, <2>1, <2>2, <2>5, <2>6 DEF Got, Put, TypeOK
  <2>8. DstInv(Got)'  BY <2>5, <2>7 DEF DstInv, KeptOf
  <2>9. ChAccess'
    BY <1>3, <2>1, <2>2, <2>3, <2>4, <2>6, <2>7, <2>8 DEF ChAccess, ChCounted, Num
  <2> QED BY <2>5, <2>9
<1>6. ChInv'
  BY <1>1, <1>2, <1>3, <1>5 DEF ChInv, ChAccess, ChIdle, TypeOK, AlwaysInv, Put, Got, Dmaing,
       Num, Quiet, Ch32, Busy, BitbangByte, Receive
<1>7. TypeOK'
  <2>1. dst' \in Seq(Nat) /\ Len(dst') <= size
    BY <1>2, <1>5 DEF BitbangByte, Receive
  <2>2. (frame \in Seq(Nat) /\ rxf \in Seq(Nat) /\ txf \in Seq(Nat))'
    BY <1>1, <1>2, ChCounts DEF TypeOK, Byte, BitbangByte
  <2>3. (tx_remain \in Nat /\ rx_remain \in Nat)'
    BY <1>1, <1>2 DEF TypeOK, ChInv, BitbangByte, Receive
  <2> QED BY <1>1, <1>2, <1>6, <2>1, <2>2, <2>3 DEF TypeOK, ChInv, BitbangByte, Receive
<1> QED BY <1>2, <1>4, <1>6, <1>7 DEF SpiInv

LEMMA ChDrainRx ==
  ASSUME SpiInv, Ch32, DrainRx
  PROVE  SpiInv'
<1>1. ChInv /\ AlwaysInv /\ TypeOK  BY DEF SpiInv
<1>2. Ch32 /\ Ch32' /\ op' = op /\ size' = size
  BY <1>1 DEF Ch32, ChInv, AlwaysInv, TypeOK, DrainRx
<1>3. Total' = Total /\ Total \in Nat /\ Kept \in Nat /\ size \in Nat
      /\ (op = "write" => Total = 4) /\ (op # "write" => Total = size + 2)
  BY <1>1, <1>2, SizeIsNat DEF Total
<1>4. AlwaysInv'
  BY <1>1, <1>2, <1>3 DEF AlwaysInv, ChInv, TypeOK, DrainRx
<1>5. ASSUME pc' \notin {"idle", "header"} PROVE ChAccess'
  BY <1>1, <1>2, <1>3, <1>5 DEF ChInv, ChAccess, Put, Got, Dmaing, Num, Prefix, DstInv,
       KeptOf, WaitBytes, DrainRx
<1>6. ChInv'
  BY <1>1, <1>2, <1>3, <1>5 DEF ChInv, DrainRx
<1>7. TypeOK'
  BY <1>1, <1>2, <1>3, <1>5, <1>6, SizeIsNat, SpiAssumption DEF TypeOK, DrainRx
<1> QED BY <1>2, <1>4, <1>6, <1>7 DEF SpiInv

LEMMA ChXferPut ==
  ASSUME SpiInv, Ch32, XferPut
  PROVE  SpiInv'
<1>1. ChInv /\ AlwaysInv /\ TypeOK  BY DEF SpiInv
<1>2. Ch32 /\ Ch32' /\ op' = op /\ size' = size
  BY <1>1 DEF Ch32, ChInv, AlwaysInv, TypeOK, XferPut
<1>3. Total' = Total /\ Total \in Nat /\ Kept \in Nat /\ size \in Nat
      /\ (op = "write" => Total = 4) /\ (op # "write" => Total = size + 2)
  BY <1>1, <1>2, SizeIsNat DEF Total
<1>4. AlwaysInv'
  BY <1>1, <1>2, <1>3 DEF AlwaysInv, ChInv, TypeOK, XferPut
<1>5. ASSUME pc' \notin {"idle", "header"} PROVE ChAccess'
  BY <1>1, <1>2, <1>3, <1>5 DEF ChInv, ChAccess, TypeOK, Put, Got, Dmaing, Prefix, DstInv,
       KeptOf, Byte, XferPut
<1>6. ChInv'
  BY <1>1, <1>2, <1>3, <1>5 DEF ChInv, XferPut
<1>7. TypeOK'
  BY <1>1, <1>2, <1>3, <1>5, <1>6, SizeIsNat, SpiAssumption
       DEF TypeOK, ChInv, ChAccess, Byte, XferPut
<1> QED BY <1>2, <1>4, <1>6, <1>7 DEF SpiInv

LEMMA ChXferGet ==
  ASSUME SpiInv, Ch32, XferGet
  PROVE  SpiInv'
<1>1. ChInv /\ AlwaysInv /\ TypeOK  BY DEF SpiInv
<1>2. Ch32 /\ Ch32' /\ op' = op /\ size' = size /\ pc = "get"
  BY <1>1 DEF Ch32, XferGet
<1>3. Total' = Total /\ Total \in Nat /\ Kept \in Nat /\ size \in Nat
      /\ (op = "write" => Total = 4) /\ (op # "write" => Total = size + 2)
  BY <1>1, <1>2, SizeIsNat DEF Total
<1>4. AlwaysInv'
  BY <1>1, <1>2, <1>3 DEF AlwaysInv, ChInv, TypeOK, XferGet, Receive
<1>5. ASSUME pc' \notin {"idle", "header"} PROVE ChAccess' /\ dst' \in Seq(Nat) /\ Len(dst') <= size
  <2>1. ChAccess /\ rx_remain >= 1 /\ tx_remain = rx_remain - 1 /\ ~Dmaing /\ rxf # << >> /\ ChCounted
    BY <1>1, <1>2, ChCounts DEF ChInv, Dmaing, XferGet
  <2>2. /\ Got = Total - rx_remain /\ Put = Got + 1 /\ Len(frame) = Got + 2
        /\ Len(txf) = 0 /\ Len(rxf) = 1 /\ ~shifting /\ rx_remain <= Total
    <3>1. Got = Total - rx_remain /\ Put = Got + 1
      BY <1>1, <1>3, <2>1 DEF Got, Put, TypeOK
    <3> QED BY <1>1, <1>2, <2>1, <3>1 DEF ChCounted, AlwaysInv
  <2>3. txf = << >> /\ rxf = <<Total - rx_remain + 1>> /\ Head(rxf) = Total - rx_remain + 1
    BY <2>1, <2>2 DEF ChCounted
  <2>4. DstInv(Total - rx_remain)' /\ rx_remain' = rx_remain - 1 /\ dst' \in Seq(Nat) /\ Len(dst') <= size
    <3>1. Receive(Total - rx_remain + 1) /\ DstInv(Total - rx_remain)
      BY <2>1, <2>2, <2>3 DEF ChAccess, XferGet
    <3> QED BY <1>1, <1>2, <2>1, <2>2, <3>1, ReceiveKeeps
  <2>5. ~Dmaing'
    <3>1. op = "dma" => rx_remain' >= size
      BY <1>1, <1>2, <1>3, <2>4 DEF ChInv, TypeOK
    <3>2. op = "dma" => rx_remain' # 0
      BY <1>1, <1>2, <1>3, <2>4, <3>1, SizeOf DEF TypeOK
    <3> QED BY <1>2, <3>1, <3>2 DEF Dmaing, XferGet
  <2>6. tx_remain' = tx_remain /\ cs' = cs /\ txf' = txf /\ rxf' = << >> /\ shifting' = shifting
        /\ spi1' = spi1 /\ bitbang' = bitbang /\ frame' = frame
    BY DEF XferGet, Receive
  <2>7. Got' = Got + 1 /\ Put' = Put /\ Got' = (Total - rx_remain)'
    BY <1>1, <1>3, <2>1, <2>2, <2>4, <2>5, <2>6 DEF Got, Put, TypeOK
  <2>8. DstInv(Got)'  BY <2>4, <2>7 DEF DstInv, KeptOf
  <2>9. Prefix'  BY <1>2, <2>1, <2>6 DEF ChAccess, Prefix, Byte, Header
  <2>10. ChAccess'
    BY <1>3, <2>1, <2>2, <2>3, <2>6, <2>7, <2>8, <2>9 DEF ChAccess, ChCounted, Num
  <2> QED BY <2>4, <2>10
<1>6. ChInv'
  BY <1>1, <1>2, <1>3, <1>5 DEF ChInv, ChAccess, ChIdle, TypeOK, AlwaysInv, Put, Got, Dmaing,
       Num, Quiet, Ch32, Busy, XferGet, Receive
<1>7. TypeOK'
  <2>1. dst' \in Seq(Nat) /\ Len(dst') <= size
    BY <1>2, <1>5 DEF XferGet, Receive
  <2>2. (frame \in Seq(Nat) /\ rxf \in Seq(Nat) /\ txf \in Seq(Nat))'
    BY <1>1, <1>2, ChCounts DEF TypeOK, XferGet
  <2>3. (tx_remain \in Nat /\ rx_remain \in Nat)'
    BY <1>1, <1>2 DEF TypeOK, ChInv, XferGet, Receive
  <2> QED BY <1>1, <1>2, <1>6, <2>1, <2>2, <2>3 DEF TypeOK, ChInv, XferGet, Receive
<1> QED BY <1>2, <1>4, <1>6, <1>7 DEF SpiInv

LEMMA ChWaitIdle ==
  ASSUME SpiInv, Ch32, WaitIdle
  PROVE  SpiInv'
<1>1. ChInv /\ AlwaysInv /\ TypeOK  BY DEF SpiInv
<1>2. Ch32 /\ Ch32' /\ op' = op /\ size' = size
  BY <1>1 DEF Ch32, ChInv, AlwaysInv, TypeOK, WaitIdle
<1>3. Total' = Total /\ Total \in Nat /\ Kept \in Nat /\ size \in Nat
      /\ (op = "write" => Total = 4) /\ (op # "write" => Total = size + 2)
  BY <1>1, <1>2, SizeIsNat DEF Total
<1>4. AlwaysInv'
  BY <1>1, <1>2, <1>3 DEF AlwaysInv, ChInv, TypeOK, WaitIdle
<1>5. ASSUME pc' \notin {"idle", "header"} PROVE ChAccess'
  BY <1>1, <1>2, <1>3, <1>5 DEF ChInv, ChAccess, Put, Got, Dmaing, Prefix, DstInv, KeptOf,
       Byte, WaitIdle
<1>6. ChInv'
  BY <1>1, <1>2, <1>3, <1>5 DEF ChInv, ChAccess, Got, Dmaing, Num, Quiet, WaitIdle
<1>7. TypeOK'
  BY <1>1, <1>2, <1>3, <1>5, <1>6, SizeIsNat, SpiAssumption DEF TypeOK, WaitIdle
<1> QED BY <1>2, <1>4, <1>6, <1>7 DEF SpiInv

LEMMA ChFinish ==
  ASSUME SpiInv, Ch32, Finish
  PROVE  SpiInv'
<1>1. ChInv /\ AlwaysInv /\ TypeOK  BY DEF SpiInv
<1>2. Ch32 /\ Ch32' /\ op' = op /\ size' = size
  BY <1>1 DEF Ch32, ChInv, AlwaysInv, TypeOK, Finish, EndTransaction
<1>3. Total' = Total /\ Total \in Nat /\ Kept \in Nat /\ size \in Nat
      /\ (op = "write" => Total = 4) /\ (op # "write" => Total = size + 2)
  BY <1>1, <1>2, SizeIsNat DEF Total
<1>4. AlwaysInv'
  BY <1>1, <1>2, <1>3 DEF AlwaysInv, ChInv, TypeOK, Finish, EndTransaction
<1>5. ASSUME pc' \notin {"idle", "header"} PROVE ChAccess'
  BY <1>1, <1>2, <1>3, <1>5 DEF Finish
<1>6. ChInv'
  BY <1>1, <1>2, <1>3, <1>5 DEF ChInv, ChIdle, Quiet, Finish, EndTransaction
<1>7. TypeOK'
  BY <1>1, <1>2, <1>3, <1>5, <1>6, SizeIsNat, SpiAssumption DEF TypeOK, Finish, EndTransaction
<1> QED BY <1>2, <1>4, <1>6, <1>7 DEF SpiInv

LEMMA ChStartDma ==
  ASSUME SpiInv, Ch32, StartDma
  PROVE  SpiInv'
<1>1. ChInv /\ AlwaysInv /\ TypeOK  BY DEF SpiInv
<1>2. Ch32 /\ Ch32' /\ op' = op /\ size' = size
  BY <1>1 DEF Ch32, ChInv, AlwaysInv, TypeOK, StartDma
<1>3. Total' = Total /\ Total \in Nat /\ Kept \in Nat /\ size \in Nat
      /\ (op = "write" => Total = 4) /\ (op # "write" => Total = size + 2)
  BY <1>1, <1>2, SizeIsNat DEF Total
<1>4. AlwaysInv'
  BY <1>1, <1>2, <1>3 DEF AlwaysInv, ChInv, TypeOK, StartDma
<1>5. ASSUME pc' \notin {"idle", "header"} PROVE ChAccess'
  BY <1>1, <1>2, <1>3, <1>5 DEF ChInv, ChAccess, Put, Got, Dmaing, Prefix, DstInv, KeptOf,
       Byte, StartDma
<1>6. ChInv'
  BY <1>1, <1>2, <1>3, <1>5 DEF ChInv, StartDma
<1>7. TypeOK'
  BY <1>1, <1>2, <1>3, <1>5, <1>6, SizeIsNat, SpiAssumption DEF TypeOK, StartDma
<1> QED BY <1>2, <1>4, <1>6, <1>7 DEF SpiInv

LEMMA ChPollCh32 ==
  ASSUME SpiInv, Ch32, PollCh32
  PROVE  SpiInv'
<1>1. ChInv /\ AlwaysInv /\ TypeOK  BY DEF SpiInv
<1>2. Ch32 /\ Ch32' /\ op' = op /\ size' = size
  BY <1>1 DEF Ch32, ChInv, AlwaysInv, TypeOK, PollCh32
<1>3. Total' = Total /\ Total \in Nat /\ Kept \in Nat /\ size \in Nat
      /\ (op = "write" => Total = 4) /\ (op # "write" => Total = size + 2)
  BY <1>1, <1>2, SizeIsNat DEF Total
<1>4. AlwaysInv'
  BY <1>1, <1>2, <1>3 DEF AlwaysInv, ChInv, TypeOK, ChAccess, Put, Got, Dmaing, Num, PollCh32
<1>5. ASSUME pc' \notin {"idle", "header"} PROVE ChAccess'
  BY <1>1, <1>2, <1>3, <1>5 DEF ChInv, ChAccess, Put, Got, Dmaing, Prefix, DstInv, KeptOf,
       Byte, PollCh32
<1>6. ChInv'
  BY <1>1, <1>2, <1>3, <1>5 DEF ChInv, AlwaysInv, Got, Dmaing, PollCh32
<1>7. TypeOK'
  BY <1>1, <1>2, <1>3, <1>5, <1>6, SizeIsNat, SpiAssumption DEF TypeOK, PollCh32
<1> QED BY <1>2, <1>4, <1>6, <1>7 DEF SpiInv

LEMMA ChSetFrequency ==
  ASSUME SpiInv, Ch32, SetFrequency
  PROVE  SpiInv'
<1>1. ChInv /\ AlwaysInv /\ TypeOK  BY DEF SpiInv
<1>2. Ch32 /\ Ch32' /\ op' = op /\ size' = size
  BY <1>1 DEF Ch32, ChInv, AlwaysInv, TypeOK, SetFrequency
<1>3. Total' = Total /\ Total \in Nat /\ Kept \in Nat /\ size \in Nat
      /\ (op = "write" => Total = 4) /\ (op # "write" => Total = size + 2)
  BY <1>1, <1>2, SizeIsNat DEF Total
<1>4. AlwaysInv'
  BY <1>1, <1>2, <1>3 DEF AlwaysInv, ChInv, TypeOK, SetFrequency
<1>5. ASSUME pc' \notin {"idle", "header"} PROVE ChAccess'
  BY <1>1, <1>2, <1>3, <1>5 DEF SetFrequency
<1>6. ChInv'
  BY <1>1, <1>2, <1>3, <1>5 DEF ChInv, ChIdle, Quiet, SetFrequency
<1>7. TypeOK'
  BY <1>1, <1>2, <1>3, <1>5, <1>6, SizeIsNat, SpiAssumption DEF TypeOK, SetFrequency
<1> QED BY <1>2, <1>4, <1>6, <1>7 DEF SpiInv

LEMMA ChShiftIn ==
  ASSUME SpiInv, Ch32, ShiftIn
  PROVE  SpiInv'
<1>1. ChInv /\ AlwaysInv /\ TypeOK  BY DEF SpiInv
<1>2. Ch32 /\ Ch32' /\ op' = op /\ size' = size /\ pc' = pc
  BY <1>1 DEF Ch32, ChInv, AlwaysInv, TypeOK, ShiftIn
<1>3. Total' = Total /\ Total \in Nat /\ Kept \in Nat /\ size \in Nat
      /\ (op = "write" => Total = 4) /\ (op # "write" => Total = size + 2)
  BY <1>1, <1>2, SizeIsNat DEF Total
<1>4. AlwaysInv'
  BY <1>1, <1>2, <1>3 DEF AlwaysInv, ChInv, TypeOK, ShiftIn
<1>5. ASSUME pc' \notin {"idle", "header"} PROVE ChAccess'
  <2>1. ChAccess /\ ChCounted /\ txf # << >> /\ ~shifting
    BY <1>1, <1>2, <1>5, ChCounts DEF ChInv, ShiftIn
  <2>2. txf = <<Byte(Put)>> /\ Put = Len(frame) /\ Head(txf) = Byte(Len(frame)) /\ Len(txf) = 1
    <3>1. txf = <<Byte(Put)>> /\ Len(txf) \in {0, 1} /\ Len(txf) # 0 /\ Len(frame) - 1 + Len(txf) = Put
          /\ Len(frame) \in Nat
      BY <2>1 DEF ChCounted
    <3>2. Put = Len(frame) /\ Len(txf) = 1  BY <3>1
    <3> QED BY <3>1, <3>2, Singleton
  <2>3. frame' = Append(frame, Byte(Len(frame))) /\ frame \in Seq(Nat)
    BY <2>1, <2>2 DEF ShiftIn, ChCounted
  <2>4. Prefix' /\ Len(frame') = Len(frame) + 1
    BY <1>2, <2>1, <2>3, FrameGrows DEF ChAccess
  <2>5. txf' = << >> /\ rxf' = rxf /\ shifting' = TRUE /\ cs' = cs /\ spi1' = spi1 /\ bitbang' = bitbang
    BY DEF ShiftIn
  <2>6. Put' = Put /\ Got' = Got
    BY <1>2, <1>3 DEF Put, Got, Dmaing, ShiftIn
  <2>7. DstInv(Got)'
    BY <1>2, <2>1, <2>6 DEF ChAccess, DstInv, KeptOf, ShiftIn
  <2>8. (spi1 <=> ~bitbang)'  BY <2>1, <2>5 DEF ChAccess
  <2>9. Len(frame') - 1 = Got' + Num(shifting)' + Len(rxf')
    BY <2>1, <2>4, <2>5, <2>6 DEF ChCounted, Num
  <2>10. Len(txf') = 0 /\ Put' <= Total /\ Len(frame') - 1 + Len(txf') = Put'
    BY <2>1, <2>2, <2>4, <2>5, <2>6 DEF ChCounted
  <2>11. (rxf # << >> => rxf[1] = Got + 1)'  BY <2>1, <2>5, <2>6 DEF ChAccess
  <2> QED BY <1>3, <2>1, <2>4, <2>5, <2>7, <2>8, <2>9, <2>10, <2>11 DEF ChAccess
<1>6. ChInv'
  BY <1>1, <1>2, <1>3, <1>5 DEF ChInv, ChIdle, Got, Dmaing, Quiet, ShiftIn
<1>7. TypeOK'
  BY <1>1, <1>2, <1>3, <1>5, <1>6, SizeIsNat, SpiAssumption DEF TypeOK, ShiftIn
<1> QED BY <1>2, <1>4, <1>6, <1>7 DEF SpiInv

LEMMA ChShiftOut ==
  ASSUME SpiInv, Ch32, ShiftOut
  PROVE  SpiInv'
<1>1. ChInv /\ AlwaysInv /\ TypeOK  BY DEF SpiInv
<1>2. Ch32 /\ Ch32' /\ op' = op /\ size' = size /\ pc' = pc
  BY <1>1 DEF Ch32, ChInv, AlwaysInv, TypeOK, ShiftOut
<1>3. Total' = Total /\ Total \in Nat /\ Kept \in Nat /\ size \in Nat
      /\ (op = "write" => Total = 4) /\ (op # "write" => Total = size + 2)
  BY <1>1, <1>2, SizeIsNat DEF Total
<1>4. AlwaysInv'
  BY <1>1, <1>2, <1>3 DEF AlwaysInv, ChInv, TypeOK, ShiftOut
<1>5. ASSUME pc' \notin {"idle", "header"} PROVE ChAccess'
  BY <1>1, <1>2, <1>3, <1>5 DEF ChInv, ChAccess, TypeOK, Put, Got, Dmaing, Num, Prefix,
       DstInv, KeptOf, Byte, ShiftOut
<1>6. ChInv'
  BY <1>1, <1>2, <1>3, <1>5 DEF ChInv, ChIdle, Got, Dmaing, Quiet, ShiftOut
<1>7. TypeOK'
  <2>1. frame \in Seq(Nat) /\ Len(frame) \in Nat /\ Len(frame) >= 1
    <3>1. pc \notin {"idle", "header"}
      BY <1>1 DEF ChInv, ChIdle, Quiet, ShiftOut
    <3> QED BY <1>1, <3>1, ChCounts DEF ChCounted
  <2>2. rxf' \in Seq(Nat)  BY <2>1 DEF ShiftOut
  <2>3. shifting' \in BOOLEAN  BY DEF ShiftOut
  <2> QED BY <1>1, <1>2, <1>6, <2>2, <2>3 DEF TypeOK, ChInv, ShiftOut
<1> QED BY <1>2, <1>4, <1>6, <1>7 DEF SpiInv

LEMMA ChDmaTx ==
  ASSUME SpiInv, Ch32, DmaTx
  PROVE  SpiInv'
<1>1. ChInv /\ AlwaysInv /\ TypeOK  BY DEF SpiInv
<1>2. Ch32 /\ Ch32' /\ op' = op /\ size' = size /\ pc = "polling" /\ pc' = pc /\ op = "dma"
  BY <1>1 DEF Ch32, ChInv, AlwaysInv, TypeOK, DmaTx
<1>3. Total' = Total /\ Total \in Nat /\ Kept \in Nat /\ size \in Nat
      /\ (op = "write" => Total = 4) /\ (op # "write" => Total = size + 2)
  BY <1>1, <1>2, SizeIsNat DEF Total
<1>4. AlwaysInv'
  BY <1>1, <1>2, <1>3 DEF AlwaysInv, ChInv, TypeOK, DmaTx
<1>5. ASSUME pc' \notin {"idle", "header"} PROVE ChAccess'
  <2>1. ChAccess /\ op = "dma" /\ Dmaing /\ Dmaing' /\ dma_tx >= 1 /\ ChCounted
    BY <1>1, <1>2, ChCounts DEF ChInv, AlwaysInv, Dmaing, TypeOK, DmaTx
  <2>2. txf' = <<255>> /\ txf = << >> BY <1>2 DEF Ch32, DmaTx
  <2>3. Put' = Put + 1 /\ Got' = Got /\ Put + 1 <= Total
    BY <1>1, <1>3, <2>1 DEF Put, Got, TypeOK, DmaTx
  <2>4. DstInv(Got)' /\ Prefix' /\ txf'[1] = Byte(Put)'
    BY <1>2, <2>1, <2>2, <2>3 DEF ChAccess, DstInv, KeptOf, Prefix, Header, Byte, DmaTx
  <2> QED BY <1>1, <1>3, <2>1, <2>2, <2>3, <2>4 DEF ChAccess, ChCounted, Num, TypeOK, DmaTx
<1>6. ChInv'
  BY <1>1, <1>2, <1>3, <1>5 DEF ChInv, DmaTx
<1>7. TypeOK'
  BY <1>1, <1>2, <1>3, <1>5, <1>6, SizeIsNat, SpiAssumption DEF TypeOK, DmaTx
<1> QED BY <1>2, <1>4, <1>6, <1>7 DEF SpiInv

LEMMA ChDmaData ==
  ASSUME SpiInv, Ch32, DmaData
  PROVE  SpiInv'
<1>1. ChInv /\ AlwaysInv /\ TypeOK  BY DEF SpiInv
<1>2. Ch32 /\ Ch32' /\ op' = op /\ size' = size /\ pc = "polling" /\ pc' = pc /\ op = "dma"
  BY <1>1 DEF Ch32, ChInv, AlwaysInv, TypeOK, DmaData
<1>3. Total' = Total /\ Total \in Nat /\ Kept \in Nat /\ size \in Nat
      /\ (op = "write" => Total = 4) /\ (op # "write" => Total = size + 2)
  BY <1>1, <1>2, SizeIsNat DEF Total
<1>4. AlwaysInv'
  BY <1>1, <1>2, <1>3 DEF AlwaysInv, ChInv, TypeOK, DmaData
<1>5. ASSUME pc' \notin {"idle", "header"} PROVE ChAccess' /\ dst' \in Seq(Nat) /\ Len(dst') <= size
  <2>1. /\ ChAccess /\ op = "dma" /\ Dmaing /\ Dmaing' /\ dma_data >= 1 /\ dma_data <= size
        /\ ChCounted /\ rxf # << >>
    BY <1>1, <1>2, ChCounts DEF ChInv, AlwaysInv, Dmaing, TypeOK, DmaData
  <2>2. Got = Total - dma_data /\ Got' = Got + 1 /\ Put' = Put /\ Got \in Nat /\ Got >= WaitBytes
    BY <1>1, <1>3, <2>1, SizeIsNat DEF Put, Got, TypeOK, WaitBytes, DmaData
  <2>3. rxf = <<Got + 1>> /\ Len(rxf) = 1 /\ Head(rxf) = Got + 1 /\ Tail(rxf) = << >>
    BY <2>1, Singleton DEF ChCounted
  <2>4. rxf' = << >> /\ dst' = Append(dst, Got + 1)  BY <2>3 DEF DmaData
  <2>5. /\ dst' \in Seq(Nat) /\ Len(dst') = KeptOf(Got + 1)
        /\ \A n \in 1 .. Len(dst') : dst'[n] = n + WaitBytes
    <3> DEFINE r == Got
    <3>1. r \in Nat /\ DstInv(r) /\ r >= WaitBytes /\ dst' = Append(dst, r + 1)
      BY <2>1, <2>2, <2>4 DEF ChAccess
    <3> HIDE DEF r
    <3>2. /\ dst' \in Seq(Nat) /\ Len(dst') = KeptOf(r + 1)
          /\ \A n \in 1 .. Len(dst') : dst'[n] = n + WaitBytes
      BY <1>1, <2>1, <3>1, DstGrows
    <3> QED BY <3>2 DEF r
  <2>6. DstInv(Got)'  BY <1>2, <2>2, <2>5 DEF DstInv, KeptOf
  <2>7. txf' = txf /\ shifting' = shifting /\ cs' = cs /\ spi1' = spi1 /\ bitbang' = bitbang
        /\ frame' = frame
    BY DEF DmaData
  <2>8. Prefix' /\ (txf # << >> => txf[1] = Byte(Put))'
    BY <1>2, <2>1, <2>2, <2>7 DEF ChAccess, Prefix, Header, Byte
  <2>9. Len(dst') <= size
    BY <1>1, <1>3, <2>1, <2>2, <2>5 DEF KeptOf, WaitBytes, TypeOK
  <2> QED BY <1>3, <2>1, <2>2, <2>3, <2>4, <2>5, <2>6, <2>7, <2>8, <2>9
       DEF ChAccess, ChCounted, Num
<1>6. ChInv'
  <2>1. ChCounted /\ rxf # << >>  BY <1>1, <1>2, ChCounts DEF DmaData
  <2>2. rxf' = << >>  BY <2>1, Singleton DEF ChCounted, DmaData
  <2>3. dma_data' <= size /\ eng' = eng /\ dma_skip' = dma_skip /\ asked' = asked /\ txf' = txf
        /\ bitbang' = bitbang /\ tx_remain' = tx_remain /\ rx_remain' = rx_remain
    BY <1>1, <1>2, <1>3 DEF ChInv, TypeOK, DmaData
  <2> QED BY <1>1, <1>2, <1>3, <1>5, <2>2, <2>3 DEF ChInv
<1>7. TypeOK'
  <2>1. dst' \in Seq(Nat) /\ Len(dst') <= size  BY <1>2, <1>5 DEF DmaData
  <2>2. (frame \in Seq(Nat) /\ rxf \in Seq(Nat) /\ txf \in Seq(Nat))'
    BY <1>1, <1>2, ChCounts DEF ChCounted, TypeOK, Byte, ChInv, ChIdle, Quiet, DmaData
  <2>3. (tx_remain \in Nat /\ rx_remain \in Nat)'
    BY <1>1, <1>2 DEF TypeOK, ChInv, DmaData
  <2> QED BY <1>1, <1>2, <1>6, <2>1, <2>2, <2>3 DEF TypeOK, ChInv, DmaData
<1> QED BY <1>2, <1>4, <1>6, <1>7 DEF SpiInv

-----------------------------------------------------------------------------
(* RP2040.                                                                 *)

LEMMA RpCounts ==
  ASSUME TypeOK, AlwaysInv, RpInv, pc # "idle"
  PROVE  RpCounted
<1>1. Total \in Nat /\ Total >= 3 /\ frame \in Seq(Nat) /\ Len(frame) \in Nat
  BY SizeIsNat, SizeOf DEF TypeOK
<1>2. Sent \in Nat /\ Sent <= 2 + Total
  <2>1. /\ tx_remain \in Nat /\ tx_remain <= Total /\ dma_tx \in Nat
        /\ (pc = "polling" => dma_tx <= Total)
    BY DEF TypeOK, AlwaysInv, RpInv
  <2> QED BY <1>1, <2>1 DEF Sent
<1>3. Taken \in Nat /\ Taken <= Total
  <2>1. /\ rx_remain \in Nat /\ rx_remain <= Total /\ dma_skip \in Nat /\ dma_data \in Nat
        /\ (pc = "polling" => dma_skip <= WaitBytes /\ dma_data <= Total)
    BY <1>1, SizeIsNat DEF TypeOK, AlwaysInv, RpInv, WaitBytes
  <2> QED BY <1>1, <2>1 DEF Taken, WaitBytes
<1>4. Pulled \in Nat /\ Pushed \in Nat /\ Pushed <= Total /\ Len(asked) \in Nat
  <2>1. CASE asked = <<frame, FrameOf(op, size)>> /\ eng = "end"
    <3>1. Len(asked) = 2  BY <2>1
    <3> QED BY <1>1, <3>1 DEF Pulled, Pushed
  <2>2. CASE asked = << >>
    <3>1. Len(asked) = 0  BY <2>2
    <3> QED BY <1>1, <3>1 DEF Pulled, Pushed
  <2>3. CASE asked = <<FrameOf(op, size)>> /\ ~(asked = <<frame, FrameOf(op, size)>> /\ eng = "end")
    <3>1. Len(asked) = 1  BY <2>3
    <3>2. /\ eng # "header" => Prefix
          /\ eng = "count" => Len(frame) = 1
          /\ eng = "byte" => Len(frame) <= Total
          /\ eng = "push" => Len(frame) \in 2 .. Total + 1
          /\ eng = "end" => Len(frame) = Total + 1
          /\ eng \in {"header", "count", "byte", "push", "end"}
      <4>1. asked # << >>  BY <3>1
      <4> QED BY <2>3, <4>1 DEF RpInv, EngInv, TypeOK
    <3> QED BY <1>1, <3>1, <3>2 DEF Pulled, Pushed, Prefix
  <2> QED BY <2>1, <2>2, <2>3 DEF RpInv, EngInv
<1>5. Pulled <= Sent /\ Taken <= Pushed
  <2>1. Len(txf) \in Nat /\ Len(rxf) \in Nat  BY DEF TypeOK
  <2> QED BY <1>2, <1>3, <1>4, <2>1 DEF RpInv, FifoInv, TxRow, RxRow
<1> QED BY <1>1, <1>2, <1>3, <1>4, <1>5 DEF RpCounted

LEMMA WordIsNat ==
  ASSUME TypeOK, AlwaysInv, pc # "idle"
  PROVE  \A n \in Nat : n >= 1 => Word(n) \in Nat
<1>1. Total \in Nat /\ Total >= 3  BY SizeIsNat, SizeOf
<1> QED BY <1>1 DEF Word, Header, Count, Byte

\* The transmit FIFO as it was, with one word more or with one less.
LEMMA TxRowKept ==
  ASSUME TypeOK, AlwaysInv, pc # "idle", RpCounted, TxRow, op' = op, size' = size,
         \/ txf' = txf /\ Sent' = Sent /\ Pulled' = Pulled
         \/ txf' = Append(txf, Word(Sent + 1)) /\ Sent' = Sent + 1 /\ Pulled' = Pulled
         \/ txf # << >> /\ txf' = Tail(txf) /\ Sent' = Sent /\ Pulled' = Pulled + 1
  PROVE  TxRow' /\ txf' \in Seq(Nat)
<1>1. /\ txf \in Seq(Nat) /\ Len(txf) \in Nat /\ Len(txf) = Sent - Pulled /\ Sent \in Nat /\ Pulled \in Nat
      /\ \A i \in 1 .. Len(txf) : txf[i] = Word(Pulled + i)
  BY DEF TypeOK, RpCounted, TxRow
<1>2. op' = op /\ size' = size  OBVIOUS
<1> HIDE DEF Sent, Pulled, Word
<1>4. CASE txf' = txf /\ Sent' = Sent /\ Pulled' = Pulled
  BY <1>1, <1>2, <1>4 DEF TxRow, Word, Header, Count, Byte, Total
<1>5. CASE txf' = Append(txf, Word(Sent + 1)) /\ Sent' = Sent + 1 /\ Pulled' = Pulled
  <2>1. Word(Sent + 1) \in Nat  BY <1>1, WordIsNat
  <2>2. /\ txf' \in Seq(Nat) /\ Len(txf') = Len(txf) + 1
        /\ \A i \in 1 .. Len(txf) : txf'[i] = txf[i]
        /\ txf'[Len(txf) + 1] = Word(Sent + 1)
    BY <1>1, <1>5, <2>1, AppendProperties
  <2>3. ASSUME NEW i \in 1 .. Len(txf')  PROVE txf'[i] = Word(Pulled + i)
    <3>1. CASE i \in 1 .. Len(txf)  BY <1>1, <2>2, <3>1
    <3>2. CASE i = Len(txf) + 1
      <4>1. Pulled + i = Sent + 1  BY <1>1, <3>2
      <4> QED BY <2>2, <3>2, <4>1
    <3> QED BY <1>1, <2>2, <2>3, <3>1, <3>2
  <2> QED BY <1>1, <1>2, <1>5, <2>2, <2>3 DEF TxRow, Word, Header, Count, Byte, Total
<1>6. CASE txf # << >> /\ txf' = Tail(txf) /\ Sent' = Sent /\ Pulled' = Pulled + 1
  <2>1. /\ txf' \in Seq(Nat) /\ Len(txf') = Len(txf) - 1
        /\ \A i \in 1 .. Len(txf') : txf'[i] = txf[i + 1]
    BY <1>1, <1>6, HeadTailProperties
  <2>2. ASSUME NEW i \in 1 .. Len(txf')  PROVE txf'[i] = Word(Pulled' + i)
    <3>1. i + 1 \in 1 .. Len(txf) /\ Pulled + (i + 1) = Pulled' + i
      BY <1>1, <1>6, <2>1
    <3> QED BY <1>1, <2>1, <3>1
  <2> QED BY <1>1, <1>2, <1>6, <2>1, <2>2 DEF TxRow, Word, Header, Count, Byte, Total
<1> QED BY <1>4, <1>5, <1>6

\* The receive FIFO likewise.
LEMMA RxRowKept ==
  ASSUME TypeOK, RpCounted, RxRow,
         \/ rxf' = rxf /\ Pushed' = Pushed /\ Taken' = Taken
         \/ rxf' = Append(rxf, Pushed + 1) /\ Pushed' = Pushed + 1 /\ Taken' = Taken
         \/ rxf # << >> /\ rxf' = Tail(rxf) /\ Pushed' = Pushed /\ Taken' = Taken + 1
  PROVE  RxRow' /\ rxf' \in Seq(Nat)
<1>1. /\ rxf \in Seq(Nat) /\ Len(rxf) \in Nat /\ Len(rxf) = Pushed - Taken /\ Pushed \in Nat /\ Taken \in Nat
      /\ \A i \in 1 .. Len(rxf) : rxf[i] = Taken + i
  BY DEF TypeOK, RpCounted, RxRow
<1> HIDE DEF Pushed, Taken
<1>4. CASE rxf' = rxf /\ Pushed' = Pushed /\ Taken' = Taken
  BY <1>1, <1>4 DEF RxRow
<1>5. CASE rxf' = Append(rxf, Pushed + 1) /\ Pushed' = Pushed + 1 /\ Taken' = Taken
  <2>1. Pushed + 1 \in Nat  BY <1>1
  <2>2. /\ rxf' \in Seq(Nat) /\ Len(rxf') = Len(rxf) + 1
        /\ \A i \in 1 .. Len(rxf) : rxf'[i] = rxf[i]
        /\ rxf'[Len(rxf) + 1] = Pushed + 1
    BY <1>1, <1>5, <2>1, AppendProperties
  <2>3. ASSUME NEW i \in 1 .. Len(rxf')  PROVE rxf'[i] = Taken + i
    <3>1. CASE i \in 1 .. Len(rxf)  BY <1>1, <2>2, <3>1
    <3>2. CASE i = Len(rxf) + 1
      <4>1. Taken + i = Pushed + 1  BY <1>1, <3>2
      <4> QED BY <2>2, <3>2, <4>1
    <3> QED BY <1>1, <2>2, <2>3, <3>1, <3>2
  <2> QED BY <1>1, <1>5, <2>2, <2>3 DEF RxRow
<1>6. CASE rxf # << >> /\ rxf' = Tail(rxf) /\ Pushed' = Pushed /\ Taken' = Taken + 1
  <2>1. /\ rxf' \in Seq(Nat) /\ Len(rxf') = Len(rxf) - 1
        /\ \A i \in 1 .. Len(rxf') : rxf'[i] = rxf[i + 1]
    BY <1>1, <1>6, HeadTailProperties
  <2>2. ASSUME NEW i \in 1 .. Len(rxf')  PROVE rxf'[i] = Taken' + i
    BY <1>1, <1>6, <2>1, <2>2
  <2> QED BY <1>1, <1>6, <2>1, <2>2 DEF RxRow
<1> QED BY <1>4, <1>5, <1>6

LEMMA Heads ==
  ASSUME TypeOK, RpCounted
  PROVE  /\ TxRow /\ txf # << >> => Head(txf) = Word(Pulled + 1) /\ Pulled < Sent
         /\ RxRow /\ rxf # << >> => Head(rxf) = Taken + 1 /\ Taken < Pushed
<1>1. txf \in Seq(Nat) /\ rxf \in Seq(Nat)  BY DEF TypeOK
<1>2. /\ txf # << >> => Len(txf) \in Nat \ {0} /\ Head(txf) = txf[1]
      /\ rxf # << >> => Len(rxf) \in Nat \ {0} /\ Head(rxf) = rxf[1]
  BY <1>1, EmptySeq
<1> HIDE DEF Sent, Pulled, Pushed, Taken
<1> QED BY <1>2 DEF TxRow, RxRow, RpCounted

\* When every byte has been pushed, nothing is left to pull, and of the selection at
\* most its end.
LEMMA AllPushed ==
  ASSUME TypeOK, AlwaysInv, RpInv, pc # "idle", Pushed = Total
  PROVE  /\ txf = << >> /\ Sent = 2 + Total
         /\ asked = (IF eng = "end" THEN <<frame>> ELSE << >>) /\ eng \in {"header", "end"}
<1>1. RpCounted /\ TxRow  BY RpCounts DEF RpInv, FifoInv
<1>2. eng \in {"header", "count", "byte", "push", "end"}  BY DEF TypeOK
<1>3. Pulled = 2 + Total /\ asked = (IF eng = "end" THEN <<frame>> ELSE << >>) /\ eng \in {"header", "end"}
  <2>1. CASE asked = <<frame, FrameOf(op, size)>> /\ eng = "end"
    <3>1. Len(asked) = 2  BY <2>1
    <3>2. Pushed = 0  BY <3>1 DEF Pushed
    <3> QED BY <1>1, <3>2 DEF RpCounted
  <2>2. CASE asked = << >> /\ eng = "header"
    <3>1. Len(asked) = 0  BY <2>2
    <3> QED BY <2>2, <3>1 DEF Pulled
  <2>3. CASE /\ asked = <<FrameOf(op, size)>>
             /\ eng # "header" => Prefix
             /\ eng = "count" => Len(frame) = 1
             /\ eng = "byte" => eng_x = Total - Len(frame) /\ Len(frame) <= Total
             /\ eng = "push" => eng_x = Total + 1 - Len(frame) /\ Len(frame) \in 2 .. Total + 1
             /\ eng = "end" => Len(frame) = Total + 1
    <3>1. Len(asked) = 1  BY <2>3
    <3>2. eng = "end"
      BY <1>1, <1>2, <2>3, <3>1 DEF Pushed, RpCounted
    <3>3. frame = FrameOf(op, size)
      BY <2>3, <3>2, FrameComplete DEF AlwaysInv
    <3>4. Pulled = 2 + Total  BY <1>1, <2>3, <3>1, <3>2 DEF Pulled, RpCounted
    <3> QED BY <2>3, <3>2, <3>3, <3>4
  <2> QED BY <2>1, <2>2, <2>3 DEF RpInv, EngInv
<1>4. Sent = 2 + Total  BY <1>1, <1>3 DEF RpCounted
<1>5. Len(txf) = 0  BY <1>1, <1>3, <1>4 DEF RpCounted, TxRow
<1>6. txf = << >>  BY <1>5, EmptySeq DEF TypeOK
<1> QED BY <1>3, <1>4, <1>6

\* So it is when the caller has taken every byte.
LEMMA AllTaken ==
  ASSUME TypeOK, AlwaysInv, RpInv, pc # "idle", Taken = Total
  PROVE  /\ txf = << >> /\ rxf = << >> /\ Sent = 2 + Total /\ dst = Result(op, size)
         /\ asked = (IF eng = "end" THEN <<frame>> ELSE << >>) /\ eng \in {"header", "end"}
<1>1. RpCounted /\ RxRow /\ DstInv(Taken)  BY RpCounts DEF RpInv, FifoInv
<1>2. Pushed = Total  BY <1>1 DEF RpCounted
<1>3. Len(rxf) = 0  BY <1>1, <1>2 DEF RpCounted, RxRow
<1>4. rxf = << >>  BY <1>3, EmptySeq DEF TypeOK
<1>5. dst = Result(op, size)
  <2>1. /\ op = "write" => size = 4
        /\ dst \in Seq(Nat) /\ Len(dst) = KeptOf(Total) /\ \A n \in 1 .. Len(dst) : dst[n] = n + WaitBytes
    BY <1>1, SizeOf DEF DstInv, KeptOf, TypeOK
  <2> QED BY <2>1, AnswerComplete
<1> QED BY <1>2, <1>4, <1>5, AllPushed

\* While the program is inside a selection, or about to begin one, it is this access's.
LEMMA Selected ==
  ASSUME TypeOK, AlwaysInv, RpInv, pc # "idle",
         eng \in {"count", "byte", "push"} \/ (eng = "header" /\ txf # << >>)
  PROVE  /\ asked = <<FrameOf(op, size)>> /\ Len(asked) = 1
         /\ eng # "header" => Prefix /\ Len(frame) >= 1
         /\ eng = "count" => Len(frame) = 1
         /\ eng = "byte" => eng_x = Total - Len(frame) /\ Len(frame) <= Total
         /\ eng = "push" => eng_x = Total + 1 - Len(frame) /\ Len(frame) \in 2 .. Total + 1
<1>1. RpCounted /\ TxRow  BY RpCounts DEF RpInv, FifoInv
<1>2. CASE asked = << >> /\ eng = "header"
  <2>1. Len(asked) = 0  BY <1>2
  <2>2. Pulled = 2 + Total  BY <2>1 DEF Pulled
  <2>3. Pulled < Sent  BY <1>1, <1>2, Heads
  <2> QED BY <1>1, <2>2, <2>3 DEF RpCounted
<1>3. CASE /\ asked = <<FrameOf(op, size)>>
           /\ eng # "header" => Prefix
           /\ eng = "count" => Len(frame) = 1
           /\ eng = "byte" => eng_x = Total - Len(frame) /\ Len(frame) <= Total
           /\ eng = "push" => eng_x = Total + 1 - Len(frame) /\ Len(frame) \in 2 .. Total + 1
  <2>1. Len(asked) = 1  BY <1>3
  <2> QED BY <1>3, <2>1 DEF Prefix
<1> QED BY <1>2, <1>3 DEF RpInv, EngInv

LEMMA RpPutHeader ==
  ASSUME SpiInv, ~Ch32, PutHeader
  PROVE  SpiInv'
<1>1. RpInv /\ AlwaysInv /\ TypeOK  BY DEF SpiInv
<1>2. ~Ch32 /\ ~Ch32' /\ op' = op /\ size' = size /\ Total' = Total
  BY DEF Ch32, Total, PutHeader
<1>3. pc = "header" /\ pc' = "count"  BY DEF PutHeader
<1>4. RpCounted /\ TxRow /\ RxRow /\ DstInv(Taken)
  BY <1>1, <1>3, RpCounts DEF RpInv, FifoInv
<1>5. size \in Nat /\ size >= 1 /\ (op = "write" => Total = 4) /\ (op # "write" => Total = size + 2)
  BY <1>1, <1>3, SizeIsNat, SizeOf
<1>6. AlwaysInv'
  BY <1>1, <1>2, <1>3, <1>4, <1>5 DEF AlwaysInv, TypeOK, RpCounted, PutHeader
<1>7. EngInv'
  BY <1>1, <1>2, <1>3 DEF RpInv, EngInv, Prefix, Header, Byte, PutHeader
<1>8. Sent' = Sent + 1 /\ Pulled' = Pulled /\ Pushed' = Pushed /\ Taken' = Taken
  <2>1. Sent' = Sent + 1
    BY <1>1, <1>2, <1>3, <1>4, <1>5 DEF Sent, RpInv, AlwaysInv, TypeOK, RpCounted, WaitBytes,
         PutHeader
  <2>2. Pulled' = Pulled
    BY <1>1, <1>2, <1>3, <1>4, <1>5 DEF Pulled, RpInv, AlwaysInv, TypeOK, RpCounted,
         WaitBytes, PutHeader
  <2>3. Pushed' = Pushed
    BY <1>1, <1>2, <1>3, <1>4, <1>5 DEF Pushed, RpInv, AlwaysInv, TypeOK, RpCounted,
         WaitBytes, PutHeader
  <2>4. Taken' = Taken
    BY <1>1, <1>2, <1>3, <1>4, <1>5 DEF Taken, RpInv, AlwaysInv, TypeOK, RpCounted, WaitBytes,
         PutHeader
  <2> QED BY <2>1, <2>2, <2>3, <2>4
<1>9. txf' = Append(txf, Word(Sent + 1))
  BY <1>1, <1>2, <1>3, <1>4, Heads DEF Sent, Word, PutHeader
<1>10. rxf' = rxf
  BY <1>1, <1>2, <1>3, <1>4, Heads DEF Pushed, RpCounted, AlwaysInv, TypeOK, PutHeader
<1>11. TxRow' /\ RxRow' /\ txf' \in Seq(Nat) /\ rxf' \in Seq(Nat)
  BY <1>1, <1>2, <1>3, <1>4, <1>8, <1>9, <1>10, TxRowKept, RxRowKept
<1>12. DstInv(Taken)' /\ dst' \in Seq(Nat) /\ Len(dst') <= size
  BY <1>1, <1>2, <1>4, <1>8 DEF DstInv, KeptOf, TypeOK, PutHeader
<1>13. RpInv'
  BY <1>1, <1>2, <1>3, <1>4, <1>5, <1>7, <1>11, <1>12
       DEF RpInv, FifoInv, AlwaysInv, TypeOK, RpCounted, WaitBytes, PutHeader
<1>14. TypeOK'
  <2>1. Len(txf') <= FifoDepth /\ Len(rxf') <= FifoDepth
    BY <1>1, <1>2 DEF TypeOK, TxRoom, FifoDepth, PutHeader
  <2> QED BY <1>1, <1>2, <1>4, <1>5, <1>11, <1>12, <2>1
       DEF TypeOK, RpCounted, WaitBytes, PutHeader
<1> QED BY <1>2, <1>6, <1>13, <1>14 DEF SpiInv

LEMMA RpPutCount ==
  ASSUME SpiInv, ~Ch32, PutCount
  PROVE  SpiInv'
<1>1. RpInv /\ AlwaysInv /\ TypeOK  BY DEF SpiInv
<1>2. ~Ch32 /\ ~Ch32' /\ op' = op /\ size' = size /\ Total' = Total
  BY DEF Ch32, Total, PutCount
<1>3. pc = "count" /\ pc' \in {"start", "put"} /\ (pc' = "start" <=> op = "dma")
  BY DEF PutCount
<1>4. RpCounted /\ TxRow /\ RxRow /\ DstInv(Taken)
  BY <1>1, <1>3, RpCounts DEF RpInv, FifoInv
<1>5. size \in Nat /\ size >= 1 /\ (op = "write" => Total = 4) /\ (op # "write" => Total = size + 2)
  BY <1>1, <1>3, SizeIsNat, SizeOf
<1>6. AlwaysInv'
  BY <1>1, <1>2, <1>3, <1>4, <1>5 DEF AlwaysInv, TypeOK, RpCounted, PutCount
<1>7. EngInv'
  BY <1>1, <1>2, <1>3 DEF RpInv, EngInv, Prefix, Header, Byte, PutCount
<1>8. Sent' = Sent + 1 /\ Pulled' = Pulled /\ Pushed' = Pushed /\ Taken' = Taken
  <2>1. Sent' = Sent + 1
    BY <1>1, <1>2, <1>3, <1>4, <1>5 DEF Sent, RpInv, AlwaysInv, TypeOK, RpCounted, WaitBytes,
         PutCount
  <2>2. Pulled' = Pulled
    BY <1>1, <1>2, <1>3, <1>4, <1>5 DEF Pulled, RpInv, AlwaysInv, TypeOK, RpCounted,
         WaitBytes, PutCount
  <2>3. Pushed' = Pushed
    BY <1>1, <1>2, <1>3, <1>4, <1>5 DEF Pushed, RpInv, AlwaysInv, TypeOK, RpCounted,
         WaitBytes, PutCount
  <2>4. Taken' = Taken
    BY <1>1, <1>2, <1>3, <1>4, <1>5 DEF Taken, RpInv, AlwaysInv, TypeOK, RpCounted, WaitBytes,
         PutCount
  <2> QED BY <2>1, <2>2, <2>3, <2>4
<1>9. txf' = Append(txf, Word(Sent + 1))
  BY <1>1, <1>2, <1>3, <1>4, Heads DEF Sent, Word, PutCount
<1>10. rxf' = rxf
  BY <1>1, <1>2, <1>3, <1>4, Heads DEF Pushed, RpCounted, AlwaysInv, TypeOK, PutCount
<1>11. TxRow' /\ RxRow' /\ txf' \in Seq(Nat) /\ rxf' \in Seq(Nat)
  BY <1>1, <1>2, <1>3, <1>4, <1>8, <1>9, <1>10, TxRowKept, RxRowKept
<1>12. DstInv(Taken)' /\ dst' \in Seq(Nat) /\ Len(dst') <= size
  BY <1>1, <1>2, <1>4, <1>8 DEF DstInv, KeptOf, TypeOK, PutCount
<1>13. RpInv'
  BY <1>1, <1>2, <1>3, <1>4, <1>5, <1>7, <1>11, <1>12
       DEF RpInv, FifoInv, AlwaysInv, TypeOK, RpCounted, WaitBytes, PutCount
<1>14. TypeOK'
  <2>1. Len(txf') <= FifoDepth /\ Len(rxf') <= FifoDepth
    BY <1>1, <1>2 DEF TypeOK, TxRoom, FifoDepth, PutCount
  <2> QED BY <1>1, <1>2, <1>4, <1>5, <1>11, <1>12, <2>1
       DEF TypeOK, RpCounted, WaitBytes, PutCount
<1> QED BY <1>2, <1>6, <1>13, <1>14 DEF SpiInv

LEMMA RpStartChannels ==
  ASSUME SpiInv, ~Ch32, StartChannels
  PROVE  SpiInv'
<1>1. RpInv /\ AlwaysInv /\ TypeOK  BY DEF SpiInv
<1>2. ~Ch32 /\ ~Ch32' /\ op' = op /\ size' = size /\ Total' = Total
  BY DEF Ch32, Total, StartChannels
<1>3. pc = "start" /\ pc' = "polling"  BY DEF StartChannels
<1>4. RpCounted /\ TxRow /\ RxRow /\ DstInv(Taken)
  BY <1>1, <1>3, RpCounts DEF RpInv, FifoInv
<1>5. size \in Nat /\ size >= 1 /\ (op = "write" => Total = 4) /\ (op # "write" => Total = size + 2)
  BY <1>1, <1>3, SizeIsNat, SizeOf
<1>6. AlwaysInv'
  BY <1>1, <1>2, <1>3, <1>4, <1>5 DEF AlwaysInv, TypeOK, RpCounted, StartChannels
<1>7. EngInv'
  BY <1>1, <1>2, <1>3 DEF RpInv, EngInv, Prefix, Header, Byte, StartChannels
<1>8. Sent' = Sent /\ Pulled' = Pulled /\ Pushed' = Pushed /\ Taken' = Taken
  <2>1. Sent' = Sent
    BY <1>1, <1>2, <1>3, <1>4, <1>5 DEF Sent, RpInv, AlwaysInv, TypeOK, RpCounted, WaitBytes,
         StartChannels
  <2>2. Pulled' = Pulled
    BY <1>1, <1>2, <1>3, <1>4, <1>5 DEF Pulled, RpInv, AlwaysInv, TypeOK, RpCounted,
         WaitBytes, StartChannels
  <2>3. Pushed' = Pushed
    BY <1>1, <1>2, <1>3, <1>4, <1>5 DEF Pushed, RpInv, AlwaysInv, TypeOK, RpCounted,
         WaitBytes, StartChannels
  <2>4. Taken' = Taken
    BY <1>1, <1>2, <1>3, <1>4, <1>5 DEF Taken, RpInv, AlwaysInv, TypeOK, RpCounted, WaitBytes,
         StartChannels
  <2> QED BY <2>1, <2>2, <2>3, <2>4
<1>9. txf' = txf
  BY <1>1, <1>2, <1>3, <1>4, Heads DEF StartChannels
<1>10. rxf' = rxf
  BY <1>1, <1>2, <1>3, <1>4, Heads DEF Pushed, RpCounted, AlwaysInv, TypeOK, StartChannels
<1>11. TxRow' /\ RxRow' /\ txf' \in Seq(Nat) /\ rxf' \in Seq(Nat)
  BY <1>1, <1>2, <1>3, <1>4, <1>8, <1>9, <1>10, TxRowKept, RxRowKept
<1>12. DstInv(Taken)' /\ dst' \in Seq(Nat) /\ Len(dst') <= size
  BY <1>1, <1>2, <1>4, <1>8 DEF DstInv, KeptOf, TypeOK, StartChannels
<1>13. RpInv'
  BY <1>1, <1>2, <1>3, <1>4, <1>5, <1>7, <1>11, <1>12
       DEF RpInv, FifoInv, AlwaysInv, TypeOK, RpCounted, WaitBytes, StartChannels
<1>14. TypeOK'
  <2>1. Len(txf') <= FifoDepth /\ Len(rxf') <= FifoDepth
    BY <1>1, <1>2 DEF TypeOK, TxRoom, FifoDepth, StartChannels
  <2> QED BY <1>1, <1>2, <1>4, <1>5, <1>11, <1>12, <2>1
       DEF TypeOK, RpCounted, WaitBytes, StartChannels
<1> QED BY <1>2, <1>6, <1>13, <1>14 DEF SpiInv

LEMMA RpDmaTx ==
  ASSUME SpiInv, ~Ch32, DmaTx
  PROVE  SpiInv'
<1>1. RpInv /\ AlwaysInv /\ TypeOK  BY DEF SpiInv
<1>2. ~Ch32 /\ ~Ch32' /\ op' = op /\ size' = size /\ Total' = Total
  BY DEF Ch32, Total, DmaTx
<1>3. pc = "polling" /\ pc' = "polling" /\ op = "dma"
  BY <1>1 DEF AlwaysInv, TypeOK, DmaTx
<1>4. RpCounted /\ TxRow /\ RxRow /\ DstInv(Taken)
  BY <1>1, <1>3, RpCounts DEF RpInv, FifoInv
<1>5. size \in Nat /\ size >= 1 /\ (op = "write" => Total = 4) /\ (op # "write" => Total = size + 2)
  BY <1>1, <1>3, SizeIsNat, SizeOf
<1>6. AlwaysInv'
  BY <1>1, <1>2, <1>3, <1>4, <1>5 DEF AlwaysInv, TypeOK, RpCounted, DmaTx
<1>7. EngInv'
  BY <1>1, <1>2, <1>3 DEF RpInv, EngInv, Prefix, Header, Byte, DmaTx
<1>8. Sent' = Sent + 1 /\ Pulled' = Pulled /\ Pushed' = Pushed /\ Taken' = Taken
  <2>1. Sent' = Sent + 1
    <3>1. dma_tx \in Nat /\ dma_tx' = dma_tx - 1 /\ Total \in Nat /\ pc' = "polling"
      BY <1>1, <1>3, <1>4 DEF TypeOK, RpCounted, DmaTx
    <3>2. Sent = 2 + Total - dma_tx /\ Sent' = 2 + Total' - dma_tx'
      BY <1>3, <3>1 DEF Sent
    <3> QED BY <1>2, <3>1, <3>2
  <2>2. Pulled' = Pulled
    BY <1>1, <1>2, <1>3, <1>4, <1>5 DEF Pulled, RpInv, AlwaysInv, TypeOK, RpCounted,
         WaitBytes, DmaTx
  <2>3. Pushed' = Pushed
    BY <1>1, <1>2, <1>3, <1>4, <1>5 DEF Pushed, RpInv, AlwaysInv, TypeOK, RpCounted,
         WaitBytes, DmaTx
  <2>4. Taken' = Taken
    BY <1>1, <1>2, <1>3, <1>4, <1>5 DEF Taken, RpInv, AlwaysInv, TypeOK, RpCounted, WaitBytes,
         DmaTx
  <2> QED BY <2>1, <2>2, <2>3, <2>4
<1>9. txf' = Append(txf, Word(Sent + 1))
  <2>1. dma_tx \in Nat /\ dma_tx <= Total /\ Total \in Nat
    BY <1>1, <1>3, <1>4 DEF TypeOK, RpCounted, RpInv
  <2>2. Sent = 2 + Total - dma_tx  BY <1>3 DEF Sent
  <2>3. Sent + 1 >= 3  BY <2>1, <2>2
  <2>4. Word(Sent + 1) = 255  BY <1>3, <1>4, <2>3 DEF Word, Byte, RpCounted
  <2> QED BY <2>4 DEF DmaTx
<1>10. rxf' = rxf
  BY <1>1, <1>2, <1>3, <1>4, Heads DEF Pushed, RpCounted, AlwaysInv, TypeOK, DmaTx
<1>11. TxRow' /\ RxRow' /\ txf' \in Seq(Nat) /\ rxf' \in Seq(Nat)
  BY <1>1, <1>2, <1>3, <1>4, <1>8, <1>9, <1>10, TxRowKept, RxRowKept
<1>12. DstInv(Taken)' /\ dst' \in Seq(Nat) /\ Len(dst') <= size
  BY <1>1, <1>2, <1>4, <1>8 DEF DstInv, KeptOf, TypeOK, DmaTx
<1>13. RpInv'
  BY <1>1, <1>2, <1>3, <1>4, <1>5, <1>7, <1>11, <1>12
       DEF RpInv, FifoInv, AlwaysInv, TypeOK, RpCounted, WaitBytes, DmaTx
<1>14. TypeOK'
  <2>1. Len(txf') <= FifoDepth /\ Len(rxf') <= FifoDepth
    BY <1>1, <1>2 DEF TypeOK, TxRoom, FifoDepth, DmaTx
  <2> QED BY <1>1, <1>2, <1>4, <1>5, <1>11, <1>12, <2>1 DEF TypeOK, RpCounted, WaitBytes, DmaTx
<1> QED BY <1>2, <1>6, <1>13, <1>14 DEF SpiInv

LEMMA RpDmaSkip ==
  ASSUME SpiInv, ~Ch32, DmaSkip
  PROVE  SpiInv'
<1>1. RpInv /\ AlwaysInv /\ TypeOK  BY DEF SpiInv
<1>2. ~Ch32 /\ ~Ch32' /\ op' = op /\ size' = size /\ Total' = Total
  BY DEF Ch32, Total, DmaSkip
<1>3. pc = "polling" /\ pc' = "polling" /\ op = "dma"
  BY <1>1 DEF AlwaysInv, TypeOK, DmaSkip
<1>4. RpCounted /\ TxRow /\ RxRow /\ DstInv(Taken)
  BY <1>1, <1>3, RpCounts DEF RpInv, FifoInv
<1>5. size \in Nat /\ size >= 1 /\ (op = "write" => Total = 4) /\ (op # "write" => Total = size + 2)
  BY <1>1, <1>3, SizeIsNat, SizeOf
<1>6. AlwaysInv'
  BY <1>1, <1>2, <1>3, <1>4, <1>5 DEF AlwaysInv, TypeOK, RpCounted, DmaSkip
<1>7. EngInv'
  BY <1>1, <1>2, <1>3 DEF RpInv, EngInv, Prefix, Header, Byte, DmaSkip
<1>8. Sent' = Sent /\ Pulled' = Pulled /\ Pushed' = Pushed /\ Taken' = Taken + 1
  <2>1. Sent' = Sent
    BY <1>1, <1>2, <1>3, <1>4, <1>5 DEF Sent, RpInv, AlwaysInv, TypeOK, RpCounted, WaitBytes,
         DmaSkip
  <2>2. Pulled' = Pulled
    BY <1>1, <1>2, <1>3, <1>4, <1>5 DEF Pulled, RpInv, AlwaysInv, TypeOK, RpCounted,
         WaitBytes, DmaSkip
  <2>3. Pushed' = Pushed
    BY <1>1, <1>2, <1>3, <1>4, <1>5 DEF Pushed, RpInv, AlwaysInv, TypeOK, RpCounted,
         WaitBytes, DmaSkip
  <2>4. Taken' = Taken + 1
    BY <1>1, <1>2, <1>3, <1>4, <1>5 DEF Taken, RpInv, AlwaysInv, TypeOK, RpCounted, WaitBytes,
         DmaSkip
  <2> QED BY <2>1, <2>2, <2>3, <2>4
<1>9. txf' = txf
  BY <1>1, <1>2, <1>3, <1>4, Heads DEF DmaSkip
<1>10. rxf # << >> /\ rxf' = Tail(rxf)
  BY <1>1, <1>2, <1>3, <1>4, Heads DEF Pushed, RpCounted, AlwaysInv, TypeOK, DmaSkip
<1>11. TxRow' /\ RxRow' /\ txf' \in Seq(Nat) /\ rxf' \in Seq(Nat)
  BY <1>1, <1>2, <1>3, <1>4, <1>8, <1>9, <1>10, TxRowKept, RxRowKept
<1>12. DstInv(Taken)' /\ dst' \in Seq(Nat) /\ Len(dst') <= size
  <2>1. Taken <= 1 /\ dst' = dst
    BY <1>1, <1>2, <1>3 DEF Taken, RpInv, TypeOK, WaitBytes, DmaSkip
  <2> QED BY <1>1, <1>2, <1>4, <1>8, <2>1 DEF DstInv, KeptOf, TypeOK, WaitBytes, RpCounted
<1>13. RpInv'
  BY <1>1, <1>2, <1>3, <1>4, <1>5, <1>7, <1>11, <1>12
       DEF RpInv, FifoInv, AlwaysInv, TypeOK, RpCounted, WaitBytes, DmaSkip
<1>14. TypeOK'
  <2>1. Len(txf') <= FifoDepth /\ Len(rxf') <= FifoDepth
    BY <1>1, <1>2 DEF TypeOK, TxRoom, FifoDepth, DmaSkip
  <2> QED BY <1>1, <1>2, <1>4, <1>5, <1>11, <1>12, <2>1
       DEF TypeOK, RpCounted, WaitBytes, DmaSkip
<1> QED BY <1>2, <1>6, <1>13, <1>14 DEF SpiInv

LEMMA RpDmaData ==
  ASSUME SpiInv, ~Ch32, DmaData
  PROVE  SpiInv'
<1>1. RpInv /\ AlwaysInv /\ TypeOK  BY DEF SpiInv
<1>2. ~Ch32 /\ ~Ch32' /\ op' = op /\ size' = size /\ Total' = Total
  BY DEF Ch32, Total, DmaData
<1>3. pc = "polling" /\ pc' = "polling" /\ op = "dma"
  BY <1>1 DEF AlwaysInv, TypeOK, DmaData
<1>4. RpCounted /\ TxRow /\ RxRow /\ DstInv(Taken)
  BY <1>1, <1>3, RpCounts DEF RpInv, FifoInv
<1>5. size \in Nat /\ size >= 1 /\ (op = "write" => Total = 4) /\ (op # "write" => Total = size + 2)
  BY <1>1, <1>3, SizeIsNat, SizeOf
<1>6. AlwaysInv'
  BY <1>1, <1>2, <1>3, <1>4, <1>5 DEF AlwaysInv, TypeOK, RpCounted, DmaData
<1>7. EngInv'
  BY <1>1, <1>2, <1>3 DEF RpInv, EngInv, Prefix, Header, Byte, DmaData
<1>8. Sent' = Sent /\ Pulled' = Pulled /\ Pushed' = Pushed /\ Taken' = Taken + 1
  <2>1. Sent' = Sent
    BY <1>1, <1>2, <1>3, <1>4, <1>5 DEF Sent, RpInv, AlwaysInv, TypeOK, RpCounted, WaitBytes,
         DmaData
  <2>2. Pulled' = Pulled
    BY <1>1, <1>2, <1>3, <1>4, <1>5 DEF Pulled, RpInv, AlwaysInv, TypeOK, RpCounted,
         WaitBytes, DmaData
  <2>3. Pushed' = Pushed
    BY <1>1, <1>2, <1>3, <1>4, <1>5 DEF Pushed, RpInv, AlwaysInv, TypeOK, RpCounted,
         WaitBytes, DmaData
  <2>4. Taken' = Taken + 1
    BY <1>1, <1>2, <1>3, <1>4, <1>5 DEF Taken, RpInv, AlwaysInv, TypeOK, RpCounted, WaitBytes,
         DmaData
  <2> QED BY <2>1, <2>2, <2>3, <2>4
<1>9. txf' = txf
  BY <1>1, <1>2, <1>3, <1>4, Heads DEF DmaData
<1>10. rxf # << >> /\ rxf' = Tail(rxf)
  BY <1>1, <1>2, <1>3, <1>4, Heads DEF Pushed, RpCounted, AlwaysInv, TypeOK, DmaData
<1>11. TxRow' /\ RxRow' /\ txf' \in Seq(Nat) /\ rxf' \in Seq(Nat)
  BY <1>1, <1>2, <1>3, <1>4, <1>8, <1>9, <1>10, TxRowKept, RxRowKept
<1>12. DstInv(Taken)' /\ dst' \in Seq(Nat) /\ Len(dst') <= size
  <2>1. Taken >= WaitBytes /\ Taken \in Nat /\ Taken < Total /\ dst' = Append(dst, Taken + 1)
    <3>1. dma_data \in Nat /\ dma_data > 0 /\ dma_data <= size /\ dma_skip = 0
      BY <1>1, <1>3 DEF RpInv, TypeOK, DmaData
    <3>2. Taken = Total - dma_data  BY <1>3, <3>1 DEF Taken
    <3>3. Head(rxf) = Taken + 1  BY <1>1, <1>4, Heads DEF DmaData
    <3> QED BY <1>3, <1>4, <1>5, <3>1, <3>2, <3>3 DEF DmaData, RpCounted, WaitBytes
  <2>2. /\ dst' \in Seq(Nat) /\ Len(dst') = KeptOf(Taken + 1)
        /\ \A n \in 1 .. Len(dst') : dst'[n] = n + WaitBytes
    <3> DEFINE r == Taken
    <3>1. r \in Nat /\ DstInv(r) /\ r >= WaitBytes /\ dst' = Append(dst, r + 1)
      BY <1>4, <2>1
    <3> HIDE DEF r
    <3>2. /\ dst' \in Seq(Nat) /\ Len(dst') = KeptOf(r + 1)
          /\ \A n \in 1 .. Len(dst') : dst'[n] = n + WaitBytes
      BY <1>1, <1>3, <3>1, DstGrows
    <3> QED BY <3>2 DEF r
  <2>3. DstInv(Taken)'  BY <1>2, <1>8, <2>2 DEF DstInv, KeptOf
  <2>4. Len(dst') <= size  BY <1>3, <1>5, <2>1, <2>2 DEF KeptOf, WaitBytes
  <2> QED BY <2>2, <2>3, <2>4
<1>13. RpInv'
  BY <1>1, <1>2, <1>3, <1>4, <1>5, <1>7, <1>11, <1>12
       DEF RpInv, FifoInv, AlwaysInv, TypeOK, RpCounted, WaitBytes, DmaData
<1>14. TypeOK'
  <2>1. Len(txf') <= FifoDepth /\ Len(rxf') <= FifoDepth
    BY <1>1, <1>2 DEF TypeOK, TxRoom, FifoDepth, DmaData
  <2> QED BY <1>1, <1>2, <1>4, <1>5, <1>11, <1>12, <2>1
       DEF TypeOK, RpCounted, WaitBytes, DmaData
<1> QED BY <1>2, <1>6, <1>13, <1>14 DEF SpiInv

LEMMA RpTryPut ==
  ASSUME SpiInv, ~Ch32, TryPut
  PROVE  SpiInv'
<1>1. RpInv /\ AlwaysInv /\ TypeOK  BY DEF SpiInv
<1>2. ~Ch32 /\ ~Ch32' /\ op' = op /\ size' = size /\ Total' = Total
  BY DEF Ch32, Total, TryPut
<1>3. pc = "put" /\ pc' = "get" /\ op # "dma"
  BY <1>1 DEF RpInv, TryPut
<1>4. RpCounted /\ TxRow /\ RxRow /\ DstInv(Taken)
  BY <1>1, <1>3, RpCounts DEF RpInv, FifoInv
<1>5. size \in Nat /\ size >= 1 /\ (op = "write" => Total = 4) /\ (op # "write" => Total = size + 2)
  BY <1>1, <1>3, SizeIsNat, SizeOf
<1>6. AlwaysInv'
  BY <1>1, <1>2, <1>3, <1>4, <1>5 DEF AlwaysInv, TypeOK, RpCounted, TryPut
<1>7. EngInv'
  BY <1>1, <1>2, <1>3 DEF RpInv, EngInv, Prefix, Header, Byte, TryPut
<1>8. \/ txf' = txf /\ tx_remain' = tx_remain
      \/ /\ txf' = Append(txf, Byte(Total - tx_remain + 1)) /\ tx_remain' = tx_remain - 1
         /\ tx_remain > 0 /\ TxRoom
  BY DEF TryPut
<1>9. /\ tx_remain \in Nat /\ Total \in Nat /\ tx_remain <= Total
      /\ Sent = 2 + Total - tx_remain /\ Sent' = 2 + Total - tx_remain'
  BY <1>1, <1>2, <1>3, <1>4 DEF TypeOK, RpCounted, AlwaysInv, Sent
<1>10. Pulled' = Pulled /\ Pushed' = Pushed /\ Taken' = Taken /\ rxf' = rxf
  BY <1>2, <1>3 DEF Pulled, Pushed, Taken, TryPut
<1>11. TxRow' /\ RxRow' /\ txf' \in Seq(Nat) /\ rxf' \in Seq(Nat)
  <2>1. CASE txf' = txf /\ tx_remain' = tx_remain
    <3>1. Sent' = Sent  BY <1>9, <2>1
    <3> QED BY <1>1, <1>2, <1>3, <1>4, <1>10, <2>1, <3>1, TxRowKept, RxRowKept
  <2>2. CASE /\ txf' = Append(txf, Byte(Total - tx_remain + 1)) /\ tx_remain' = tx_remain - 1
             /\ tx_remain > 0
    <3>1. Sent' = Sent + 1 /\ Sent + 1 >= 3 /\ Sent + 1 - 2 = Total - tx_remain + 1
      BY <1>9, <2>2
    <3>2. Word(Sent + 1) = Byte(Total - tx_remain + 1)
      <4> HIDE DEF Byte, Sent
      <4> QED BY <1>4, <3>1 DEF Word, RpCounted
    <3> QED BY <1>1, <1>2, <1>3, <1>4, <1>10, <2>2, <3>1, <3>2, TxRowKept, RxRowKept
  <2> QED BY <1>8, <2>1, <2>2
<1>12. DstInv(Taken)' /\ dst' \in Seq(Nat) /\ Len(dst') <= size
  BY <1>1, <1>2, <1>4, <1>10 DEF DstInv, KeptOf, TypeOK, TryPut
<1>13. RpInv'
  BY <1>1, <1>2, <1>3, <1>4, <1>5, <1>7, <1>11, <1>12
       DEF RpInv, FifoInv, AlwaysInv, TypeOK, RpCounted, WaitBytes, TryPut
<1>14. TypeOK'
  <2>1. Len(txf') <= FifoDepth /\ Len(rxf') <= FifoDepth
    BY <1>1, <1>2 DEF TypeOK, TxRoom, FifoDepth, TryPut
  <2> QED BY <1>1, <1>2, <1>4, <1>5, <1>11, <1>12, <2>1
       DEF TypeOK, RpCounted, WaitBytes, TryPut
<1> QED BY <1>2, <1>6, <1>13, <1>14 DEF SpiInv

LEMMA RpPullHeader ==
  ASSUME SpiInv, ~Ch32, PullHeader
  PROVE  SpiInv'
<1>1. RpInv /\ AlwaysInv /\ TypeOK  BY DEF SpiInv
<1>2. ~Ch32 /\ ~Ch32' /\ op' = op /\ size' = size /\ Total' = Total
  BY DEF Ch32, Total, PullHeader
<1>3. pc # "idle" /\ pc' = pc
  BY <1>1 DEF RpInv, EngInv, FifoInv, PullHeader
<1>4. RpCounted /\ TxRow /\ RxRow /\ DstInv(Taken)
  BY <1>1, <1>3, RpCounts DEF RpInv, FifoInv
<1>5. size \in Nat /\ size >= 1 /\ (op = "write" => Total = 4) /\ (op # "write" => Total = size + 2)
  BY <1>1, <1>3, SizeIsNat, SizeOf
<1>6. AlwaysInv'
  BY <1>1, <1>2, <1>3, <1>4, <1>5 DEF AlwaysInv, TypeOK, RpCounted, PullHeader
<1>7. EngInv'
  <2>1. /\ asked = <<FrameOf(op, size)>> /\ Len(asked) = 1
        /\ (eng # "header" => Prefix /\ Len(frame) >= 1)
        /\ (eng = "count" => Len(frame) = 1)
        /\ (eng = "byte" => eng_x = Total - Len(frame) /\ Len(frame) <= Total)
        /\ (eng = "push" => eng_x = Total + 1 - Len(frame) /\ Len(frame) \in 2 .. Total + 1)
    BY <1>1, <1>3, Selected DEF PullHeader
  <2>2. Pulled = 0  BY <2>1 DEF Pulled, PullHeader
  <2>3. Head(txf) = Word(1)  BY <1>1, <1>4, <2>2, Heads DEF PullHeader
  <2>4. frame' = <<Header(op)>>  BY <2>3 DEF Word, PullHeader
  <2>5. Prefix' /\ Len(frame') = 1  BY <1>2, <2>4 DEF Prefix, Header
  <2> QED BY <1>1, <1>2, <1>3, <2>1, <2>5 DEF RpInv, EngInv, PullHeader
<1>8. Sent' = Sent /\ Pulled' = Pulled + 1 /\ Pushed' = Pushed /\ Taken' = Taken
  <2>1. Sent' = Sent
    BY <1>1, <1>2, <1>3, <1>4, <1>5 DEF Sent, RpInv, AlwaysInv, TypeOK, RpCounted, WaitBytes,
         PullHeader
  <2>2. Pulled' = Pulled + 1
    <3>1. asked = <<FrameOf(op, size)>> /\ Len(asked) = 1 /\ asked' = asked /\ Len(frame) \in Nat
          /\ (eng = "count" => Len(frame) = 1) /\ (eng = "push" => Len(frame) \in 2 .. Total + 1)
      BY <1>1, <1>3, <1>4, Selected DEF RpCounted, PullHeader
    <3> QED BY <1>2, <1>3, <1>7, <3>1 DEF Pulled, PullHeader
  <2>3. Pushed' = Pushed
    <3>1. asked = <<FrameOf(op, size)>> /\ Len(asked) = 1 /\ asked' = asked /\ Len(frame) \in Nat
          /\ (eng = "count" => Len(frame) = 1) /\ (eng = "push" => Len(frame) \in 2 .. Total + 1)
      BY <1>1, <1>3, <1>4, Selected DEF RpCounted, PullHeader
    <3> QED BY <1>2, <1>3, <1>7, <3>1 DEF Pushed, PullHeader
  <2>4. Taken' = Taken
    BY <1>1, <1>2, <1>3, <1>4, <1>5 DEF Taken, RpInv, AlwaysInv, TypeOK, RpCounted, WaitBytes,
         PullHeader
  <2> QED BY <2>1, <2>2, <2>3, <2>4
<1>9. txf # << >> /\ txf' = Tail(txf)
  BY <1>1, <1>2, <1>3, <1>4, Heads DEF PullHeader
<1>10. rxf' = rxf
  BY <1>1, <1>2, <1>3, <1>4, Heads DEF Pushed, RpCounted, AlwaysInv, TypeOK, PullHeader
<1>11. TxRow' /\ RxRow' /\ txf' \in Seq(Nat) /\ rxf' \in Seq(Nat)
  BY <1>1, <1>2, <1>3, <1>4, <1>8, <1>9, <1>10, TxRowKept, RxRowKept
<1>12. DstInv(Taken)' /\ dst' \in Seq(Nat) /\ Len(dst') <= size
  BY <1>1, <1>2, <1>4, <1>8 DEF DstInv, KeptOf, TypeOK, PullHeader
<1>13. RpInv'
  BY <1>1, <1>2, <1>3, <1>4, <1>5, <1>7, <1>11, <1>12
       DEF RpInv, FifoInv, AlwaysInv, TypeOK, RpCounted, WaitBytes, PullHeader
<1>14. TypeOK'
  <2>1. Len(txf') <= FifoDepth /\ Len(rxf') <= FifoDepth
    BY <1>1, <1>2 DEF TypeOK, TxRoom, FifoDepth, PullHeader
  <2> QED BY <1>1, <1>2, <1>4, <1>5, <1>11, <1>12, <2>1
       DEF TypeOK, RpCounted, WaitBytes, PullHeader
<1> QED BY <1>2, <1>6, <1>13, <1>14 DEF SpiInv

LEMMA RpPullCount ==
  ASSUME SpiInv, ~Ch32, PullCount
  PROVE  SpiInv'
<1>1. RpInv /\ AlwaysInv /\ TypeOK  BY DEF SpiInv
<1>2. ~Ch32 /\ ~Ch32' /\ op' = op /\ size' = size /\ Total' = Total
  BY DEF Ch32, Total, PullCount
<1>3. pc # "idle" /\ pc' = pc
  BY <1>1 DEF RpInv, EngInv, FifoInv, PullCount
<1>4. RpCounted /\ TxRow /\ RxRow /\ DstInv(Taken)
  BY <1>1, <1>3, RpCounts DEF RpInv, FifoInv
<1>5. size \in Nat /\ size >= 1 /\ (op = "write" => Total = 4) /\ (op # "write" => Total = size + 2)
  BY <1>1, <1>3, SizeIsNat, SizeOf
<1>6. AlwaysInv'
  BY <1>1, <1>2, <1>3, <1>4, <1>5 DEF AlwaysInv, TypeOK, RpCounted, PullCount
<1>7. EngInv'
  <2>1. /\ asked = <<FrameOf(op, size)>> /\ Len(asked) = 1
        /\ (eng # "header" => Prefix /\ Len(frame) >= 1)
        /\ (eng = "count" => Len(frame) = 1)
        /\ (eng = "byte" => eng_x = Total - Len(frame) /\ Len(frame) <= Total)
        /\ (eng = "push" => eng_x = Total + 1 - Len(frame) /\ Len(frame) \in 2 .. Total + 1)
    BY <1>1, <1>3, Selected DEF PullCount
  <2>2. Pulled = 1  BY <2>1 DEF Pulled, PullCount
  <2>3. Head(txf) = Word(2)  BY <1>1, <1>4, <2>2, Heads DEF PullCount
  <2>4. eng_x' = Total - Len(frame) /\ Len(frame) <= Total /\ Prefix'
    <3>1. Word(2) = Total - 1 /\ Total \in Nat /\ Total >= 3
      BY <1>4 DEF Word, Count, RpCounted
    <3>2. eng_x' = Total - 1 /\ Len(frame) = 1
      BY <2>1, <2>3, <3>1 DEF PullCount
    <3>3. Prefix'  BY <1>2, <2>1 DEF Prefix, Header, Byte, PullCount
    <3> QED BY <3>1, <3>2, <3>3
  <2> QED BY <1>1, <1>2, <1>3, <2>1, <2>4 DEF RpInv, EngInv, PullCount
<1>8. Sent' = Sent /\ Pulled' = Pulled + 1 /\ Pushed' = Pushed /\ Taken' = Taken
  <2>1. Sent' = Sent
    BY <1>1, <1>2, <1>3, <1>4, <1>5 DEF Sent, RpInv, AlwaysInv, TypeOK, RpCounted, WaitBytes,
         PullCount
  <2>2. Pulled' = Pulled + 1
    <3>1. asked = <<FrameOf(op, size)>> /\ Len(asked) = 1 /\ asked' = asked /\ Len(frame) = 1
          /\ frame' = frame /\ eng = "count" /\ eng' = "byte"
      BY <1>1, <1>3, <1>4, Selected DEF PullCount
    <3>2. Len(asked) = 1 /\ Len(asked') = 1 /\ Len(frame') = 1 /\ eng = "count" /\ eng' = "byte"
      BY <3>1
    <3>3. Pulled = 1  BY <3>2 DEF Pulled
    <3>4. Pulled' = 2  BY <3>2 DEF Pulled
    <3> QED BY <3>3, <3>4
  <2>3. Pushed' = Pushed
    <3>1. asked = <<FrameOf(op, size)>> /\ Len(asked) = 1 /\ asked' = asked /\ Len(frame) \in Nat
          /\ (eng = "count" => Len(frame) = 1) /\ (eng = "push" => Len(frame) \in 2 .. Total + 1)
      BY <1>1, <1>3, <1>4, Selected DEF RpCounted, PullCount
    <3> QED BY <1>2, <1>3, <1>7, <3>1 DEF Pushed, PullCount
  <2>4. Taken' = Taken
    BY <1>1, <1>2, <1>3, <1>4, <1>5 DEF Taken, RpInv, AlwaysInv, TypeOK, RpCounted, WaitBytes,
         PullCount
  <2> QED BY <2>1, <2>2, <2>3, <2>4
<1>9. txf # << >> /\ txf' = Tail(txf)
  BY <1>1, <1>2, <1>3, <1>4, Heads DEF PullCount
<1>10. rxf' = rxf
  BY <1>1, <1>2, <1>3, <1>4, Heads DEF Pushed, RpCounted, AlwaysInv, TypeOK, PullCount
<1>11. TxRow' /\ RxRow' /\ txf' \in Seq(Nat) /\ rxf' \in Seq(Nat)
  BY <1>1, <1>2, <1>3, <1>4, <1>8, <1>9, <1>10, TxRowKept, RxRowKept
<1>12. DstInv(Taken)' /\ dst' \in Seq(Nat) /\ Len(dst') <= size
  BY <1>1, <1>2, <1>4, <1>8 DEF DstInv, KeptOf, TypeOK, PullCount
<1>13. RpInv'
  BY <1>1, <1>2, <1>3, <1>4, <1>5, <1>7, <1>11, <1>12
       DEF RpInv, FifoInv, AlwaysInv, TypeOK, RpCounted, WaitBytes, PullCount
<1>14. TypeOK'
  <2>1. Len(txf') <= FifoDepth /\ Len(rxf') <= FifoDepth
    BY <1>1, <1>2 DEF TypeOK, TxRoom, FifoDepth, PullCount
  <2> QED BY <1>1, <1>2, <1>4, <1>5, <1>11, <1>12, <2>1
       DEF TypeOK, RpCounted, WaitBytes, PullCount
<1> QED BY <1>2, <1>6, <1>13, <1>14 DEF SpiInv

LEMMA RpPullByte ==
  ASSUME SpiInv, ~Ch32, PullByte
  PROVE  SpiInv'
<1>1. RpInv /\ AlwaysInv /\ TypeOK  BY DEF SpiInv
<1>2. ~Ch32 /\ ~Ch32' /\ op' = op /\ size' = size /\ Total' = Total
  BY DEF Ch32, Total, PullByte
<1>3. pc # "idle" /\ pc' = pc
  BY <1>1 DEF RpInv, EngInv, FifoInv, PullByte
<1>4. RpCounted /\ TxRow /\ RxRow /\ DstInv(Taken)
  BY <1>1, <1>3, RpCounts DEF RpInv, FifoInv
<1>5. size \in Nat /\ size >= 1 /\ (op = "write" => Total = 4) /\ (op # "write" => Total = size + 2)
  BY <1>1, <1>3, SizeIsNat, SizeOf
<1>6. AlwaysInv'
  BY <1>1, <1>2, <1>3, <1>4, <1>5 DEF AlwaysInv, TypeOK, RpCounted, PullByte
<1>7. EngInv' /\ frame' \in Seq(Nat) /\ Len(frame') = Len(frame) + 1
  <2>1. /\ asked = <<FrameOf(op, size)>> /\ Len(asked) = 1
        /\ (eng # "header" => Prefix /\ Len(frame) >= 1)
        /\ (eng = "count" => Len(frame) = 1)
        /\ (eng = "byte" => eng_x = Total - Len(frame) /\ Len(frame) <= Total)
        /\ (eng = "push" => eng_x = Total + 1 - Len(frame) /\ Len(frame) \in 2 .. Total + 1)
    BY <1>1, <1>3, Selected DEF PullByte
  <2>2. Pulled = Len(frame) + 1 /\ Len(frame) \in Nat /\ frame \in Seq(Nat) /\ Len(frame) >= 1
    BY <1>4, <2>1 DEF Pulled, RpCounted, PullByte
  <2>3. Head(txf) = Word(Len(frame) + 2)
    <3>1. Head(txf) = Word(Pulled + 1)  BY <1>1, <1>4, Heads DEF PullByte
    <3>2. Pulled + 1 = Len(frame) + 2  BY <2>2
    <3> QED BY <3>1, <3>2
  <2>4. Word(Len(frame) + 2) = Byte(Len(frame))
    <3>1. Len(frame) + 2 # 1 /\ Len(frame) + 2 # 2 /\ Len(frame) + 2 - 2 = Len(frame)
      BY <2>2
    <3> HIDE DEF Byte
    <3> QED BY <3>1 DEF Word
  <2>5. frame' = Append(frame, Byte(Len(frame)))  BY <2>3, <2>4 DEF PullByte
  <2>6. Prefix' /\ frame' \in Seq(Nat) /\ Len(frame') = Len(frame) + 1
    BY <1>2, <2>1, <2>2, <2>5, FrameGrows DEF PullByte
  <2>7. Len(frame') \in 2 .. Total + 1 /\ eng_x' = Total + 1 - Len(frame')
    BY <1>4, <2>1, <2>2, <2>6 DEF RpCounted, PullByte
  <2>8. (EngInv /\ frame \in Seq(Nat))'
    BY <1>1, <1>2, <1>3, <2>1, <2>6, <2>7 DEF RpInv, EngInv, PullByte
  <2> QED BY <2>6, <2>8
<1>8. Sent' = Sent /\ Pulled' = Pulled + 1 /\ Pushed' = Pushed /\ Taken' = Taken
  <2>1. Sent' = Sent
    BY <1>1, <1>2, <1>3, <1>4, <1>5 DEF Sent, RpInv, AlwaysInv, TypeOK, RpCounted, WaitBytes,
         PullByte
  <2>2. Pulled' = Pulled + 1
    <3>1. asked = <<FrameOf(op, size)>> /\ Len(asked) = 1 /\ asked' = asked /\ Len(frame) \in Nat
          /\ (eng = "count" => Len(frame) = 1) /\ (eng = "push" => Len(frame) \in 2 .. Total + 1)
      BY <1>1, <1>3, <1>4, Selected DEF RpCounted, PullByte
    <3> QED BY <1>2, <1>3, <1>7, <3>1 DEF Pulled, PullByte
  <2>3. Pushed' = Pushed
    <3>1. asked = <<FrameOf(op, size)>> /\ Len(asked) = 1 /\ asked' = asked /\ Len(frame) \in Nat
          /\ (eng = "count" => Len(frame) = 1) /\ (eng = "push" => Len(frame) \in 2 .. Total + 1)
      BY <1>1, <1>3, <1>4, Selected DEF RpCounted, PullByte
    <3> QED BY <1>2, <1>3, <1>7, <3>1 DEF Pushed, PullByte
  <2>4. Taken' = Taken
    BY <1>1, <1>2, <1>3, <1>4, <1>5 DEF Taken, RpInv, AlwaysInv, TypeOK, RpCounted, WaitBytes,
         PullByte
  <2> QED BY <2>1, <2>2, <2>3, <2>4
<1>9. txf # << >> /\ txf' = Tail(txf)
  BY <1>1, <1>2, <1>3, <1>4, Heads DEF PullByte
<1>10. rxf' = rxf
  BY <1>1, <1>2, <1>3, <1>4, Heads DEF Pushed, RpCounted, AlwaysInv, TypeOK, PullByte
<1>11. TxRow' /\ RxRow' /\ txf' \in Seq(Nat) /\ rxf' \in Seq(Nat)
  BY <1>1, <1>2, <1>3, <1>4, <1>8, <1>9, <1>10, TxRowKept, RxRowKept
<1>12. DstInv(Taken)' /\ dst' \in Seq(Nat) /\ Len(dst') <= size
  BY <1>1, <1>2, <1>4, <1>8 DEF DstInv, KeptOf, TypeOK, PullByte
<1>13. RpInv'
  BY <1>1, <1>2, <1>3, <1>4, <1>5, <1>7, <1>11, <1>12
       DEF RpInv, FifoInv, AlwaysInv, TypeOK, RpCounted, WaitBytes, PullByte
<1>14. TypeOK'
  <2>1. Len(txf') <= FifoDepth /\ Len(rxf') <= FifoDepth
    BY <1>1, <1>2 DEF TypeOK, TxRoom, FifoDepth, PullByte
  <2> QED BY <1>1, <1>2, <1>4, <1>5, <1>11, <1>12, <2>1
       DEF TypeOK, RpCounted, WaitBytes, PullByte
<1> QED BY <1>2, <1>6, <1>13, <1>14 DEF SpiInv

LEMMA RpPushByte ==
  ASSUME SpiInv, ~Ch32, PushByte
  PROVE  SpiInv'
<1>1. RpInv /\ AlwaysInv /\ TypeOK  BY DEF SpiInv
<1>2. ~Ch32 /\ ~Ch32' /\ op' = op /\ size' = size /\ Total' = Total
  BY DEF Ch32, Total, PushByte
<1>3. pc # "idle" /\ pc' = pc
  BY <1>1 DEF RpInv, EngInv, FifoInv, PushByte
<1>4. RpCounted /\ TxRow /\ RxRow /\ DstInv(Taken)
  BY <1>1, <1>3, RpCounts DEF RpInv, FifoInv
<1>5. size \in Nat /\ size >= 1 /\ (op = "write" => Total = 4) /\ (op # "write" => Total = size + 2)
  BY <1>1, <1>3, SizeIsNat, SizeOf
<1>6. AlwaysInv'
  BY <1>1, <1>2, <1>3, <1>4, <1>5 DEF AlwaysInv, TypeOK, RpCounted, PushByte
<1>7. EngInv'
  <2>1. /\ asked = <<FrameOf(op, size)>> /\ Len(asked) = 1
        /\ (eng # "header" => Prefix /\ Len(frame) >= 1)
        /\ (eng = "count" => Len(frame) = 1)
        /\ (eng = "byte" => eng_x = Total - Len(frame) /\ Len(frame) <= Total)
        /\ (eng = "push" => eng_x = Total + 1 - Len(frame) /\ Len(frame) \in 2 .. Total + 1)
    BY <1>1, <1>3, Selected DEF PushByte
  <2>2. eng_x' = eng_x \/ eng_x' = eng_x - 1
    BY DEF PushByte
  <2> QED BY <1>1, <1>2, <1>3, <1>4, <2>1 DEF RpInv, EngInv, RpCounted, Prefix, Header, Byte,
       PushByte
<1>8. Sent' = Sent /\ Pulled' = Pulled /\ Pushed' = Pushed + 1 /\ Taken' = Taken
  <2>1. Sent' = Sent
    BY <1>1, <1>2, <1>3, <1>4, <1>5 DEF Sent, RpInv, AlwaysInv, TypeOK, RpCounted, WaitBytes,
         PushByte
  <2>2. Pulled' = Pulled
    <3>1. asked = <<FrameOf(op, size)>> /\ Len(asked) = 1 /\ asked' = asked /\ Len(frame) \in Nat
          /\ (eng = "count" => Len(frame) = 1) /\ (eng = "push" => Len(frame) \in 2 .. Total + 1)
      BY <1>1, <1>3, <1>4, Selected DEF RpCounted, PushByte
    <3> QED BY <1>2, <1>3, <1>7, <3>1 DEF Pulled, PushByte
  <2>3. Pushed' = Pushed + 1
    <3>1. asked = <<FrameOf(op, size)>> /\ Len(asked) = 1 /\ asked' = asked /\ Len(frame) \in Nat
          /\ (eng = "count" => Len(frame) = 1) /\ (eng = "push" => Len(frame) \in 2 .. Total + 1)
      BY <1>1, <1>3, <1>4, Selected DEF RpCounted, PushByte
    <3> QED BY <1>2, <1>3, <1>7, <3>1 DEF Pushed, PushByte
  <2>4. Taken' = Taken
    BY <1>1, <1>2, <1>3, <1>4, <1>5 DEF Taken, RpInv, AlwaysInv, TypeOK, RpCounted, WaitBytes,
         PushByte
  <2> QED BY <2>1, <2>2, <2>3, <2>4
<1>9. txf' = txf
  BY <1>1, <1>2, <1>3, <1>4, Heads DEF PushByte
<1>10. rxf' = Append(rxf, Pushed + 1)
  <2>1. Len(asked) = 1 /\ Len(frame) \in Nat
    BY <1>1, <1>3, <1>4, Selected DEF RpCounted, PushByte
  <2>2. Pushed + 1 = Len(frame) - 1  BY <2>1 DEF Pushed, PushByte
  <2> QED BY <2>2 DEF PushByte

<1>11. TxRow' /\ RxRow' /\ txf' \in Seq(Nat) /\ rxf' \in Seq(Nat)
  BY <1>1, <1>2, <1>3, <1>4, <1>8, <1>9, <1>10, TxRowKept, RxRowKept
<1>12. DstInv(Taken)' /\ dst' \in Seq(Nat) /\ Len(dst') <= size
  BY <1>1, <1>2, <1>4, <1>8 DEF DstInv, KeptOf, TypeOK, PushByte
<1>13. RpInv'
  BY <1>1, <1>2, <1>3, <1>4, <1>5, <1>7, <1>11, <1>12
       DEF RpInv, FifoInv, AlwaysInv, TypeOK, RpCounted, WaitBytes, PushByte
<1>14. TypeOK'
  <2>1. Len(txf') <= FifoDepth /\ Len(rxf') <= FifoDepth
    BY <1>1, <1>2 DEF TypeOK, TxRoom, FifoDepth, PushByte
  <2> QED BY <1>1, <1>2, <1>4, <1>5, <1>11, <1>12, <2>1
       DEF TypeOK, RpCounted, WaitBytes, PushByte
<1> QED BY <1>2, <1>6, <1>13, <1>14 DEF SpiInv

LEMMA RpDeselect ==
  ASSUME SpiInv, ~Ch32, Deselect
  PROVE  SpiInv'
<1>1. RpInv /\ AlwaysInv /\ TypeOK  BY DEF SpiInv
<1>2. /\ ~Ch32 /\ ~Ch32' /\ op' = op /\ size' = size /\ Total' = Total /\ pc' = pc
      /\ eng = "end" /\ eng' = "header" /\ cs' = "high" /\ asked' = Tail(asked) /\ frame' = frame
      /\ txf' = txf /\ rxf' = rxf /\ dst' = dst
  BY DEF Ch32, Total, Deselect
<1>3. CASE pc = "idle"
  <2>1. asked = <<frame>>  BY <1>1, <1>2, <1>3 DEF RpInv, EngInv
  <2>2. asked' = << >> /\ Len(asked') = 0  BY <1>2, <2>1, Singleton
  <2>3. AlwaysInv'
    <3>1. asked' \in Seq(Seq(Nat))  BY <2>2, EmptySeq
    <3> QED BY <1>1, <1>2, <1>3, <3>1 DEF AlwaysInv, Deselect
  <2>4. EngInv'  BY <1>2, <1>3, <2>2 DEF EngInv
  <2>5. RpInv'  BY <1>1, <1>2, <1>3, <2>4 DEF RpInv, FifoInv, Deselect
  <2>6. TypeOK'  BY <1>1, <1>2, <2>2 DEF TypeOK, Deselect
  <2> QED BY <1>2, <2>3, <2>5, <2>6 DEF SpiInv
<1>4. CASE pc # "idle"
  <2>1. RpCounted /\ TxRow /\ RxRow /\ DstInv(Taken)
    BY <1>1, <1>4, RpCounts DEF RpInv, FifoInv
  <2> DEFINE f == FrameOf(op, size)
  <2>2. \/ asked' = <<f>> /\ Len(asked') = 1 /\ Len(asked) = 2
        \/ asked' = << >> /\ Len(asked') = 0 /\ Len(asked) = 1 /\ Len(frame) = Total + 1
    <3>1. CASE asked = <<frame, f>>
      <4> HIDE DEF f
      <4>1. Len(asked) = 2 /\ Tail(asked) = <<f>> /\ Len(<<f>>) = 1  BY <3>1
      <4> QED BY <1>2, <4>1
    <3>2. CASE asked = <<f>> /\ Len(frame) = Total + 1
      <4> HIDE DEF f
      <4>1. Len(asked) = 1 /\ Tail(asked) = << >> /\ Len(<< >>) = 0
        BY <3>2, Singleton
      <4> QED BY <1>2, <3>2, <4>1
    <3> QED BY <1>1, <1>2, <1>4, <3>1, <3>2 DEF RpInv, EngInv
  <2>3. f \in Seq(Nat)
    BY <1>1, <1>4, SizeOf, FrameShape DEF TypeOK
  <2>4. AlwaysInv'
    <3>1. asked' \in Seq(Seq(Nat))
      <4> HIDE DEF f
      <4>1. << >> \in Seq(Seq(Nat))  BY EmptySeq
      <4>2. <<f>> \in Seq(Seq(Nat))  BY <2>3
      <4> QED BY <2>2, <4>1, <4>2
    <3> QED BY <1>1, <1>2, <1>4, <3>1 DEF AlwaysInv, Deselect
  <2>5. EngInv'
    <3>1. asked' = <<FrameOf(op', size')>> \/ asked' = << >>  BY <1>2, <2>2
    <3> QED BY <1>2, <1>4, <3>1 DEF EngInv
  <2> HIDE DEF f
  <2>6. Sent' = Sent /\ Taken' = Taken  BY <1>2 DEF Sent, Taken, Deselect
  <2>7. Pulled' = Pulled /\ Pushed' = Pushed
    <3>1. Total \in Nat /\ Len(frame) \in Nat  BY <2>1 DEF RpCounted
    <3>2. CASE Len(asked') = 1 /\ Len(asked) = 2
      BY <1>2, <3>2 DEF Pulled, Pushed
    <3>3. CASE Len(asked') = 0 /\ Len(asked) = 1 /\ Len(frame) = Total + 1
      <4>1. Pulled = Len(frame) + 1 /\ Pushed = Len(frame) - 1
        BY <1>2, <3>3 DEF Pulled, Pushed
      <4>2. Pulled' = 2 + Total /\ Pushed' = Total
        BY <1>2, <3>3 DEF Pulled, Pushed
      <4> QED BY <3>1, <3>3, <4>1, <4>2
    <3> QED BY <2>2, <3>2, <3>3
  <2>8. TxRow' /\ RxRow' /\ DstInv(Taken)'
    BY <1>1, <1>2, <1>4, <2>1, <2>6, <2>7, TxRowKept, RxRowKept DEF DstInv, KeptOf
  <2>9. RpInv'  BY <1>1, <1>2, <1>4, <2>5, <2>8 DEF RpInv, FifoInv, Deselect
  <2>10. TypeOK'  BY <1>1, <1>2, <2>2 DEF TypeOK, Deselect
  <2> QED BY <1>2, <2>4, <2>9, <2>10 DEF SpiInv
<1> QED BY <1>3, <1>4

LEMMA RpTryGet ==
  ASSUME SpiInv, ~Ch32, TryGet
  PROVE  SpiInv' /\ (pc' = "idle" => dst' = Result(op, size))
<1>1. RpInv /\ AlwaysInv /\ TypeOK  BY DEF SpiInv
<1>2. /\ ~Ch32 /\ ~Ch32' /\ op' = op /\ size' = size /\ Total' = Total /\ pc = "get" /\ op # "dma"
      /\ pc' \in {"put", "idle"} /\ eng' = eng /\ cs' = cs /\ asked' = asked /\ frame' = frame
      /\ eng_x' = eng_x /\ txf' = txf /\ tx_remain' = tx_remain
  BY <1>1 DEF Ch32, Total, RpInv, TryGet
<1>3. RpCounted /\ TxRow /\ RxRow /\ DstInv(Taken)
  BY <1>1, <1>2, RpCounts DEF RpInv, FifoInv
<1>4. Taken = Total - rx_remain /\ rx_remain \in Nat /\ rx_remain <= Total /\ Total \in Nat
  BY <1>1, <1>2, <1>3 DEF Taken, AlwaysInv, TypeOK, RpCounted
<1>5. /\ rx_remain' \in Nat /\ rx_remain' <= Total
      /\ dst' \in Seq(Nat) /\ Len(dst') <= size /\ DstInv(Total - rx_remain)'
      /\ \/ rxf' = rxf /\ rx_remain' = rx_remain
         \/ rxf # << >> /\ rxf' = Tail(rxf) /\ rx_remain' = rx_remain - 1
  <2>1. CASE rx_remain > 0 /\ RxReady
    <3>1. rxf # << >> /\ rxf' = Tail(rxf) /\ Receive(Head(rxf))
      BY <2>1 DEF TryGet, RxReady
    <3>2. Receive(Total - rx_remain + 1)  BY <1>1, <1>3, <1>4, <3>1, Heads
    <3>3. /\ DstInv(Total - rx_remain)' /\ dst' \in Seq(Nat) /\ Len(dst') <= size
          /\ rx_remain' = rx_remain - 1
      <4>1. DstInv(Total - rx_remain) /\ rx_remain >= 1
        BY <1>3, <1>4, <2>1 DEF DstInv, KeptOf
      <4> QED BY <1>1, <1>2, <1>4, <3>2, <4>1, ReceiveKeeps
    <3> QED BY <1>4, <2>1, <3>1, <3>3
  <2>2. CASE ~(rx_remain > 0 /\ RxReady)
    <3>1. rx_remain' = rx_remain /\ dst' = dst /\ rxf' = rxf  BY <2>2 DEF TryGet
    <3>2. DstInv(Total - rx_remain)'
      BY <1>2, <1>3, <1>4, <3>1 DEF DstInv, KeptOf
    <3> QED BY <1>1, <1>4, <3>1, <3>2 DEF TypeOK
  <2> QED BY <2>1, <2>2
<1>6. pc' = IF tx_remain > 0 \/ rx_remain' > 0 THEN "put" ELSE "idle"
  BY DEF TryGet
<1>7. dma_tx' = dma_tx /\ dma_skip' = dma_skip /\ dma_data' = dma_data /\ platform' = platform
      /\ bitbang' = bitbang /\ spi1' = spi1 /\ shifting' = shifting
  BY DEF TryGet
<1>8. AlwaysInv'  BY <1>1, <1>2, <1>5, <1>7 DEF AlwaysInv
<1>9. TypeOK'
  <2>1. rxf' \in Seq(Nat) /\ Len(rxf') <= FifoDepth
    <3>1. rxf \in Seq(Nat) /\ Len(rxf) \in Nat /\ Len(rxf) <= FifoDepth
      BY <1>1, <1>2 DEF TypeOK
    <3>2. rxf # << >> => Tail(rxf) \in Seq(Nat) /\ Len(Tail(rxf)) = Len(rxf) - 1
      BY <3>1, HeadTailProperties
    <3>3. rxf' = rxf \/ (rxf # << >> /\ rxf' = Tail(rxf))  BY <1>5
    <3>4. CASE rxf' = rxf  BY <3>1, <3>4
    <3>5. CASE rxf # << >> /\ rxf' = Tail(rxf)
      BY <3>1, <3>2, <3>5 DEF FifoDepth
    <3> QED BY <3>3, <3>4, <3>5
  <2> QED BY <1>1, <1>2, <1>5, <1>7, <2>1 DEF TypeOK, Ch32
<1>10. CASE pc' = "put"
  <2>1. EngInv'  BY <1>1, <1>2, <1>10 DEF RpInv, EngInv, Prefix, Header, Byte
  <2>2. Sent' = Sent /\ Pulled' = Pulled /\ Pushed' = Pushed /\ Taken' = Total - rx_remain'
    BY <1>2, <1>10 DEF Sent, Pulled, Pushed, Taken
  <2>3. TxRow' /\ RxRow'
    <3>1. TxRow'  BY <1>1, <1>2, <1>3, <2>2, TxRowKept
    <3>2. CASE rxf' = rxf /\ rx_remain' = rx_remain
      <4>1. Taken' = Taken  BY <1>4, <2>2, <3>2
      <4> QED BY <1>1, <1>3, <2>2, <3>1, <3>2, <4>1, RxRowKept
    <3>3. CASE rxf # << >> /\ rxf' = Tail(rxf) /\ rx_remain' = rx_remain - 1
      <4>1. Taken' = Taken + 1  BY <1>4, <2>2, <3>3
      <4> QED BY <1>1, <1>3, <2>2, <3>1, <3>3, <4>1, RxRowKept
    <3> QED BY <1>5, <3>2, <3>3
  <2>4. DstInv(Taken)'  BY <1>2, <1>5, <2>2 DEF DstInv, KeptOf
  <2>5. RpInv'  BY <1>1, <1>2, <1>10, <2>1, <2>3, <2>4 DEF RpInv, FifoInv
  <2> QED BY <1>2, <1>8, <1>9, <1>10, <2>5 DEF SpiInv
<1>11. CASE pc' = "idle"
  <2>1. tx_remain = 0 /\ rx_remain' = 0  BY <1>1, <1>5, <1>6, <1>11 DEF TypeOK
  \* The last byte was taken in an earlier turn or in this one.
  <2>2. Sent = 2 + Total  BY <1>2, <1>4, <2>1 DEF Sent
  <2>3. Pushed = Total /\ Len(rxf') = 0 /\ rxf' \in Seq(Nat)
    <3>1. Len(rxf) = Pushed - Taken /\ Len(rxf) \in Nat /\ rxf \in Seq(Nat)
      BY <1>1, <1>3 DEF RxRow, TypeOK
    <3>2. Pushed \in Nat /\ Pushed <= Total  BY <1>3 DEF RpCounted
    <3>3. CASE rxf' = rxf /\ rx_remain' = rx_remain
      BY <1>4, <2>1, <3>1, <3>2, <3>3
    <3>4. CASE rxf # << >> /\ rxf' = Tail(rxf) /\ rx_remain' = rx_remain - 1
      <4>1. Len(rxf) # 0  BY <3>1, <3>4, EmptySeq
      <4>2. Taken = Total - 1  BY <1>4, <2>1, <3>4
      <4>3. Pushed = Total /\ Len(rxf) = 1  BY <1>4, <3>1, <3>2, <4>1, <4>2
      <4> QED BY <3>1, <3>4, <4>3, HeadTailProperties
    <3> QED BY <1>5, <3>3, <3>4
  <2>4. /\ txf = << >> /\ asked = (IF eng = "end" THEN <<frame>> ELSE << >>)
        /\ eng \in {"header", "end"}
    BY <1>1, <1>2, <2>2, <2>3, AllPushed
  <2>5. txf' = << >> /\ rxf' = << >>  BY <1>2, <2>3, <2>4, EmptySeq
  <2>6. EngInv'  BY <1>1, <1>2, <1>11, <2>4 DEF RpInv, EngInv
  <2>7. RpInv'  BY <1>11, <1>8, <2>5, <2>6 DEF RpInv, FifoInv
  <2>8. Len(dst') = KeptOf(Total) /\ \A n \in 1 .. Len(dst') : dst'[n] = n + WaitBytes
    BY <1>2, <1>4, <1>5, <2>1 DEF DstInv, KeptOf
  <2>9. dst' = Result(op, size)
    BY <1>1, <1>2, <1>5, <2>8, SizeOf, AnswerComplete
  <2> QED BY <1>2, <1>8, <1>9, <2>7, <2>9 DEF SpiInv
<1> QED BY <1>2, <1>10, <1>11

LEMMA RpPollRp2040 ==
  ASSUME SpiInv, ~Ch32, PollRp2040, SlowPoll
  PROVE  SpiInv' /\ (pc' = "idle" => dst' = Result(op, size))
<1>1. RpInv /\ AlwaysInv /\ TypeOK  BY DEF SpiInv
<1>2. /\ ~Ch32 /\ ~Ch32' /\ op' = op /\ size' = size /\ Total' = Total /\ pc = "polling"
      /\ pc' = (IF dma_data # 0 THEN "polling" ELSE "idle") /\ eng' = eng /\ cs' = cs /\ asked' = asked
      /\ frame' = frame /\ eng_x' = eng_x /\ dma_skip = 0
      /\ UNCHANGED <<platform, bitbang, tx_remain, rx_remain, dst, txf, rxf, spi1, shifting,
                     dma_tx, dma_skip, dma_data>>
  BY DEF Ch32, Total, PollRp2040
<1>3. RpCounted /\ TxRow /\ RxRow /\ DstInv(Taken)
  BY <1>1, <1>2, RpCounts DEF RpInv, FifoInv
<1>4. TypeOK'  BY <1>1, <1>2 DEF TypeOK, Ch32
<1>5. CASE dma_data # 0
  <2>1. Sent' = Sent /\ Pulled' = Pulled /\ Pushed' = Pushed /\ Taken' = Taken
    BY <1>2, <1>5 DEF Sent, Pulled, Pushed, Taken
  <2>2. TxRow' /\ RxRow'  BY <1>1, <1>2, <1>3, <2>1, TxRowKept, RxRowKept
  <2>3. DstInv(Taken)'  BY <1>2, <1>3, <2>1 DEF DstInv, KeptOf
  <2>4. AlwaysInv'  BY <1>1, <1>2, <1>5 DEF AlwaysInv
  <2>5. EngInv'  BY <1>1, <1>2, <1>5 DEF RpInv, EngInv, Prefix, Header, Byte
  <2>6. RpInv'  BY <1>1, <1>2, <1>5, <2>2, <2>3, <2>5 DEF RpInv, FifoInv
  <2> QED BY <1>2, <1>4, <1>5, <2>4, <2>6 DEF SpiInv
<1>6. CASE dma_data = 0
  <2>1. Taken = Total  BY <1>2, <1>3, <1>6 DEF Taken, RpCounted
  <2>2. /\ txf = << >> /\ rxf = << >> /\ Sent = 2 + Total
        /\ asked = (IF eng = "end" THEN <<frame>> ELSE << >>) /\ eng \in {"header", "end"}
        /\ dst = Result(op, size)
    BY <1>1, <1>2, <2>1, AllTaken
  <2>3. dma_tx = 0
    BY <1>1, <1>2, <1>3, <2>2 DEF Sent, TypeOK, RpCounted
  <2>4. AlwaysInv'  BY <1>1, <1>2, <1>6, <2>3 DEF AlwaysInv
  <2>5. EngInv'  BY <1>1, <1>2, <1>6, <2>2 DEF RpInv, EngInv
  <2>6. RpInv'  BY <1>2, <1>6, <2>2, <2>5 DEF RpInv, FifoInv
  <2> QED BY <1>2, <1>4, <2>2, <2>4, <2>6 DEF SpiInv
<1> QED BY <1>5, <1>6

-----------------------------------------------------------------------------
(* The beginning, and all steps together.                                  *)

LEMMA SpiInitially ==
  ASSUME Init
  PROVE  SpiInv
<1>1. TypeOK
  <2>1. bitbang \in BOOLEAN  BY Zenon DEF Init, Ch32
  <2>2. << >> \in Seq(Nat) /\ Len(<< >>) = 0  BY EmptySeq
  <2>3. Len(dst) <= size /\ Len(asked) <= 2  BY <2>2 DEF Init
  <2>4. Len(txf) <= (IF Ch32 THEN 1 ELSE FifoDepth) /\ Len(rxf) <= (IF Ch32 THEN 1 ELSE FifoDepth)
    BY <2>2 DEF Init, FifoDepth
  <2> QED BY <2>1, <2>2, <2>3, <2>4 DEF Init, TypeOK, Ops
<1>2. AlwaysInv
  <2>1. asked \in Seq(Seq(Nat))  BY EmptySeq DEF Init
  <2> QED BY <2>1 DEF Init, AlwaysInv
<1>3. Ch32 => ChInv
  BY DEF Init, ChInv, ChIdle, Quiet
<1>4. ~Ch32 => RpInv
  BY DEF Init, RpInv, EngInv, FifoInv
<1> QED BY <1>1, <1>2, <1>3, <1>4 DEF SpiInv

LEMMA SpiBegin ==
  ASSUME SpiInv, NEW o \in Ops, NEW s \in Sizes \union {4}, Begin(o, s),
         (o = "write" /\ s = 4) \/ (o # "write" /\ s \in Sizes)
  PROVE  SpiInv'
<1>1. TypeOK /\ AlwaysInv /\ (Ch32 => ChInv) /\ (~Ch32 => RpInv)  BY DEF SpiInv
<1>2. s \in Nat /\ s >= 1 /\ (o = "write" => s = 4)
  <2>1. \A n \in Sizes : n \in Nat /\ n >= 1  BY SpiAssumption
  <2> QED BY <2>1
<1>3. /\ pc = "idle" /\ pc' = "header" /\ op' = o /\ size' = s /\ dst' = << >> /\ (o = "dma" => ~bitbang)
      /\ asked' = Append(asked, FrameOf(o, s)) /\ rx_remain' = tx_remain'
      /\ tx_remain' = (IF o = "write" THEN 4 ELSE s + WaitBytes) /\ Ch32' = Ch32
      /\ UNCHANGED <<platform, bitbang, cs, frame, txf, rxf, spi1, shifting, eng, eng_x,
                     dma_tx, dma_skip, dma_data>>
  BY DEF Begin, Ch32
<1>4. Total' = tx_remain' /\ tx_remain' \in Nat
  BY <1>2, <1>3 DEF Total, WaitBytes
<1> DEFINE f == FrameOf(o, s)
<1>5. f \in Seq(Nat)  BY <1>2, FrameShape
<1>6. FrameOf(op', size') = f  BY <1>3
<1> HIDE DEF f
<1>7. asked' \in Seq(Seq(Nat)) /\ asked' = Append(asked, f)
  <2>1. asked \in Seq(Seq(Nat)) /\ asked' = Append(asked, f)
    BY <1>1, <1>3 DEF AlwaysInv, f
  <2> QED BY <1>5, <2>1
<1>8. AlwaysInv'
  BY <1>1, <1>2, <1>3, <1>4, <1>7 DEF AlwaysInv
<1>9. ASSUME Ch32  PROVE ChInv' /\ Len(asked') <= 2
  <2>1. ChIdle /\ asked = << >> /\ ChInv  BY <1>1, <1>3, <1>9 DEF ChInv
  <2>2. asked' = <<f>> /\ Len(asked') = 1  BY <1>7, <2>1
  <2>3. asked' = <<FrameOf(op', size')>>  BY <1>6, <2>2
  <2> QED BY <1>3, <2>1, <2>2, <2>3 DEF ChInv, ChIdle, Quiet
<1>10. ASSUME ~Ch32  PROVE RpInv' /\ Len(asked') <= 2
  <2>1. /\ asked = (IF eng = "end" THEN <<frame>> ELSE << >>) /\ eng \in {"header", "end"}
        /\ txf = << >> /\ rxf = << >> /\ (cs = "high" <=> eng = "header")
    BY <1>1, <1>3, <1>10 DEF RpInv, EngInv, FifoInv
  <2>2. \/ asked' = <<frame, f>> /\ Len(asked') = 2 /\ eng = "end"
        \/ asked' = <<f>> /\ Len(asked') = 1 /\ eng = "header"
    <3>1. CASE eng = "end"
      <4>1. asked = <<frame>>  BY <2>1, <3>1
      <4> QED BY <1>7, <3>1, <4>1, Pair
    <3>2. CASE eng = "header"
      <4>1. asked = << >>  BY <2>1, <3>2
      <4> QED BY <1>7, <3>2, <4>1
    <3> QED BY <2>1, <3>1, <3>2
  <2>3. EngInv'
    <3>1. \/ asked' = <<frame', FrameOf(op', size')>> /\ eng' = "end"
          \/ asked' = <<FrameOf(op', size')>> /\ eng' = "header"
      BY <1>3, <1>6, <2>2
    <3> QED BY <1>3, <2>1, <3>1 DEF EngInv
  <2>4. Sent' = 0 /\ Pulled' = 0 /\ Pushed' = 0 /\ Taken' = 0
    <3>1. Pulled' = 0 /\ Pushed' = 0  BY <1>3, <2>2 DEF Pulled, Pushed
    <3>2. Sent' = 0 /\ Taken' = 0  BY <1>3, <1>4 DEF Sent, Taken
    <3> QED BY <3>1, <3>2
  <2>5. TxRow' /\ RxRow' /\ DstInv(Taken)'
    BY <1>3, <2>1, <2>4, EmptySeq DEF TxRow, RxRow, DstInv, KeptOf, WaitBytes
  <2> QED BY <1>3, <2>2, <2>3, <2>5 DEF RpInv, FifoInv
<1>11. TypeOK'
  BY <1>1, <1>2, <1>3, <1>4, <1>9, <1>10, EmptySeq DEF TypeOK
<1> QED BY <1>3, <1>8, <1>9, <1>10, <1>11 DEF SpiInv

\* What AccessExact says of a step.
ExactStep ==
  /\ cs = "low" /\ cs' = "high" => frame = Head(asked)
  /\ pc # "idle" /\ pc' = "idle" => dst' = Result(op, size) /\ txf' = << >> /\ rxf' = << >>

LEMMA SpiStep ==
  ASSUME Slow, SpiInv, [Next]_vars
  PROVE  SpiInv' /\ ExactStep
<1>1. TypeOK /\ AlwaysInv /\ (Ch32 => ChInv) /\ (~Ch32 => RpInv)  BY DEF SpiInv
<1>2. ~Ch32 => SlowPoll
  BY <1>1, SpiAssumption DEF Slow, TypeOK, Ch32
<1>3. CASE UNCHANGED vars
  <2> USE <1>3 DEF vars
  <2>1. TypeOK' /\ AlwaysInv' /\ (Ch32' <=> Ch32) /\ pc' = pc /\ cs' = cs
    BY <1>1 DEF TypeOK, AlwaysInv, Ch32, Total
  <2>2. Ch32 => ChInv'
    BY <1>1 DEF ChInv, ChIdle, ChAccess, Prefix, DstInv, KeptOf, Put, Got, Dmaing, Quiet,
         Total, Num, Byte,
                Header
  <2>3. ~Ch32 => RpInv'
    BY <1>1 DEF RpInv, EngInv, FifoInv, TxRow, RxRow, Word, Count, Sent, Pulled, Pushed,
         Taken, Prefix,
                DstInv, KeptOf, Total, Byte, Header
  <2> QED BY <2>1, <2>2, <2>3 DEF SpiInv, ExactStep
<1>4. CASE Call
  <2>1. PICK o \in Ops, s \in Sizes \union {4} :
          Begin(o, s) /\ ((o = "write" /\ s = 4) \/ (o # "write" /\ s \in Sizes))
    BY <1>4 DEF Call, Ops
  <2>2. SpiInv'  BY <2>1, SpiBegin
  <2> QED BY <2>1, <2>2 DEF Begin, ExactStep
<1>5. CASE ProgramCh32 \/ ProgramRp2040 \/ SetFrequency \/ ShiftIn \/ ShiftOut \/ Pio \/ DmaTx \/ DmaSkip \/ DmaData
  <2>1. CASE Ch32
    <3>1. ~DmaSkip  BY <1>1, <2>1 DEF DmaSkip, ChInv
    <3>2. ~ProgramRp2040 /\ ~Pio
      BY <2>1 DEF ProgramRp2040, Pio, PullHeader, PullCount, PullByte, PushByte, Deselect
    <3>3. CASE Finish
      <4>1. SpiInv'  BY <2>1, <3>3, ChFinish
      <4>2. ChInv /\ ChAccess /\ ChCounted /\ Got = Total /\ Quiet /\ asked = <<FrameOf(op, size)>>
            /\ (op = "write" => size = 4)
        BY <1>1, <2>1, <3>3, ChCounts, SizeOf DEF ChInv, Finish
      <4>3. Len(frame) = Total + 1
        BY <4>2 DEF ChCounted, Quiet, Num
      <4>4. frame = FrameOf(op, size)
        BY <1>1, <4>2, <4>3, FrameComplete DEF ChAccess
      <4>5. frame = Head(asked)  BY <4>2, <4>4, Singleton
      <4>6. dst = Result(op, size)
        <5>1. dst \in Seq(Nat) /\ Len(dst) = KeptOf(Total) /\ \A n \in 1 .. Len(dst) : dst[n] = n + WaitBytes
          BY <1>1, <4>2 DEF TypeOK, ChAccess, DstInv, KeptOf
        <5> QED BY <1>1, <4>2, <5>1, AnswerComplete
      <4>7. dst' = dst /\ txf' = txf /\ rxf' = rxf  BY <3>3 DEF Finish
      <4> QED BY <4>1, <4>2, <4>5, <4>6, <4>7 DEF ExactStep, Quiet
    <3>4. CASE SendHeader
      <4>1. SpiInv'  BY <2>1, <3>4, ChSendHeader
      <4> QED BY <3>4, <4>1 DEF ExactStep, SendHeader
    <3>5. CASE BitbangByte \/ DrainRx \/ XferPut \/ XferGet \/ WaitIdle \/ StartDma \/ PollCh32 \/ SetFrequency
               \/ ShiftIn \/ ShiftOut \/ DmaTx \/ DmaData
      <4>1. SpiInv'
        BY <2>1, <3>5, ChBitbangByte, ChDrainRx, ChXferPut, ChXferGet, ChWaitIdle, ChStartDma,
             ChPollCh32,
           ChSetFrequency, ChShiftIn, ChShiftOut, ChDmaTx, ChDmaData
      <4>2. cs' = cs /\ (pc' = "idle" => pc = "idle")
        BY <3>5 DEF BitbangByte, DrainRx, XferPut, XferGet, WaitIdle, StartDma, PollCh32,
             SetFrequency,
                    ShiftIn, ShiftOut, DmaTx, DmaData
      <4> QED BY <1>1, <4>1, <4>2 DEF ExactStep, TypeOK
    <3> QED BY <1>5, <3>1, <3>2, <3>3, <3>4, <3>5 DEF ProgramCh32
  <2>2. CASE ~Ch32
    <3>1. ~ProgramCh32 /\ ~SetFrequency /\ ~ShiftIn /\ ~ShiftOut
      BY <2>2 DEF ProgramCh32, SetFrequency, ShiftIn, ShiftOut
    <3>2. CASE TryGet \/ PollRp2040
      <4>1. SpiInv' /\ (pc' = "idle" => dst' = Result(op, size))
        BY <1>2, <2>2, <3>2, RpTryGet, RpPollRp2040
      <4>2. cs' = cs /\ Ch32' = Ch32
        BY <3>2 DEF TryGet, PollRp2040, Ch32
      <4>3. pc' = "idle" => txf' = << >> /\ rxf' = << >>
        BY <2>2, <4>1, <4>2 DEF SpiInv, RpInv, FifoInv
      <4> QED BY <4>1, <4>2, <4>3 DEF ExactStep
    <3>3. CASE Deselect
      <4>1. SpiInv'  BY <2>2, <3>3, RpDeselect
      <4>2. eng = "end" /\ pc' = pc  BY <3>3 DEF Deselect
      <4>3. frame = Head(asked)
        <5>1. CASE asked = <<frame>>  BY <5>1
        <5>2. CASE asked = <<frame, FrameOf(op, size)>>
          <6> DEFINE f == FrameOf(op, size)
          <6> HIDE DEF f
          <6>1. asked = <<frame, f>>  BY <5>2 DEF f
          <6> QED BY <6>1
        <5>3. CASE asked = <<FrameOf(op, size)>> /\ Prefix /\ Len(frame) = Total + 1 /\ pc # "idle"
          <6>1. frame = FrameOf(op, size)  BY <1>1, <5>3, FrameComplete, SizeOf
          <6> QED BY <5>3, <6>1, Singleton
        <5> QED BY <1>1, <2>2, <4>2, <5>1, <5>2, <5>3 DEF RpInv, EngInv
      <4> QED BY <4>1, <4>2, <4>3 DEF ExactStep
    <3>4. CASE PullHeader
      <4>1. SpiInv'  BY <2>2, <3>4, RpPullHeader
      <4> QED BY <3>4, <4>1 DEF ExactStep, PullHeader
    <3>5. CASE PutHeader \/ PutCount \/ TryPut \/ StartChannels \/ PullCount \/ PullByte \/ PushByte
               \/ DmaTx \/ DmaSkip \/ DmaData
      <4>1. SpiInv'
        BY <2>2, <3>5, RpPutHeader, RpPutCount, RpTryPut, RpStartChannels, RpPullCount,
             RpPullByte, RpPushByte,
           RpDmaTx, RpDmaSkip, RpDmaData
      <4>2. cs' = cs /\ (pc' = "idle" => pc = "idle")
        BY <3>5 DEF PutHeader, PutCount, TryPut, StartChannels, PullCount, PullByte, PushByte,
             DmaTx, DmaSkip,
                    DmaData
      <4> QED BY <1>1, <4>1, <4>2 DEF ExactStep, TypeOK
    <3> QED BY <1>5, <3>1, <3>2, <3>3, <3>4, <3>5 DEF ProgramRp2040, Pio
  <2> QED BY <2>1, <2>2
<1> QED BY <1>3, <1>4, <1>5 DEF Next, Program

-----------------------------------------------------------------------------
(* The theorems.                                                           *)

LEMMA SpiInvariant ==
  ASSUME Slow
  PROVE  Spec => []SpiInv
<1>1. Init => SpiInv  BY SpiInitially
<1>2. SpiInv /\ [Next]_vars => SpiInv'  BY SpiStep
<1> QED BY <1>1, <1>2, PTL DEF Spec

\* Neither register and neither FIFO is ever overrun, at most two accesses are on their
\* way to the bus, and the caller is never given more bytes than it asked for.
THEOREM SpiTypeCorrect ==
  ASSUME Slow
  PROVE  Spec => []TypeOK
<1>1. SpiInv => TypeOK  BY DEF SpiInv
<1> QED BY <1>1, SpiInvariant, PTL

\* Whatever the sizes of the accesses and however the caller, the DMA and the bus
\* interleave: every selection carries exactly the frame of its access, in order, and an
\* access that returns has given its caller the bytes of the register and left the FIFOs
\* empty.
THEOREM ExactCorrect ==
  ASSUME Slow
  PROVE  Spec => AccessExact
<1>1. SpiInv /\ [Next]_vars => [ExactStep]_vars  BY SpiStep
<1>2. Spec => [][ExactStep]_vars
  BY <1>1, SpiInvariant, PTL DEF Spec
<1> QED BY <1>2 DEF AccessExact, ExactStep
=============================================================================
