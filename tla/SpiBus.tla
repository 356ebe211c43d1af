------------------------------- MODULE SpiBus --------------------------------
(***************************************************************************)
(* Register accesses over SPI (src/ch32v305/spi_reg.c, src/rp2040/spi_reg.c*)
(* with the program of src/rp2040/spi.pio).  An access selects the SMC,    *)
(* sends a header and then exchanges bytes; a read drops the first two.    *)
(*                                                                         *)
(* CH32V305: the header, and at a low frequency everything, is driven by   *)
(* hand on the pins, the rest by SPI1 with one data register each way, and *)
(* two DMA channels.  RP2040: a PIO state machine takes header, count and  *)
(* bytes from a FIFO, selects by itself and puts the answers into another  *)
(* FIFO; for a DMA read one channel feeds it, one drops two bytes and is   *)
(* chained to one that stores the others.                                  *)
(*                                                                         *)
(* The n-th byte of an access is answered with the number n.               *)
(*                                                                         *)
(* Assumed of the hardware: the CH32V305's DMA fetches a byte before the   *)
(* next one has arrived.  Assumed of the callers: no access and no change  *)
(* of the frequency during a DMA read (SpiExclusive of BlockRead), and on  *)
(* the CH32V305 no DMA read at a low frequency, for it waits for SPI1,     *)
(* which is off then.                                                      *)
(***************************************************************************)
EXTENDS Integers, Sequences

CONSTANTS
  Platforms,     \* a set of "ch32v305", "rp2040"
  Sizes,         \* sizes of the reads
  SlowPoll       \* whether a turn of the main loop takes longer than a header and two bytes

ASSUME SpiAssumption ==
  /\ Platforms \subseteq {"ch32v305", "rp2040"}
  /\ Sizes \subseteq Nat \ {0} /\ SlowPoll \in BOOLEAN

VARIABLES
  platform,
  pc,            \* where the caller is in an access
  op, size,      \* the access: "read", "dma" or "write"
  tx_remain, rx_remain,  \* bytes still to send and to receive
  dst,           \* what the caller was given
  bitbang,       \* CH32V305: use_bitbang_data
  \* the bus
  cs, frame,     \* SPI_SS_N, and what the SMC has received since it fell
  asked,         \* history: frames of the accesses begun, until they are on the bus
  \* SPI1 or the PIO with its FIFOs
  txf, rxf,
  spi1,          \* CH32V305: SPI1 is on and has the pins
  shifting,      \* CH32V305: whether SPI1 is busy with a byte
  eng, eng_x,    \* RP2040: where the program is, and its counter X
  \* DMA
  dma_tx, dma_skip, dma_data  \* transfers left in each channel

cfgVars  == <<platform, bitbang>>
askVars  == <<op, size>>
callVars == <<askVars, tx_remain, rx_remain>>
progVars == <<pc, callVars>>
busVars  == <<cs, frame, asked>>
spiVars  == <<spi1, shifting>>
pioVars  == <<eng, eng_x>>
hwVars   == <<txf, rxf, spiVars, pioVars>>
dmaVars  == <<dma_tx, dma_skip, dma_data>>
vars     == <<cfgVars, progVars, dst, busVars, hwVars, dmaVars>>

Ch32 == platform = "ch32v305"
Ops == {"read", "dma", "write"}

WaitOne == 1

WaitBytes == 2

Header(o) == IF o = "write" THEN 514 ELSE 513
Byte(n) == IF op = "write" THEN n ELSE 255

Total == IF op = "write" THEN 4 ELSE size + WaitBytes
Kept == IF op = "write" THEN 0 ELSE size

Init ==
  /\ platform \in Platforms
  /\ pc = "idle" /\ op = "read" /\ size = 0 /\ tx_remain = 0 /\ rx_remain = 0 /\ dst = << >>
  /\ bitbang = Ch32
  /\ cs = "high" /\ frame = << >> /\ asked = << >>
  /\ txf = << >> /\ rxf = << >>
  /\ spi1 = TRUE /\ shifting = FALSE
  /\ eng = "header" /\ eng_x = 0
  /\ dma_tx = 0 /\ dma_skip = 0 /\ dma_data = 0

\* What an access is to be on the bus, and what it is to give its caller.
FrameOf(o, s) ==
  <<Header(o)>> \o (IF o = "write" THEN <<1, 2, 3, 4>> ELSE [n \in 1 .. s + 2 |-> 255])

Result(o, s) == IF o = "write" THEN << >> ELSE [n \in 1 .. s |-> n + 2]

Begin(o, s) ==
  /\ pc = "idle" /\ (o = "dma" => ~bitbang)
  /\ pc' = "header" /\ op' = o /\ size' = s /\ dst' = << >>
  /\ tx_remain' = IF o = "write" THEN 4 ELSE s + WaitBytes
  /\ rx_remain' = tx_remain'
  /\ asked' = Append(asked, FrameOf(o, s))
  /\ UNCHANGED <<cfgVars, cs, frame, hwVars, dmaVars>>

\* The byte the caller gets: the first ones of a read and all of a write are dropped.
Receive(b) ==
  /\ rx_remain' = rx_remain - 1
  /\ dst' = IF rx_remain <= Kept THEN Append(dst, b) ELSE dst

-----------------------------------------------------------------------------
(* CH32V305.                                                               *)

\* cs_high; in slow mode SPI1 gets its pins back.
EndTransaction ==
  /\ cs' = "high" /\ asked' = Tail(asked)
  /\ spi1' = TRUE
  /\ UNCHANGED frame

SendHeader ==
  /\ pc = "header" /\ pc' = IF bitbang THEN "bits" ELSE "drain"
  /\ cs' = "low" /\ frame' = <<Header(op)>>
  /\ spi1' = ~bitbang
  /\ UNCHANGED <<cfgVars, callVars, dst, asked, txf, rxf, shifting, pioVars, dmaVars>>

\* bitbang_xfer_byte
BitbangByte ==
  /\ pc = "bits"
  /\ frame' = Append(frame, Byte(Len(frame)))
  /\ tx_remain' = tx_remain - 1 /\ Receive(Len(frame))
  /\ pc' = IF rx_remain' = 0 THEN "end" ELSE "bits"
  /\ UNCHANGED <<cfgVars, askVars, cs, asked, hwVars, dmaVars>>

DrainRx ==
  /\ pc = "drain" /\ pc' = "put"
  /\ rxf' = << >>
  /\ UNCHANGED <<cfgVars, callVars, dst, busVars, txf, spiVars, pioVars, dmaVars>>

\* spi_xfer_byte: the wait for TXE and the store, then the wait for RXNE and the load.
XferPut ==
  /\ pc = "put" /\ txf = << >> /\ pc' = "get"
  /\ txf' = <<Byte(Total - tx_remain + 1)>> /\ tx_remain' = tx_remain - 1
  /\ UNCHANGED <<cfgVars, askVars, rx_remain, dst, busVars, rxf, spiVars, pioVars, dmaVars>>

XferGet ==
  /\ pc = "get" /\ rxf # << >>
  /\ rxf' = << >> /\ Receive(Head(rxf))
  /\ pc' = IF rx_remain' = 0 THEN "bsy"
           ELSE IF op = "dma" /\ rx_remain' = size THEN "start" ELSE "put"
  /\ UNCHANGED <<cfgVars, askVars, tx_remain, busVars, txf, spiVars, pioVars, dmaVars>>

Busy == shifting \/ txf # << >>

\* The wait for BSY, also of the poll that finds the DMA finished.
WaitIdle ==
  /\ pc = "bsy" /\ ~Busy /\ pc' = "end"
  /\ UNCHANGED <<cfgVars, callVars, dst, busVars, hwVars, dmaVars>>

Finish ==
  /\ pc = "end" /\ pc' = "idle"
  /\ EndTransaction
  /\ UNCHANGED <<cfgVars, callVars, dst, txf, rxf, shifting, pioVars, dmaVars>>

StartDma ==
  /\ pc = "start" /\ pc' = "polling"
  /\ dma_tx' = size /\ dma_data' = size
  /\ UNCHANGED <<cfgVars, callVars, dst, busVars, hwVars, dma_skip>>

\* spi_reg_read_dma_busy; the caller keeps asking until it says no.
PollCh32 ==
  /\ pc = "polling" /\ pc' = IF dma_data # 0 THEN "polling" ELSE "bsy"
  /\ UNCHANGED <<cfgVars, callVars, dst, busVars, hwVars, dmaVars>>

SetFrequency ==
  /\ Ch32 /\ pc = "idle" /\ bitbang' \in BOOLEAN
  /\ UNCHANGED <<platform, progVars, dst, busVars, hwVars, dmaVars>>

ProgramCh32 == Ch32 /\ (SendHeader \/ BitbangByte \/ DrainRx \/ XferPut \/ XferGet \/ WaitIdle
                          \/ Finish \/ StartDma \/ PollCh32)

\* SPI1 takes a byte from its data register and, eight clocks later, has another.
ShiftIn ==
  /\ Ch32 /\ spi1 /\ ~shifting /\ txf # << >>
  /\ shifting' = TRUE /\ txf' = << >> /\ frame' = Append(frame, Head(txf))
  /\ UNCHANGED <<cfgVars, progVars, dst, cs, asked, rxf, spi1, pioVars, dmaVars>>

ShiftOut ==
  /\ Ch32 /\ shifting /\ rxf = << >>
  /\ shifting' = FALSE /\ rxf' = <<Len(frame) - 1>>
  /\ UNCHANGED <<cfgVars, progVars, dst, busVars, txf, spi1, pioVars, dmaVars>>

-----------------------------------------------------------------------------
(* RP2040.                                                                 *)

FifoDepth == 4

PushAnyway == TRUE

TxRoom == Len(txf) < FifoDepth

PutHeader ==
  /\ pc = "header" /\ TxRoom /\ pc' = "count"
  /\ txf' = Append(txf, Header(op))
  /\ UNCHANGED <<cfgVars, callVars, dst, busVars, rxf, spiVars, pioVars, dmaVars>>

CountWhole == Total

Count == Total - 1

PutCount ==
  /\ pc = "count" /\ TxRoom /\ pc' = IF op = "dma" THEN "start" ELSE "put"
  /\ txf' = Append(txf, Count)
  /\ UNCHANGED <<cfgVars, callVars, dst, busVars, rxf, spiVars, pioVars, dmaVars>>

\* The loop of spi_reg_read and spi_reg_write: put a byte if there is room, ...
TryPut ==
  /\ pc = "put" /\ pc' = "get"
  /\ IF tx_remain > 0 /\ TxRoom
     THEN txf' = Append(txf, Byte(Total - tx_remain + 1)) /\ tx_remain' = tx_remain - 1
     ELSE UNCHANGED <<tx_remain, txf>>
  /\ UNCHANGED <<cfgVars, askVars, rx_remain, dst, busVars, rxf, spiVars, pioVars, dmaVars>>

GetAfterAll == tx_remain = 0 /\ rxf # << >>

RxReady == rxf # << >>

\* ... and get one if there is one.
TryGet ==
  /\ pc = "get"
  /\ IF rx_remain > 0 /\ RxReady
     THEN rxf' = Tail(rxf) /\ Receive(Head(rxf))
     ELSE UNCHANGED <<rx_remain, dst, rxf>>
  /\ pc' = IF tx_remain > 0 \/ rx_remain' > 0 THEN "put" ELSE "idle"
  /\ UNCHANGED <<cfgVars, askVars, tx_remain, busVars, txf, spiVars, pioVars, dmaVars>>

StartChannels ==
  /\ pc = "start" /\ pc' = "polling"
  /\ dma_tx' = Total /\ dma_skip' = WaitBytes
  /\ UNCHANGED <<cfgVars, callVars, dst, busVars, hwVars, dma_data>>

\* Only the last of the three channels is asked, which is idle until the second
\* has finished.
PollRp2040 ==
  /\ pc = "polling" /\ (SlowPoll => dma_skip = 0)
  /\ pc' = IF dma_data # 0 THEN "polling" ELSE "idle"
  /\ UNCHANGED <<cfgVars, callVars, dst, busVars, hwVars, dmaVars>>

ProgramRp2040 == ~Ch32 /\ (PutHeader \/ PutCount \/ TryPut \/ TryGet \/ StartChannels \/ PollRp2040)

\* spi_proto, from one pull or push to the next.
PullHeader ==
  /\ ~Ch32 /\ eng = "header" /\ txf # << >> /\ eng' = "count"
  /\ cs' = "low" /\ frame' = <<Head(txf)>> /\ txf' = Tail(txf)
  /\ UNCHANGED <<cfgVars, progVars, dst, asked, rxf, spiVars, eng_x, dmaVars>>

PullCount ==
  /\ ~Ch32 /\ eng = "count" /\ txf # << >> /\ eng' = "byte"
  /\ eng_x' = Head(txf) /\ txf' = Tail(txf)
  /\ UNCHANGED <<cfgVars, progVars, dst, busVars, rxf, spiVars, dmaVars>>

PullByte ==
  /\ ~Ch32 /\ eng = "byte" /\ txf # << >> /\ eng' = "push"
  /\ frame' = Append(frame, Head(txf)) /\ txf' = Tail(txf)
  /\ UNCHANGED <<cfgVars, progVars, dst, cs, asked, rxf, spiVars, eng_x, dmaVars>>

PushByte ==
  /\ ~Ch32 /\ eng = "push" /\ Len(rxf) < FifoDepth
  /\ rxf' = Append(rxf, Len(frame) - 1)
  /\ IF eng_x > 0 THEN eng' = "byte" /\ eng_x' = eng_x - 1 ELSE eng' = "end" /\ UNCHANGED eng_x
  /\ UNCHANGED <<cfgVars, progVars, dst, busVars, txf, spiVars, dmaVars>>

Deselect ==
  /\ ~Ch32 /\ eng = "end" /\ eng' = "header"
  /\ cs' = "high" /\ asked' = Tail(asked)
  /\ UNCHANGED <<cfgVars, progVars, dst, frame, txf, rxf, spiVars, eng_x, dmaVars>>

Pio == PullHeader \/ PullCount \/ PullByte \/ PushByte \/ Deselect

-----------------------------------------------------------------------------
(* The DMA channels.                                                       *)

DmaTx ==
  /\ dma_tx > 0 /\ (IF Ch32 THEN txf = << >> ELSE TxRoom)
  /\ txf' = Append(txf, 255) /\ dma_tx' = dma_tx - 1
  /\ UNCHANGED <<cfgVars, progVars, dst, busVars, rxf, spiVars, pioVars, dma_skip, dma_data>>

DmaSkip ==
  /\ dma_skip > 0 /\ rxf # << >>
  /\ rxf' = Tail(rxf) /\ dma_skip' = dma_skip - 1
  /\ dma_data' = IF dma_skip' = 0 THEN size ELSE dma_data      \* chained
  /\ UNCHANGED <<cfgVars, progVars, dst, busVars, txf, spiVars, pioVars, dma_tx>>

DmaData ==
  /\ dma_data > 0 /\ rxf # << >>
  /\ rxf' = Tail(rxf) /\ dma_data' = dma_data - 1
  /\ dst' = Append(dst, Head(rxf))
  /\ UNCHANGED <<cfgVars, progVars, busVars, txf, spiVars, pioVars, dma_tx, dma_skip>>

Call == Begin("write", 4) \/ \E o \in {"read", "dma"}, s \in Sizes : Begin(o, s)

Program == ProgramCh32 \/ ProgramRp2040

Next == Call \/ SetFrequency \/ Program \/ ShiftIn \/ ShiftOut \/ Pio \/ DmaTx \/ DmaSkip \/ DmaData

Spec == Init /\ [][Next]_vars

\* The caller goes on with an access, and so does the hardware.
FairSpec == Spec /\ WF_vars(Program) /\ WF_vars(ShiftIn) /\ WF_vars(ShiftOut) /\ WF_vars(Pio)
                 /\ WF_vars(DmaTx) /\ WF_vars(DmaSkip) /\ WF_vars(DmaData)

-----------------------------------------------------------------------------
(* Properties.                                                             *)

\* Every variable has its type, and nothing is put into a full register or FIFO.
TypeOK ==
  /\ platform \in Platforms
  /\ pc \in {"idle", "header", "count", "bits", "drain", "put", "get", "start", "polling", "bsy", "end"}
  /\ op \in Ops /\ size \in Sizes \union {0, 4} /\ bitbang \in BOOLEAN
  /\ tx_remain \in Nat /\ rx_remain \in Nat
  /\ dst \in Seq(Nat) /\ Len(dst) <= size
  /\ cs \in {"high", "low"} /\ frame \in Seq(Nat) /\ Len(asked) <= 2
  /\ txf \in Seq(Nat) /\ rxf \in Seq(Nat)
  /\ Len(txf) <= IF Ch32 THEN 1 ELSE FifoDepth
  /\ Len(rxf) <= IF Ch32 THEN 1 ELSE FifoDepth
  /\ spi1 \in BOOLEAN /\ shifting \in BOOLEAN
  /\ eng \in {"header", "count", "byte", "push", "end"} /\ eng_x \in Nat
  /\ dma_tx \in Nat /\ dma_skip \in Nat /\ dma_data \in Nat

\* The accesses reach the SMC one by one in the order they were made, each in one
\* selection with its header and exactly its bytes; and when an access returns, or
\* spi_reg_read_dma_busy says that it is over, its caller has the bytes of the
\* register, and nothing is left for the next access to trip over.
AccessExact ==
  [][/\ cs = "low" /\ cs' = "high" => frame = Head(asked)
     /\ pc # "idle" /\ pc' = "idle" => dst' = Result(op, size) /\ txf' = << >> /\ rxf' = << >>]_vars

\* Every access ends: neither side of the FIFOs waits for the other for ever.
AccessEnds == pc # "idle" ~> pc = "idle"
=============================================================================
