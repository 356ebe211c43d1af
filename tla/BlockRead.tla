------------------------------ MODULE BlockRead ------------------------------
(***************************************************************************)
(* The block-read pipeline of the firmware: CMD_BLOCK_READ (src/main.c),   *)
(* the read state machine with its two buffers (src/mmc/read.c) and the    *)
(* STREAM_BLOCK_READ arm of stream_task (src/main.c), which copies the     *)
(* buffers packet by packet into the data IN endpoint.                     *)
(*                                                                         *)
(* Everything the firmware does here runs in one main loop, so the tasks   *)
(* take turns (variable task).  What runs beside it and interleaves at     *)
(* every turn is the SPI DMA that fills a buffer, the Arasan SD host       *)
(* controller behind the SPI registers, and the USB host.                  *)
(*                                                                         *)
(* A block is its LBA; a packet is the pair of a block and its part, where *)
(* a block of 512 bytes is sent as Chunks packets of USB_TX_MAX bytes.     *)
(***************************************************************************)
EXTENDS Naturals, Sequences

CONSTANTS
  MaxCount,      \* largest block count of a CMD_BLOCK_READ (uint16_t)
  Lbas,          \* the start addresses the host asks for
  ChunkBlocks,   \* CHUNK_BLOCKS: blocks per CMD18
  Chunks,        \* packets per block: 512 / USB_TX_MAX
  MmcMayFail,    \* whether the controller may report an error
  Junk           \* buffer bytes that are no block of the card

ASSUME CountAssumption == MaxCount \in Nat /\ MaxCount <= 65535

ASSUME ChunkAssumption == ChunkBlocks \in Nat \ {0} /\ Chunks \in Nat \ {0}

ASSUME DataAssumption == Lbas \subseteq Nat /\ Junk \notin Nat /\ MmcMayFail \in BOOLEAN

VARIABLES
  task,              \* whose turn it is in the main loop
  \* read.c
  mmc_bio_status, mmc_cur_lba,
  mmc_blocks_total, mmc_blocks_issued, mmc_blocks_completed, mmc_blocks_consumed,
  mmc_active_buf, mmc_buf_state, buf_blocks, buf_sent, read_state,
  read_buf,          \* the first block each buffer holds, or Junk
  \* main.c
  stream_state, usb_block, usb_sent,
  \* SPI: the buffer a DMA is filling, or NoBuf
  dma,
  \* the SD host controller
  int_status,        \* REG_INT_STATUS
  argument,          \* REG_ARGUMENT
  ctl,               \* where the running CMD18 is
  \* USB and the host
  tx,                \* packets submitted on EP4 and not yet read
  delivered          \* packets the host has read for the running request

readVars   == <<mmc_bio_status, mmc_cur_lba, mmc_blocks_total, mmc_blocks_issued,
                mmc_blocks_completed, mmc_blocks_consumed, mmc_active_buf,
                mmc_buf_state, buf_blocks, buf_sent, read_state>>
streamVars == <<stream_state, usb_block, usb_sent>>
ctlVars    == <<int_status, argument, ctl>>
hostVars   == <<tx, delivered>>
vars == <<task, readVars, read_buf, streamVars, dma, ctlVars, hostVars>>

Bufs    == {0, 1}
NoBuf   == 2             \* no DMA transfer in flight
NoBlock == <<NoBuf, 0>>  \* usb_block = NULL
TxSlots == 2             \* packets the data IN endpoint holds

IntBits == {"CMD_COMPLETE", "BUF_READ_READY", "XFER_COMPLETE", "ERROR"}

-----------------------------------------------------------------------------
(* The two-buffer queue of read.c.                                         *)

PendingAny(b) == buf_sent[b] < buf_blocks[b]

Pending(b) == mmc_buf_state[b] = "READY_FOR_USB" /\ buf_sent[b] < buf_blocks[b]

\* mmc_read_get_buf and mmc_read_consume scan the buffers in index order.
LastPending == IF Pending(1) THEN 1 ELSE IF Pending(0) THEN 0 ELSE NoBuf

FirstPending == IF Pending(0) THEN 0 ELSE IF Pending(1) THEN 1 ELSE NoBuf

GetBuf == IF FirstPending = NoBuf THEN NoBlock
          ELSE <<FirstPending, buf_sent[FirstPending]>>

\* Whether consuming one more block empties buffer b.
Emptied(b) == buf_sent[b] + 1 >= buf_blocks[b]

Consume ==
  LET b == FirstPending IN
  IF b = NoBuf
  THEN UNCHANGED <<buf_sent, mmc_blocks_consumed, mmc_buf_state>>
  ELSE /\ buf_sent' = [buf_sent EXCEPT ![b] = @ + 1]
       /\ mmc_blocks_consumed' = mmc_blocks_consumed + 1
       /\ mmc_buf_state' = IF Emptied(b)
                           THEN [mmc_buf_state EXCEPT ![b] = "FREE"]
                           ELSE mmc_buf_state

-----------------------------------------------------------------------------
(* cmd_task.                                                               *)

\* The host sends its next request once it has read all it asked for, or has
\* timed out on a stream that the device has given up.
HostReady == \/ Len(delivered) = mmc_blocks_total * Chunks
             \/ stream_state = "IDLE" /\ tx = << >>

KeepConsumed == /\ mmc_blocks_issued' = 0
                /\ mmc_blocks_completed' = 0
                /\ UNCHANGED mmc_blocks_consumed

ResetCounters == /\ mmc_blocks_issued' = 0
                 /\ mmc_blocks_completed' = 0
                 /\ mmc_blocks_consumed' = 0

StartRead(lba, count) ==
  /\ mmc_bio_status' = "BUSY"
  /\ mmc_cur_lba' = lba
  /\ mmc_blocks_total' = count
  /\ ResetCounters
  /\ mmc_active_buf' = 0
  /\ mmc_buf_state' = [b \in Bufs |-> "FREE"]
  /\ buf_blocks' = [b \in Bufs |-> 0]
  /\ buf_sent' = [b \in Bufs |-> 0]
  /\ read_state' = "FIND_BUF"

CmdBlockRead ==
  /\ task = "cmd"
  /\ HostReady
  /\ \E lba \in Lbas, count \in 0 .. MaxCount : StartRead(lba, count)
  /\ stream_state' = "BLOCK_READ"
  /\ delivered' = << >>
  /\ task' = "read"
  /\ UNCHANGED <<read_buf, usb_block, usb_sent, dma, ctlVars, tx>>

NoCommand ==
  /\ task = "cmd"
  /\ task' = "read"
  /\ UNCHANGED <<readVars, read_buf, streamVars, dma, ctlVars, hostVars>>

-----------------------------------------------------------------------------
(* mmc_read_task: one action per way a call can go, with the cases it falls *)
(* through to.                                                              *)

FailedData == "ERROR" \in int_status /\ read_state # "POLL_CMD_COMPLETE"

Failed == "ERROR" \in int_status

Reading(states) ==
  /\ task = "read"
  /\ task' = "stream"
  /\ mmc_bio_status = "BUSY"
  /\ mmc_blocks_issued < mmc_blocks_total
  /\ read_state \in states
  /\ UNCHANGED <<read_buf, streamVars, hostVars,
                 mmc_cur_lba, mmc_blocks_total, mmc_blocks_consumed>>

ReadSkip ==
  /\ task = "read"
  /\ mmc_bio_status # "BUSY"
  /\ task' = "stream"
  /\ UNCHANGED <<readVars, read_buf, streamVars, dma, ctlVars, hostVars>>

ReadAllIssued ==
  /\ task = "read"
  /\ mmc_bio_status = "BUSY"
  /\ mmc_blocks_issued >= mmc_blocks_total
  /\ mmc_bio_status' = IF mmc_blocks_consumed >= mmc_blocks_total
                       THEN "DONE" ELSE "BUSY"
  /\ task' = "stream"
  /\ UNCHANGED <<mmc_cur_lba, mmc_blocks_total, mmc_blocks_issued,
                 mmc_blocks_completed, mmc_blocks_consumed, mmc_active_buf,
                 mmc_buf_state, buf_blocks, buf_sent, read_state,
                 read_buf, streamVars, dma, ctlVars, hostVars>>

\* mmc_blocks_total - mmc_blocks_issued, at most a chunk
NextChunk == LET remaining == mmc_blocks_total - mmc_blocks_issued
             IN  IF remaining > ChunkBlocks THEN ChunkBlocks ELSE remaining

CmdArgumentConsumed == mmc_cur_lba + mmc_blocks_consumed

CmdArgument == mmc_cur_lba + mmc_blocks_issued

\* RS_FIND_BUF and RS_SEND_CMD: the command goes out in the same call.
ReadSendCmd ==
  /\ Reading({"FIND_BUF"})
  /\ \E b \in Bufs :
       /\ mmc_buf_state[b] = "FREE"
       /\ b = 1 => mmc_buf_state[0] # "FREE"
       /\ mmc_active_buf' = b
       /\ mmc_buf_state' = [mmc_buf_state EXCEPT ![b] = "SPI_FILLING"]
       /\ buf_blocks' = [buf_blocks EXCEPT ![b] = NextChunk]
       /\ buf_sent' = [buf_sent EXCEPT ![b] = 0]
  /\ int_status' = {}
  /\ argument' = CmdArgument
  /\ ctl' = "command"
  /\ read_state' = "POLL_CMD_COMPLETE"
  /\ UNCHANGED <<mmc_bio_status, mmc_blocks_issued, mmc_blocks_completed, dma>>

ReadNoBuf ==
  /\ Reading({"FIND_BUF"})
  /\ \A b \in Bufs : mmc_buf_state[b] # "FREE"
  /\ UNCHANGED <<mmc_bio_status, mmc_blocks_issued, mmc_blocks_completed,
                 mmc_active_buf, mmc_buf_state, buf_blocks, buf_sent,
                 read_state, dma, ctlVars>>

\* RS_READ_BULK_WAIT falls through to RS_POLL_XFER_COMPLETE once the DMA is done.
PollingUnchecked == {"POLL_CMD_COMPLETE", "POLL_BUF_READY",
                     "READ_BULK_WAIT", "POLL_XFER_COMPLETE"}

Polling == IF dma = NoBuf
           THEN {"POLL_CMD_COMPLETE", "POLL_BUF_READY",
                 "READ_BULK_WAIT", "POLL_XFER_COMPLETE"}
           ELSE {"POLL_CMD_COMPLETE", "POLL_BUF_READY", "POLL_XFER_COMPLETE"}

AfterPoll == IF read_state = "READ_BULK_WAIT" THEN "POLL_XFER_COMPLETE" ELSE read_state

FreeActiveBuf == mmc_buf_state' = [mmc_buf_state EXCEPT ![mmc_active_buf] = "FREE"]

\* INT_ERROR_MASK ends the read in any of the polling states.
ReadError ==
  /\ Reading(Polling)
  /\ Failed
  /\ FreeActiveBuf
  /\ mmc_bio_status' = "ERROR"
  /\ read_state' = AfterPoll
  /\ UNCHANGED <<mmc_blocks_issued, mmc_blocks_completed, mmc_active_buf,
                 buf_blocks, buf_sent, dma, ctlVars>>

Awaited == CASE read_state = "POLL_CMD_COMPLETE" -> "CMD_COMPLETE"
             [] read_state = "POLL_BUF_READY"    -> "BUF_READ_READY"
             [] OTHER                            -> "XFER_COMPLETE"

ReadWait ==
  /\ \/ /\ Reading(Polling) /\ ~Failed /\ Awaited \notin int_status
        /\ read_state' = AfterPoll
     \/ /\ Reading({"READ_BULK_WAIT"}) /\ dma # NoBuf
        /\ UNCHANGED read_state
  /\ UNCHANGED <<mmc_bio_status, mmc_blocks_issued, mmc_blocks_completed,
                 mmc_active_buf, mmc_buf_state, buf_blocks, buf_sent, dma, ctlVars>>

ReadCmdComplete ==
  /\ Reading({"POLL_CMD_COMPLETE"})
  /\ ~Failed
  /\ "CMD_COMPLETE" \in int_status
  /\ int_status' = int_status \ {"CMD_COMPLETE"}
  /\ read_state' = "POLL_BUF_READY"
  /\ UNCHANGED <<mmc_bio_status, mmc_blocks_issued, mmc_blocks_completed,
                 mmc_active_buf, mmc_buf_state, buf_blocks, buf_sent, dma, argument, ctl>>

\* RS_POLL_BUF_READY and RS_READ_BULK: BUF_READ_READY is left set.
ReadBulk ==
  /\ Reading({"POLL_BUF_READY"})
  /\ ~Failed
  /\ "BUF_READ_READY" \in int_status
  /\ dma' = mmc_active_buf
  /\ read_state' = "READ_BULK_WAIT"
  /\ UNCHANGED <<mmc_bio_status, mmc_blocks_issued, mmc_blocks_completed,
                 mmc_active_buf, mmc_buf_state, buf_blocks, buf_sent, ctlVars>>

\* RS_POLL_XFER_COMPLETE and RS_ADVANCE
ReadAdvance ==
  /\ Reading(Polling \cap {"READ_BULK_WAIT", "POLL_XFER_COMPLETE"})
  /\ ~Failed
  /\ "XFER_COMPLETE" \in int_status
  /\ int_status' = int_status \ {"XFER_COMPLETE"}
  /\ LET issued == mmc_blocks_issued + buf_blocks[mmc_active_buf] IN
       /\ mmc_blocks_issued' = issued
       /\ read_state' = IF issued < mmc_blocks_total THEN "FIND_BUF" ELSE "ADVANCE"
  /\ mmc_blocks_completed' = mmc_blocks_completed + buf_blocks[mmc_active_buf]
  /\ mmc_buf_state' = [mmc_buf_state EXCEPT ![mmc_active_buf] = "READY_FOR_USB"]
  /\ UNCHANGED <<mmc_bio_status, mmc_active_buf, buf_blocks, buf_sent, dma, argument, ctl>>

ReadTask == \/ ReadSkip \/ ReadAllIssued \/ ReadSendCmd \/ ReadNoBuf
            \/ ReadError \/ ReadWait \/ ReadCmdComplete \/ ReadBulk \/ ReadAdvance

-----------------------------------------------------------------------------
(* stream_task.                                                            *)

\* What memcpy finds in the buffer: the bytes under a running DMA are junk.
Packet(block, sent) ==
  LET b == block[1]
  IN  << IF dma = b \/ read_buf[b] = Junk THEN Junk ELSE read_buf[b] + block[2],
        sent >>

StreamTurn == task = "stream" /\ task' = "cmd"

StreamIdle ==
  /\ StreamTurn
  /\ stream_state = "IDLE"
  /\ UNCHANGED <<readVars, read_buf, streamVars, dma, ctlVars, hostVars>>

NeverFailed == FALSE

StreamFailed == mmc_bio_status = "ERROR"

\* usb_data_tx_drain holds the main loop until the host has read everything.
StreamError ==
  /\ StreamTurn
  /\ stream_state = "BLOCK_READ"
  /\ StreamFailed
  /\ tx = << >>
  /\ stream_state' = "IDLE"
  /\ UNCHANGED <<readVars, read_buf, usb_block, usb_sent, dma, ctlVars, hostVars>>

Block == IF usb_block = NoBlock THEN GetBuf ELSE usb_block
Sent  == IF usb_block = NoBlock THEN 0 ELSE usb_sent

FinishStreamEarly(block) ==
  stream_state' = IF block = NoBlock /\ mmc_blocks_issued >= mmc_blocks_total
                  THEN "IDLE" ELSE "BLOCK_READ"

\* if (bio == MMC_DONE && !usb_block) stream_state = STREAM_IDLE
FinishStream(block) ==
  stream_state' = IF mmc_bio_status = "DONE" /\ block = NoBlock
                  THEN "IDLE" ELSE "BLOCK_READ"

Streaming == /\ StreamTurn
             /\ stream_state = "BLOCK_READ"
             /\ ~StreamFailed
             /\ UNCHANGED <<mmc_bio_status, mmc_cur_lba, mmc_blocks_total,
                            mmc_blocks_issued, mmc_blocks_completed,
                            mmc_active_buf, buf_blocks, read_state,
                            read_buf, dma, ctlVars, delivered>>

StreamWait ==
  /\ Streaming
  /\ Block = NoBlock \/ Len(tx) = TxSlots
  /\ usb_block' = Block
  /\ usb_sent' = Sent
  /\ FinishStream(Block)
  /\ UNCHANGED <<buf_sent, mmc_blocks_consumed, mmc_buf_state, tx>>

StreamSend ==
  /\ Streaming
  /\ Block # NoBlock
  /\ Len(tx) < TxSlots
  /\ Sent + 1 < Chunks
  /\ tx' = Append(tx, Packet(Block, Sent))
  /\ usb_block' = Block
  /\ usb_sent' = Sent + 1
  /\ FinishStream(Block)
  /\ UNCHANGED <<buf_sent, mmc_blocks_consumed, mmc_buf_state>>

KeepBlock    == usb_block' = Block /\ usb_sent' = 0
ReleaseBlock == usb_block' = NoBlock /\ usb_sent' = 0

StreamSendLast ==
  /\ Streaming
  /\ Block # NoBlock
  /\ Len(tx) < TxSlots
  /\ Sent + 1 >= Chunks
  /\ tx' = Append(tx, Packet(Block, Sent))
  /\ Consume
  /\ ReleaseBlock
  /\ FinishStream(NoBlock)

StreamTask == StreamIdle \/ StreamError \/ StreamWait \/ StreamSend \/ StreamSendLast

-----------------------------------------------------------------------------
(* SPI DMA, controller and USB host.                                       *)

DmaDone ==
  /\ dma # NoBuf
  /\ read_buf' = [read_buf EXCEPT ![dma] =
                    IF ctl = "data" THEN argument ELSE Junk]
  /\ dma' = NoBuf
  /\ ctl' = IF ctl = "data" THEN "drained" ELSE ctl
  /\ UNCHANGED <<task, readVars, streamVars, int_status, argument, hostVars>>

CtlStep(from, to, bit) ==
  /\ ctl = from
  /\ ctl' = to
  /\ int_status' = int_status \cup {bit}
  /\ UNCHANGED <<task, readVars, read_buf, streamVars, dma, argument, hostVars>>

CtlResponse == CtlStep("command", "access", "CMD_COMPLETE")
CtlBufReady == CtlStep("access", "data", "BUF_READ_READY")
CtlComplete == CtlStep("drained", "idle", "XFER_COMPLETE")

CtlError == MmcMayFail /\ \E from \in {"command", "access", "data", "drained"} :
                            CtlStep(from, "idle", "ERROR")

HostRead ==
  /\ tx # << >>
  /\ Len(delivered) < mmc_blocks_total * Chunks
  /\ delivered' = Append(delivered, Head(tx))
  /\ tx' = Tail(tx)
  /\ UNCHANGED <<task, readVars, read_buf, streamVars, dma, ctlVars>>

\* pf_data_drain, after a request that went wrong, throws away what is left.
HostDrain ==
  /\ tx # << >>
  /\ Len(delivered) >= mmc_blocks_total * Chunks
  /\ tx' = Tail(tx)
  /\ UNCHANGED <<task, readVars, read_buf, streamVars, dma, ctlVars, delivered>>

-----------------------------------------------------------------------------
Init ==
  /\ task = "cmd"
  /\ mmc_bio_status = "IDLE"
  /\ mmc_cur_lba = 0
  /\ mmc_blocks_total = 0
  /\ mmc_blocks_issued = 0
  /\ mmc_blocks_completed = 0
  /\ mmc_blocks_consumed = 0
  /\ mmc_active_buf = 0
  /\ mmc_buf_state = [b \in Bufs |-> "FREE"]
  /\ buf_blocks = [b \in Bufs |-> 0]
  /\ buf_sent = [b \in Bufs |-> 0]
  /\ read_state = "FIND_BUF"
  /\ read_buf = [b \in Bufs |-> Junk]
  /\ stream_state = "IDLE"
  /\ usb_block = NoBlock
  /\ usb_sent = 0
  /\ dma = NoBuf
  /\ int_status = {}
  /\ argument = 0
  /\ ctl = "idle"
  /\ tx = << >>
  /\ delivered = << >>

Loop == CmdBlockRead \/ NoCommand \/ ReadTask \/ StreamTask

Next == \/ Loop \/ DmaDone
        \/ CtlResponse \/ CtlBufReady \/ CtlComplete \/ CtlError
        \/ HostRead \/ HostDrain

Spec == Init /\ [][Next]_vars

\* The main loop never stops turning, a DMA and a command the controller has
\* taken run to their end, and the host reads what it has asked for.
Fairness ==
  /\ WF_vars(Loop)
  /\ WF_vars(DmaDone)
  /\ WF_vars(CtlResponse) /\ WF_vars(CtlBufReady) /\ WF_vars(CtlComplete)
  /\ WF_vars(HostRead) /\ WF_vars(HostDrain)

FairSpec == Spec /\ Fairness

-----------------------------------------------------------------------------
(* Properties.                                                             *)

BlockRefs == (Bufs \X (0 .. ChunkBlocks - 1)) \cup {NoBlock}
Packets   == (Nat \cup {Junk}) \X (0 .. Chunks - 1)

BufferTypeOK ==
  /\ mmc_blocks_total \in 0 .. MaxCount
  /\ mmc_blocks_issued \in 0 .. MaxCount
  /\ mmc_blocks_completed \in 0 .. MaxCount
  /\ mmc_blocks_consumed \in 0 .. MaxCount
  /\ mmc_active_buf \in Bufs
  /\ mmc_buf_state \in [Bufs -> {"FREE", "SPI_FILLING", "READY_FOR_USB"}]
  /\ buf_blocks \in [Bufs -> 0 .. ChunkBlocks]
  /\ buf_sent \in [Bufs -> 0 .. ChunkBlocks]

ReadTypeOK ==
  /\ task \in {"cmd", "read", "stream"}
  /\ mmc_bio_status \in {"IDLE", "BUSY", "DONE", "ERROR"}
  /\ mmc_cur_lba \in Nat
  /\ read_state \in {"FIND_BUF", "POLL_CMD_COMPLETE", "POLL_BUF_READY",
                     "READ_BULK_WAIT", "POLL_XFER_COMPLETE", "ADVANCE"}

SpiTypeOK ==
  /\ read_buf \in [Bufs -> Nat \cup {Junk}]
  /\ dma \in Bufs \cup {NoBuf}
  /\ int_status \subseteq IntBits
  /\ argument \in Nat
  /\ ctl \in {"command", "access", "data", "drained", "idle"}

StreamTypeOK ==
  /\ stream_state \in {"IDLE", "BLOCK_READ"}
  /\ usb_block \in BlockRefs
  /\ usb_sent \in 0 .. Chunks - 1
  /\ tx \in Seq(Packets) /\ Len(tx) <= TxSlots
  /\ delivered \in Seq(Packets)

\* Every variable keeps to its range; the uint16_t counters never overflow.
TypeOK == BufferTypeOK /\ ReadTypeOK /\ SpiTypeOK /\ StreamTypeOK

\* Blocks read and not yet sent in a buffer that is ready.
Unsent == [b \in Bufs |-> IF mmc_buf_state[b] = "READY_FOR_USB"
                          THEN buf_blocks[b] - buf_sent[b] ELSE 0]

Accounted ==
  mmc_blocks_completed = mmc_blocks_consumed + Unsent[0] + Unsent[1]

InRequest == /\ mmc_blocks_completed = mmc_blocks_issued
             /\ mmc_blocks_issued <= mmc_blocks_total

\* The read task has a command out and polls for it.
Polled == /\ mmc_bio_status = "BUSY"
          /\ read_state \notin {"FIND_BUF", "ADVANCE"}

FillingIsPolled ==
  \A b \in Bufs :
    mmc_buf_state[b] = "SPI_FILLING" <=> b = mmc_active_buf /\ Polled

\* No block is lost or invented by the bookkeeping: what has been completed and
\* not consumed is exactly what the ready buffers hold, and a buffer is being
\* filled only by the command the read task is polling.
Conservation == Accounted /\ InRequest /\ FillingIsPolled

ReadyInRange ==
  \A b \in Bufs : mmc_buf_state[b] = "READY_FOR_USB" =>
    /\ dma # b
    /\ read_buf[b] \in Nat
    /\ mmc_cur_lba <= read_buf[b]
    /\ read_buf[b] + buf_blocks[b] <= mmc_cur_lba + mmc_blocks_issued

ReadyDisjoint ==
  (\A b \in Bufs : mmc_buf_state[b] = "READY_FOR_USB") =>
    \/ read_buf[0] + buf_blocks[0] <= read_buf[1]
    \/ read_buf[1] + buf_blocks[1] <= read_buf[0]

\* A buffer handed to the USB side holds blocks of the request that the DMA has
\* read into it, and the two buffers never hold the same block.
ReadyBuffersHoldData == ReadyInRange /\ ReadyDisjoint

\* stream_task sends from completed blocks only: the block it is in the middle
\* of is the next one of a buffer that is still ready (mmc.h, "Pull completed
\* 512-byte blocks").
HeldBlockCompleted ==
  usb_block # NoBlock =>
    /\ Pending(usb_block[1])
    /\ usb_block[2] = buf_sent[usb_block[1]]
    /\ stream_state = "BLOCK_READ"

\* The SPI bus is never used by the read task while a DMA transfer runs on it:
\* the only thing it does then is to wait.
SpiExclusive ==
  dma # NoBuf => /\ read_state = "READ_BULK_WAIT"
                 /\ mmc_bio_status = "BUSY"
                 /\ mmc_blocks_issued < mmc_blocks_total

\* The host is given neither a packet more nor a packet less than the consumed
\* blocks and the started one make.
ExactLength ==
  Len(delivered) + Len(tx) = mmc_blocks_consumed * Chunks + usb_sent

\* "dump <file>: Dump eMMC contents to file" (pfcli/main.c): the blocks arrive
\* in order, each once.  The code does not keep this, see README.
out == delivered \o tx

InOrder ==
  \A i \in 1 .. Len(out) :
    out[i] = <<mmc_cur_lba + (i - 1) \div Chunks, (i - 1) % Chunks>>

\* It does for requests that fit the two buffers.
ShortStreamInOrder == mmc_blocks_total <= 2 * ChunkBlocks => InOrder

\* The firmware implements the stream contract, with what the host has read and
\* what the endpoint still holds as the stream.
Contract == INSTANCE StreamContract WITH
              open <- stream_state = "BLOCK_READ",
              lba <- mmc_cur_lba,
              count <- mmc_blocks_total
ImplementsContract == Contract!Spec

\* Every request is streamed to its last packet, or given up after an error of
\* the card; either way the host is never left waiting for the device.
RequestAnswered ==
  stream_state = "BLOCK_READ" ~>
    \/ Len(delivered) = mmc_blocks_total * Chunks
    \/ stream_state = "IDLE" /\ mmc_bio_status = "ERROR"

\* A card error closes the stream, even when the host has packets left to read.
ErrorClosesStream == mmc_bio_status = "ERROR" ~> stream_state = "IDLE"
=============================================================================
