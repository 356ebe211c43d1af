--------------------------- MODULE BlockReadProofs ---------------------------
(***************************************************************************)
(* Proofs about the block-read pipeline, for every request size, start     *)
(* address, chunk size and packet size.                                    *)
(***************************************************************************)
EXTENDS BlockRead, TLAPS

-----------------------------------------------------------------------------
(* The inductive invariant that holds with and without card errors.        *)

\* A ready buffer has something to send.
ReadyUnsent == \A b \in Bufs : mmc_buf_state[b] = "READY_FOR_USB" =>
                                 buf_sent[b] < buf_blocks[b]

\* The chunk under way fits the request.
ChunkFits ==
  Polled => /\ buf_sent[mmc_active_buf] = 0
            /\ buf_blocks[mmc_active_buf] > 0
            /\ mmc_blocks_issued + buf_blocks[mmc_active_buf] <= mmc_blocks_total

\* What read.c and the stream of a request rely on, whatever else the main loop
\* does beside them with stream_state and the controller.
PipeTypeOK ==
  /\ BufferTypeOK /\ ReadTypeOK /\ SpiTypeOK
  /\ usb_block \in BlockRefs /\ usb_sent \in 0 .. Chunks - 1
  /\ tx \in Seq(Packets) /\ Len(tx) <= TxSlots
  /\ delivered \in Seq(Packets)

Books == /\ Accounted /\ InRequest /\ ReadyUnsent /\ ChunkFits
         /\ mmc_bio_status = "BUSY" => FillingIsPolled

PipeInv == PipeTypeOK /\ Books

IInv == TypeOK /\ Accounted /\ InRequest /\ FillingIsPolled /\ ReadyUnsent /\ ChunkFits

-----------------------------------------------------------------------------
(* What holds in addition as long as the card does not fail.               *)

NoError == "ERROR" \notin int_status /\ mmc_bio_status # "ERROR"

\* A finished read leaves the state machine where it can be started again.
Rested == mmc_bio_status # "BUSY" => read_state \in {"FIND_BUF", "ADVANCE"}

\* The controller is where the read task believes it to be.
InStep == /\ ctl # "idle" => Polled
          /\ Polled => argument = mmc_cur_lba + mmc_blocks_issued

Answering ==
  /\ ctl = "command" => int_status = {}
  /\ ctl = "access" => int_status \subseteq {"CMD_COMPLETE"}
  /\ "BUF_READ_READY" \in int_status
       /\ read_state \in {"POLL_CMD_COMPLETE", "POLL_BUF_READY"} => ctl = "data"

\* A transfer runs while the controller offers data, into the active buffer.
Filling == dma # NoBuf => ctl = "data" /\ dma = mmc_active_buf

\* Once the controller is drained, the active buffer holds what was asked for.
Drained == \/ "XFER_COMPLETE" \in int_status
           \/ ctl = "drained"
Filled ==
  Drained => /\ read_state \in {"READ_BULK_WAIT", "POLL_XFER_COMPLETE"}
             /\ dma = NoBuf
             /\ read_buf[mmc_active_buf] = argument
             /\ ("XFER_COMPLETE" \in int_status => ctl = "idle")

\* stream_task holds no part of a block when it holds no block, and the read is
\* over once the stream is.
StreamInv ==
  /\ usb_block = NoBlock => usb_sent = 0
  /\ stream_state = "IDLE" => mmc_bio_status # "BUSY"

NoFaultInv == /\ NoError /\ Rested
              /\ InStep /\ Answering /\ Filling /\ Filled
              /\ SpiExclusive /\ ReadyInRange /\ ReadyDisjoint
              /\ StreamInv /\ HeldBlockCompleted /\ ExactLength

bufVars == <<mmc_blocks_total, mmc_blocks_issued, mmc_blocks_completed,
             mmc_blocks_consumed, mmc_active_buf, mmc_buf_state, buf_blocks, buf_sent>>

\* A step that touches no buffer and no counter, and sends no command.
Advancing == /\ UNCHANGED bufVars
             /\ mmc_bio_status' = "BUSY" => mmc_bio_status = "BUSY" /\ (Polled <=> Polled')

\* Such a step leaves the bookkeeping as it is.
LEMMA AdvancingKeeps == ASSUME Books, Advancing PROVE Books'
<1> USE DEF Books
<1>0. Polled' => Polled
  BY DEF Polled, Advancing
<1>1. Accounted' /\ InRequest' /\ ReadyUnsent'
  BY DEF Accounted, Unsent, InRequest, ReadyUnsent, Advancing, bufVars
<1>2. mmc_bio_status' = "BUSY" => FillingIsPolled'
  BY DEF FillingIsPolled, Advancing, bufVars
<1>3. ChunkFits'
  BY <1>0 DEF ChunkFits, Advancing, bufVars
<1> QED
  BY <1>1, <1>2, <1>3

\* What the arithmetic needs of the constants.
LEMMA Bounds == /\ MaxCount \in Nat
                /\ ChunkBlocks \in Nat /\ 0 < ChunkBlocks
                /\ Chunks \in Nat /\ 0 < Chunks
<1>1. MaxCount \in Nat
  BY CountAssumption
<1>2. ChunkBlocks \in Nat /\ 0 < ChunkBlocks
  BY ChunkAssumption
<1>3. Chunks \in Nat /\ 0 < Chunks
  BY ChunkAssumption
<1> QED
  BY <1>1, <1>2, <1>3

\* Products of naturals are naturals.
LEMMA ProductNat == ASSUME NEW a \in Nat, NEW b \in Nat PROVE a * b \in Nat
  OBVIOUS

\* Addresses are natural numbers.
LEMMA LbasNat == Lbas \subseteq Nat
  BY DataAssumption

\* The types the arithmetic below needs.
LEMMA PipeTypes == ASSUME PipeInv
  PROVE /\ mmc_blocks_total \in Nat /\ mmc_blocks_issued \in Nat
        /\ mmc_blocks_completed \in Nat /\ mmc_blocks_consumed \in Nat
        /\ mmc_active_buf \in Bufs
        /\ \A b \in Bufs : buf_blocks[b] \in Nat /\ buf_sent[b] \in Nat
  BY Bounds DEF PipeInv, PipeTypeOK, BufferTypeOK

\* A ready buffer never has sent more blocks than it holds.
LEMMA PipeUnsent == ASSUME PipeInv PROVE \A b \in Bufs : Unsent[b] \in Nat
<1>1. SUFFICES ASSUME NEW b \in Bufs PROVE Unsent[b] \in Nat
  OBVIOUS
<1> QED
  BY PipeTypes DEF PipeInv, Books, Unsent, ReadyUnsent

\* The arithmetic of ReadAdvance: k more blocks completed, all in one buffer.
LEMMA AddCommutes ==
  ASSUME NEW n \in Nat, NEW k \in Nat, NEW c \in Nat, NEW u \in Nat, NEW v \in Nat,
         n = c + u + v
  PROVE  n + k = c + (u + k) + v /\ n + k = c + u + (v + k)
  OBVIOUS

\* The arithmetic of Consume: one more block consumed, taken from one buffer.
LEMMA AddCommutes2 ==
  ASSUME NEW n \in Nat, NEW c \in Nat, NEW u \in Nat, NEW v \in Nat,
         n = c + u + v
  PROVE  /\ u > 0 => n = (c + 1) + (u - 1) + v
         /\ v > 0 => n = (c + 1) + u + (v - 1)
  OBVIOUS

\* mmc_read_start resets all of the bookkeeping at once.
LEMMA StartReadKeeps ==
  ASSUME NEW lba, NEW count \in Nat, StartRead(lba, count)
  PROVE  Books'
<1> USE DEF StartRead, ResetCounters
<1>1. Accounted'
  BY DEF Accounted, Unsent, Bufs
<1>2. InRequest'
  BY DEF InRequest
<1>3. FillingIsPolled'
  BY DEF FillingIsPolled, Polled
<1>4. ReadyUnsent'
  BY DEF ReadyUnsent
<1>5. ChunkFits'
  BY DEF ChunkFits, Polled
<1> QED
  BY <1>1, <1>2, <1>3, <1>4, <1>5 DEF Books

\* An error frees the buffer that was being filled and ends the read.
LEMMA ReadErrorKeeps ==
  ASSUME PipeInv, ReadError
  PROVE  Books'
<1> USE DEF PipeInv, Books, ReadError, FreeActiveBuf, Reading
<1>0. Polled /\ ~Polled'
  BY DEF Polled, Polling
<1>1. Accounted'
  <2>1. Unsent' = Unsent
    BY <1>0, PipeTypes DEF Unsent, FillingIsPolled
  <2> QED
    BY <2>1 DEF Accounted
<1>2. InRequest'
  BY DEF InRequest
<1>3. FillingIsPolled'
  BY <1>0, PipeTypes DEF FillingIsPolled, PipeTypeOK, BufferTypeOK
<1>4. ReadyUnsent'
  BY DEF ReadyUnsent, PipeTypeOK, BufferTypeOK
<1>5. ChunkFits'
  BY <1>0 DEF ChunkFits
<1> QED
  BY <1>1, <1>2, <1>3, <1>4, <1>5

\* A chunk is not empty, not larger than CHUNK_BLOCKS and fits the request.
LEMMA ChunkBounds ==
  ASSUME mmc_blocks_total \in Nat, mmc_blocks_issued \in Nat, ChunkBlocks \in Nat, 0 < ChunkBlocks,
         mmc_blocks_issued < mmc_blocks_total
  PROVE  /\ NextChunk \in 1 .. ChunkBlocks
         /\ mmc_blocks_issued + NextChunk <= mmc_blocks_total
  BY DEF NextChunk

\* RS_FIND_BUF takes a free buffer for a chunk that fits the request.
LEMMA ReadSendCmdKeeps ==
  ASSUME PipeInv, ReadSendCmd
  PROVE  Books'
<1> USE DEF PipeInv, Books
<1>0. PICK c \in Bufs :
        /\ mmc_buf_state[c] = "FREE"
        /\ mmc_active_buf' = c
        /\ mmc_buf_state' = [mmc_buf_state EXCEPT ![c] = "SPI_FILLING"]
        /\ buf_blocks' = [buf_blocks EXCEPT ![c] = NextChunk]
        /\ buf_sent' = [buf_sent EXCEPT ![c] = 0]
  BY DEF ReadSendCmd
<1>a. mmc_bio_status = "BUSY" /\ ~Polled /\ Polled'
  BY DEF ReadSendCmd, Reading, Polled
<1>b. NextChunk \in Nat /\ 0 < NextChunk
      /\ mmc_blocks_issued + NextChunk <= mmc_blocks_total
  <2>1. mmc_blocks_issued < mmc_blocks_total
    BY DEF ReadSendCmd, Reading
  <2> QED
    BY <2>1, PipeTypes, Bounds, ChunkBounds
<1>c. UNCHANGED <<mmc_blocks_total, mmc_blocks_issued, mmc_blocks_completed, mmc_blocks_consumed>>
  BY DEF ReadSendCmd, Reading
<1>t. /\ mmc_buf_state \in [Bufs -> {"FREE", "SPI_FILLING", "READY_FOR_USB"}]
      /\ buf_blocks \in [Bufs -> 0 .. ChunkBlocks]
      /\ buf_sent \in [Bufs -> 0 .. ChunkBlocks]
  BY DEF PipeTypeOK, BufferTypeOK
<1>1. Accounted'
  <2>1. Unsent' = Unsent
    BY <1>0, <1>t DEF Unsent
  <2> QED
    BY <2>1, <1>c DEF Accounted
<1>2. InRequest'
  BY <1>c DEF InRequest
<1>3. FillingIsPolled'
  BY <1>0, <1>a, <1>t DEF FillingIsPolled
<1>4. ReadyUnsent'
  BY <1>0, <1>t DEF ReadyUnsent
<1>5. ChunkFits'
  BY <1>0, <1>b, <1>c, <1>t DEF ChunkFits
<1> QED
  BY <1>1, <1>2, <1>3, <1>4, <1>5

\* RS_ADVANCE hands the filled buffer to the USB side and counts its blocks.
LEMMA ReadAdvanceKeeps ==
  ASSUME PipeInv, ReadAdvance
  PROVE  Books'
<1> USE DEF PipeInv, Books
<1> DEFINE a == mmc_active_buf
           n == buf_blocks[a]
<1>0. /\ mmc_blocks_issued' = mmc_blocks_issued + n
      /\ mmc_blocks_completed' = mmc_blocks_completed + n
      /\ mmc_buf_state' = [mmc_buf_state EXCEPT ![a] = "READY_FOR_USB"]
      /\ UNCHANGED <<mmc_blocks_total, mmc_blocks_consumed, mmc_active_buf,
                     buf_blocks, buf_sent>>
  BY DEF ReadAdvance, Reading
<1>a. mmc_bio_status = "BUSY" /\ Polled /\ ~Polled'
  BY DEF ReadAdvance, Reading, Polled
<1>b. /\ mmc_buf_state \in [Bufs -> {"FREE", "SPI_FILLING", "READY_FOR_USB"}]
      /\ a \in Bufs /\ mmc_buf_state[a] = "SPI_FILLING"
  BY <1>a DEF PipeTypeOK, BufferTypeOK, FillingIsPolled
<1>c. n \in Nat /\ buf_sent[a] = 0 /\ n > 0 /\ mmc_blocks_issued + n <= mmc_blocks_total
  BY <1>a, <1>b, PipeTypes DEF ChunkFits
<1>1. Accounted'
  <2>1. Unsent[a] = 0 /\ Unsent'[a] = n
    BY <1>0, <1>b, <1>c DEF Unsent
  <2>a. \A b \in Bufs : b # a => Unsent'[b] = Unsent[b]
    BY <1>0, <1>b DEF Unsent
  <2>2. a = 0 \/ a = 1
    BY <1>b DEF Bufs
  <2>3. Unsent[0] \in Nat /\ Unsent[1] \in Nat
    BY PipeUnsent DEF Bufs
  <2>6. mmc_blocks_completed \in Nat /\ mmc_blocks_consumed \in Nat
    BY PipeTypes
  <2>7. mmc_blocks_completed = mmc_blocks_consumed + Unsent[0] + Unsent[1]
    BY DEF Accounted
  <2>4. CASE a = 0
    <3>1. Unsent'[0] = Unsent[0] + n /\ Unsent'[1] = Unsent[1]
      BY <2>1, <2>a, <2>3, <2>4, <1>c DEF Bufs
    <3>2. mmc_blocks_completed + n = mmc_blocks_consumed + (Unsent[0] + n) + Unsent[1]
      BY <2>3, <2>6, <2>7, <1>c, AddCommutes
    <3> QED
      BY <3>1, <3>2, <1>0 DEF Accounted
  <2>5. CASE a = 1
    <3>1. Unsent'[1] = Unsent[1] + n /\ Unsent'[0] = Unsent[0]
      BY <2>1, <2>a, <2>3, <2>5, <1>c DEF Bufs
    <3>2. mmc_blocks_completed + n = mmc_blocks_consumed + Unsent[0] + (Unsent[1] + n)
      BY <2>3, <2>6, <2>7, <1>c, AddCommutes
    <3> QED
      BY <3>1, <3>2, <1>0 DEF Accounted
  <2> QED
    BY <2>2, <2>4, <2>5
<1>2. InRequest'
  BY <1>0, <1>c, PipeTypes DEF InRequest
<1>3. FillingIsPolled'
  BY <1>0, <1>a, <1>b DEF FillingIsPolled
<1>4. ReadyUnsent'
  BY <1>0, <1>b, <1>c DEF ReadyUnsent
<1>5. ChunkFits'
  BY <1>a DEF ChunkFits
<1> QED
  BY <1>1, <1>2, <1>3, <1>4, <1>5

\* The scan of the buffers finds a pending one if there is one.
LEMMA FirstPendingIsPending ==
  /\ FirstPending \in Bufs \cup {NoBuf}
  /\ FirstPending # NoBuf => FirstPending \in Bufs /\ Pending(FirstPending)
  /\ FirstPending = NoBuf => ~Pending(0) /\ ~Pending(1)
BY DEF FirstPending, Bufs, NoBuf

\* mmc_read_consume moves one block from unsent to consumed.
LEMMA ConsumeKeeps ==
  ASSUME PipeInv, Consume,
         UNCHANGED <<mmc_blocks_total, mmc_blocks_issued, mmc_blocks_completed,
                     mmc_active_buf, buf_blocks, mmc_bio_status, read_state>>
  PROVE  Books'
<1> USE DEF PipeInv, Books
<1>1. CASE FirstPending = NoBuf
  <2>1. Advancing
    BY <1>1 DEF Consume, Advancing, bufVars, Polled
  <2> QED
    BY <2>1, AdvancingKeeps
<1>2. CASE FirstPending # NoBuf
  <2> DEFINE c == FirstPending
             left == IF Emptied(c) THEN "FREE" ELSE "READY_FOR_USB"
  <2>0. /\ c \in Bufs /\ mmc_buf_state[c] = "READY_FOR_USB" /\ buf_sent[c] < buf_blocks[c]
        /\ c = 0 \/ c = 1
    BY <1>2, FirstPendingIsPending DEF Pending, Bufs
  <2>t. /\ mmc_buf_state \in [Bufs -> {"FREE", "SPI_FILLING", "READY_FOR_USB"}]
        /\ buf_blocks \in [Bufs -> 0 .. ChunkBlocks]
        /\ buf_sent \in [Bufs -> 0 .. ChunkBlocks]
    BY DEF PipeTypeOK, BufferTypeOK
  <2>a. /\ buf_sent' = [buf_sent EXCEPT ![c] = @ + 1]
        /\ mmc_blocks_consumed' = mmc_blocks_consumed + 1
        /\ mmc_buf_state' = [mmc_buf_state EXCEPT ![c] = left]
    BY <1>2, <2>0, <2>t DEF Consume
  <2>b. buf_blocks[c] \in Nat /\ buf_sent[c] \in Nat
    BY <2>0, PipeTypes
  <2>c. Polled' <=> Polled
    BY DEF Polled
  <2>1. Accounted'
    <3>1. Unsent'[c] = Unsent[c] - 1 /\ Unsent[c] > 0
      BY <2>0, <2>t, <2>a, <2>b DEF Unsent, Emptied
    <3>2. \A b \in Bufs : b # c => Unsent'[b] = Unsent[b]
      BY <2>0, <2>t, <2>a DEF Unsent
    <3>3. Unsent[0] \in Nat /\ Unsent[1] \in Nat
      BY PipeUnsent DEF Bufs
    <3>4. CASE c = 0
      <4>1. Unsent'[0] = Unsent[0] - 1 /\ Unsent[0] > 0 /\ Unsent'[1] = Unsent[1]
        BY <3>1, <3>2, <3>4 DEF Bufs
      <4> QED
        BY <4>1, <3>3, <2>a, PipeTypes, AddCommutes2 DEF Accounted
    <3>5. CASE c = 1
      <4>1. Unsent'[1] = Unsent[1] - 1 /\ Unsent[1] > 0 /\ Unsent'[0] = Unsent[0]
        BY <3>1, <3>2, <3>5 DEF Bufs
      <4> QED
        BY <4>1, <3>3, <2>a, PipeTypes, AddCommutes2 DEF Accounted
    <3> QED
      BY <3>4, <3>5, <2>0
  <2>2. InRequest'
    BY DEF InRequest
  <2>3. mmc_bio_status' = "BUSY" => FillingIsPolled'
    BY <2>0, <2>a, <2>c, <2>t DEF FillingIsPolled
  <2>4. ReadyUnsent'
    BY <2>0, <2>a, <2>b, <2>t DEF ReadyUnsent, Emptied
  <2>5. ChunkFits'
    <3> SUFFICES ASSUME Polled' PROVE ChunkFits'
      BY DEF ChunkFits
    <3>1. mmc_buf_state[mmc_active_buf] = "SPI_FILLING"
      BY <2>c, PipeTypes DEF FillingIsPolled, Polled
    <3> QED
      BY <3>1, <2>0, <2>a, <2>c, <2>t, PipeTypes DEF ChunkFits
  <2> QED
    BY <2>1, <2>2, <2>3, <2>4, <2>5
<1> QED
  BY <1>1, <1>2

\* What the pipeline does on its own, once a request has been started.
PipeStep == \/ ReadTask \/ StreamTask \/ DmaDone
            \/ CtlResponse \/ CtlBufReady \/ CtlComplete \/ CtlError \/ HostRead

\* Its steps keep the bookkeeping of the two buffers.
LEMMA BooksKept == ASSUME PipeInv, PipeStep PROVE Books'
<1> USE DEF PipeInv
<1>2. CASE ReadSendCmd
  BY <1>2, ReadSendCmdKeeps
<1>3. CASE ReadError
  BY <1>3, ReadErrorKeeps
<1>4. CASE ReadAdvance
  BY <1>4, ReadAdvanceKeeps
<1>5. CASE StreamSendLast
  BY <1>5, ConsumeKeeps DEF StreamSendLast, Streaming
<1>6. CASE \/ ReadAllIssued \/ ReadWait \/ ReadCmdComplete \/ ReadBulk
  <2>1. mmc_blocks_issued >= mmc_blocks_total => ~Polled
    BY PipeTypes DEF Books, ChunkFits
  <2>2. Advancing
    BY <1>6, <2>1, PipeTypes DEF ReadAllIssued, ReadWait, ReadCmdComplete, ReadBulk, Reading,
                Polling, AfterPoll, Advancing, bufVars, Polled
  <2> QED
    BY <2>2, AdvancingKeeps
<1>7. CASE \/ ReadSkip \/ ReadNoBuf
           \/ StreamIdle \/ StreamError \/ StreamWait \/ StreamSend
           \/ DmaDone \/ CtlResponse \/ CtlBufReady \/ CtlComplete \/ CtlError \/ HostRead
  <2>1. UNCHANGED <<bufVars, mmc_bio_status, read_state>>
    BY <1>7 DEF ReadSkip, ReadNoBuf, Reading,
                StreamIdle, StreamError, StreamWait, StreamSend, Streaming,
                DmaDone, CtlResponse, CtlBufReady, CtlComplete, CtlError, CtlStep,
                HostRead, readVars, bufVars
  <2>2. Advancing
    BY <2>1 DEF Advancing, bufVars, Polled
  <2> QED
    BY <2>2, AdvancingKeeps
<1> QED
  BY <1>2, <1>3, <1>4, <1>5, <1>6, <1>7 DEF PipeStep, ReadTask, StreamTask

\* The counters and buffer states stay in range.
LEMMA BufferTypeKept == ASSUME PipeInv, PipeStep PROVE BufferTypeOK'
<1> USE DEF PipeInv, PipeTypeOK
<1>2. CASE ReadSendCmd
  <2>0. mmc_blocks_issued < mmc_blocks_total
    BY <1>2 DEF ReadSendCmd, Reading
  <2>1. NextChunk \in 0 .. ChunkBlocks
    <3>1. NextChunk \in 1 .. ChunkBlocks
      BY <2>0, PipeTypes, Bounds, ChunkBounds
    <3> QED
      BY <3>1
  <2>2. PICK c \in Bufs :
          /\ mmc_active_buf' = c
          /\ mmc_buf_state' = [mmc_buf_state EXCEPT ![c] = "SPI_FILLING"]
          /\ buf_blocks' = [buf_blocks EXCEPT ![c] = NextChunk]
          /\ buf_sent' = [buf_sent EXCEPT ![c] = 0]
    BY <1>2 DEF ReadSendCmd
  <2>3. 0 \in 0 .. ChunkBlocks
    BY Bounds
  <2>4. UNCHANGED <<mmc_blocks_total, mmc_blocks_issued, mmc_blocks_completed,
                    mmc_blocks_consumed>>
    BY <1>2 DEF ReadSendCmd, Reading
  <2> QED
    BY <2>1, <2>2, <2>3, <2>4 DEF BufferTypeOK
<1>3. CASE ReadError
  BY <1>3 DEF ReadError, Reading, FreeActiveBuf, BufferTypeOK
<1>4. CASE ReadAdvance
  <2>1. /\ mmc_blocks_issued' = mmc_blocks_issued + buf_blocks[mmc_active_buf]
        /\ mmc_blocks_issued + buf_blocks[mmc_active_buf] <= mmc_blocks_total
        /\ mmc_blocks_completed' = mmc_blocks_issued'
    BY <1>4 DEF ReadAdvance, Reading, Books, ChunkFits, Polled, InRequest
  <2>2. mmc_blocks_issued' \in 0 .. MaxCount
    BY <2>1, PipeTypes, Bounds DEF BufferTypeOK
  <2> QED
    BY <1>4, <2>1, <2>2 DEF ReadAdvance, Reading, BufferTypeOK
<1>5. CASE StreamSendLast
  <2>1. UNCHANGED <<mmc_blocks_total, mmc_blocks_issued, mmc_blocks_completed,
                    mmc_active_buf, buf_blocks>>
    BY <1>5 DEF StreamSendLast, Streaming
  <2>2. CASE FirstPending = NoBuf
    BY <1>5, <2>1, <2>2 DEF StreamSendLast, Consume, BufferTypeOK
  <2>3. CASE FirstPending # NoBuf
    <3> DEFINE c == FirstPending
    <3>1. /\ c \in Bufs /\ buf_sent[c] < buf_blocks[c]
          /\ mmc_buf_state[c] = "READY_FOR_USB"
      BY <2>3, FirstPendingIsPending DEF Pending
    <3>2. buf_sent[c] + 1 \in 0 .. ChunkBlocks
      BY <3>1, Bounds DEF BufferTypeOK
    <3>3. Unsent[c] > 0
      BY <3>1, PipeTypes DEF Unsent
    <3>4. mmc_blocks_consumed + 1 <= mmc_blocks_completed
      <4>1. Unsent[0] \in Nat /\ Unsent[1] \in Nat /\ (Unsent[0] > 0 \/ Unsent[1] > 0)
        BY <3>1, <3>3, PipeUnsent DEF Bufs
      <4> QED
        BY <4>1, PipeTypes DEF Books, Accounted
    <3>5. mmc_blocks_consumed + 1 \in 0 .. MaxCount
      BY <3>4, PipeTypes, Bounds DEF BufferTypeOK
    <3> QED
      BY <1>5, <2>1, <2>3, <3>1, <3>2, <3>5 DEF StreamSendLast, Consume, BufferTypeOK
  <2> QED
    BY <2>2, <2>3
<1>6. CASE \/ ReadSkip \/ ReadAllIssued \/ ReadNoBuf
           \/ ReadWait \/ ReadCmdComplete \/ ReadBulk
           \/ StreamIdle \/ StreamError \/ StreamWait \/ StreamSend
           \/ DmaDone \/ CtlResponse \/ CtlBufReady \/ CtlComplete \/ CtlError \/ HostRead
  <2>1. UNCHANGED bufVars
    BY <1>6 DEF ReadSkip, ReadAllIssued, ReadNoBuf, ReadWait,
                ReadCmdComplete, ReadBulk, Reading,
                StreamIdle, StreamError, StreamWait, StreamSend, Streaming,
                DmaDone, CtlResponse, CtlBufReady, CtlComplete, CtlError, CtlStep,
                HostRead, readVars, bufVars
  <2> QED
    BY <2>1 DEF bufVars, BufferTypeOK
<1> QED
  BY <1>2, <1>3, <1>4, <1>5, <1>6 DEF PipeStep, ReadTask, StreamTask

\* The state machine stays in its states.
LEMMA ReadTypeKept == ASSUME PipeInv, PipeStep PROVE ReadTypeOK'
<1> USE DEF PipeInv, PipeTypeOK, ReadTypeOK
<1>2. CASE ReadTask
  BY <1>2 DEF ReadTask, ReadSkip, ReadAllIssued, ReadSendCmd, ReadNoBuf, ReadError,
              ReadWait, ReadCmdComplete, ReadBulk, ReadAdvance, Reading, AfterPoll, readVars
<1>3. CASE StreamTask
  BY <1>3 DEF StreamTask, StreamIdle, StreamError, StreamWait, StreamSend,
              StreamSendLast, Streaming, StreamTurn, readVars
<1>4. CASE \/ DmaDone \/ CtlResponse \/ CtlBufReady \/ CtlComplete \/ CtlError \/ HostRead
  BY <1>4 DEF DmaDone, CtlResponse, CtlBufReady, CtlComplete, CtlError, CtlStep,
              HostRead, readVars
<1> QED
  BY <1>2, <1>3, <1>4 DEF PipeStep

\* The SPI, DMA and controller state stays in range.
LEMMA SpiTypeKept == ASSUME PipeInv, PipeStep PROVE SpiTypeOK'
<1> USE DEF PipeInv, PipeTypeOK, SpiTypeOK
<1>2. CASE ReadSendCmd
  <2>1. CmdArgument \in Nat
    BY PipeTypes DEF CmdArgument, ReadTypeOK
  <2> QED
    BY <1>2, <2>1 DEF ReadSendCmd, Reading
<1>3. CASE ReadBulk
  BY <1>3, PipeTypes DEF ReadBulk, Reading, ctlVars
<1>4. CASE \/ ReadSkip \/ ReadAllIssued \/ ReadNoBuf \/ ReadError
           \/ ReadWait \/ ReadCmdComplete \/ ReadAdvance
  BY <1>4 DEF ReadSkip, ReadAllIssued, ReadNoBuf, ReadError,
              ReadWait, ReadCmdComplete, ReadAdvance, Reading, ctlVars
<1>5. CASE StreamTask
  BY <1>5 DEF StreamTask, StreamIdle, StreamError, StreamWait, StreamSend,
              StreamSendLast, Streaming, ctlVars
<1>6. CASE DmaDone
  BY <1>6 DEF DmaDone
<1>7. CASE CtlResponse \/ CtlBufReady \/ CtlComplete \/ CtlError
  BY <1>7 DEF CtlResponse, CtlBufReady, CtlComplete, CtlError, CtlStep, IntBits
<1>8. CASE HostRead
  BY <1>8 DEF HostRead, ctlVars
<1> QED
  BY <1>2, <1>3, <1>4, <1>5, <1>6, <1>7, <1>8 DEF PipeStep, ReadTask

\* The block stream_task works on lies in one of the buffers.
LEMMA BlockIsRef == ASSUME PipeInv PROVE Block \in BlockRefs /\ Sent \in 0 .. Chunks - 1
<1> USE DEF PipeInv, PipeTypeOK
<1>1. GetBuf \in BlockRefs
  <2>1. CASE FirstPending = NoBuf
    BY <2>1 DEF GetBuf, BlockRefs
  <2>2. CASE FirstPending # NoBuf
    <3>1. FirstPending \in Bufs /\ buf_sent[FirstPending] < buf_blocks[FirstPending]
      BY <2>2, FirstPendingIsPending DEF Pending
    <3>2. buf_sent[FirstPending] \in 0 .. ChunkBlocks - 1
      BY <3>1, Bounds DEF BufferTypeOK
    <3> QED
      BY <2>2, <3>1, <3>2 DEF GetBuf, BlockRefs
  <2> QED
    BY <2>1, <2>2
<1>2. Sent \in 0 .. Chunks - 1
  BY Bounds DEF Sent
<1> QED
  BY <1>1, <1>2 DEF Block

\* What stream_task submits is a packet of a block or of junk.
LEMMA PacketIsPacket ==
  ASSUME PipeInv, Block # NoBlock PROVE Packet(Block, Sent) \in Packets
<1>1. Block \in Bufs \X (0 .. ChunkBlocks - 1) /\ Sent \in 0 .. Chunks - 1
  BY BlockIsRef DEF BlockRefs
<1>2. PICK b \in Bufs, k \in 0 .. ChunkBlocks - 1 : Block = <<b, k>>
  BY <1>1
<1>3. read_buf[b] \in Nat \cup {Junk}
  BY DEF PipeInv, PipeTypeOK, SpiTypeOK
<1>4. (IF dma = b \/ read_buf[b] = Junk THEN Junk ELSE read_buf[b] + k) \in Nat \cup {Junk}
  BY <1>3, Bounds
<1>5. Packet(Block, Sent) =
        <<IF dma = b \/ read_buf[b] = Junk THEN Junk ELSE read_buf[b] + k, Sent>>
  BY <1>2 DEF Packet
<1> QED
  BY <1>1, <1>4, <1>5 DEF Packets

\* The stream's position and what is on its way to the host stay in range.
LEMMA StreamTypeKept ==
  ASSUME PipeInv, PipeStep
  PROVE  /\ usb_block' \in BlockRefs /\ usb_sent' \in 0 .. Chunks - 1
         /\ tx' \in Seq(Packets) /\ Len(tx') <= TxSlots
         /\ delivered' \in Seq(Packets)
<1> USE DEF PipeInv, PipeTypeOK
<1>2. CASE ReadTask
  BY <1>2 DEF ReadTask, ReadSkip, ReadAllIssued, ReadSendCmd, ReadNoBuf, ReadError,
              ReadWait, ReadCmdComplete, ReadBulk, ReadAdvance, Reading,
              streamVars, hostVars
<1>3. CASE StreamIdle \/ StreamError
  BY <1>3 DEF StreamIdle, StreamError, streamVars, hostVars
<1>4. CASE StreamWait
  BY <1>4, BlockIsRef DEF StreamWait, Streaming
<1>5. CASE StreamSend
  <2>1. Sent + 1 \in 0 .. Chunks - 1
    BY <1>5, BlockIsRef, Bounds DEF StreamSend
  <2>2. tx' \in Seq(Packets) /\ Len(tx') <= TxSlots
    BY <1>5, PacketIsPacket DEF StreamSend, TxSlots
  <2>3. usb_block' \in BlockRefs /\ usb_sent' \in 0 .. Chunks - 1
    BY <1>5, <2>1, BlockIsRef DEF StreamSend
  <2> QED
    BY <1>5, <2>2, <2>3 DEF StreamSend, Streaming
<1>6. CASE StreamSendLast
  <2>1. tx' \in Seq(Packets) /\ Len(tx') <= TxSlots
    BY <1>6, PacketIsPacket DEF StreamSendLast, TxSlots
  <2>2. usb_block' \in BlockRefs /\ usb_sent' \in 0 .. Chunks - 1
    BY <1>6, Bounds DEF StreamSendLast, ReleaseBlock, BlockRefs
  <2> QED
    BY <1>6, <2>1, <2>2 DEF StreamSendLast, Streaming
<1>7. CASE HostRead
  <2>1. Head(tx) \in Packets /\ tx' \in Seq(Packets) /\ Len(tx') <= TxSlots
    BY <1>7 DEF HostRead, TxSlots
  <2> QED
    BY <1>7, <2>1 DEF HostRead, streamVars
<1>9. CASE \/ DmaDone \/ CtlResponse \/ CtlBufReady \/ CtlComplete \/ CtlError
  BY <1>9 DEF DmaDone, CtlResponse, CtlBufReady, CtlComplete, CtlError,
              CtlStep, streamVars, hostVars
<1> QED
  BY <1>2, <1>3, <1>4, <1>5, <1>6, <1>7, <1>9 DEF PipeStep, StreamTask

\* The pipeline keeps its types and its books.
LEMMA PipeKept == ASSUME PipeInv, PipeStep PROVE PipeInv'
  BY BooksKept, BufferTypeKept, ReadTypeKept, SpiTypeKept, StreamTypeKept
     DEF PipeInv, PipeTypeOK

\* A request that is started makes all of them anew.
LEMMA StartReadTypes ==
  ASSUME PipeInv, NEW lba \in Nat, NEW count \in 0 .. MaxCount, StartRead(lba, count),
         task' \in {"cmd", "read", "stream"},
         UNCHANGED <<read_buf, usb_block, usb_sent, dma, ctlVars, tx>>,
         delivered' \in Seq(Packets)
  PROVE  PipeInv'
<1>1. Books'
  BY StartReadKeeps
<1>2. BufferTypeOK'
  BY Bounds DEF StartRead, ResetCounters, BufferTypeOK, Bufs
<1>3. ReadTypeOK'
  BY DEF StartRead, ReadTypeOK
<1> QED
  BY <1>1, <1>2, <1>3 DEF PipeInv, PipeTypeOK, SpiTypeOK, ctlVars

\* BlockRead has no task that takes the buffers away, so the books are kept
\* while no read is under way as well.
LEMMA IInvPipe ==
  IInv <=> PipeInv /\ FillingIsPolled /\ stream_state \in {"IDLE", "BLOCK_READ"}
  BY DEF IInv, TypeOK, StreamTypeOK, PipeInv, PipeTypeOK, Books

\* The types of the invariant, and what is left of a ready buffer.
LEMMA Types == ASSUME IInv
  PROVE /\ mmc_blocks_total \in Nat /\ mmc_blocks_issued \in Nat
        /\ mmc_blocks_completed \in Nat /\ mmc_blocks_consumed \in Nat
        /\ mmc_active_buf \in Bufs
        /\ \A b \in Bufs : buf_blocks[b] \in Nat /\ buf_sent[b] \in Nat
  BY IInvPipe, PipeTypes

LEMMA UnsentNat == ASSUME IInv PROVE \A b \in Bufs : Unsent[b] \in Nat
  BY IInvPipe, PipeUnsent

\* A buffer is SPI_FILLING only while mmc_read_task polls for its command.
LEMMA FillingIsPolledKept == ASSUME IInv, PipeStep PROVE FillingIsPolled'
<1> USE DEF IInv
<1>1. CASE mmc_bio_status' = "BUSY"
  BY <1>1, IInvPipe, BooksKept DEF Books
<1>2. CASE mmc_bio_status' # "BUSY"
  <2>1. ~Polled'
    BY <1>2 DEF Polled
  <2>2. CASE ReadError
    BY <2>1, <2>2, Types DEF FillingIsPolled, Polled, ReadError, Reading, FreeActiveBuf,
                            TypeOK, BufferTypeOK
  <2>3. CASE StreamSendLast
    <3>1. ~Polled
      BY <1>2, <2>3 DEF StreamSendLast, Streaming, Polled
    <3> QED
      BY <2>1, <2>3, <3>1, FirstPendingIsPending
         DEF StreamSendLast, Consume, FillingIsPolled, Pending, TypeOK, BufferTypeOK
  <2>4. CASE ReadAllIssued
    <3>1. ~Polled
      BY <2>4, Types DEF ReadAllIssued, ChunkFits
    <3> QED
      BY <2>1, <2>4, <3>1 DEF ReadAllIssued, FillingIsPolled
  <2>5. CASE ~(ReadError \/ StreamSendLast \/ ReadAllIssued)
    <3>1. UNCHANGED <<mmc_buf_state, mmc_bio_status>>
      BY <1>2, <2>5 DEF PipeStep, ReadTask, ReadSkip, ReadSendCmd, ReadNoBuf, ReadWait,
              ReadCmdComplete, ReadBulk, ReadAdvance, Reading, StreamTask, StreamIdle,
              StreamError, StreamWait, StreamSend, Streaming, DmaDone, CtlResponse,
              CtlBufReady, CtlComplete, CtlError, CtlStep, HostRead, readVars
    <3> QED
      BY <1>2, <2>1, <3>1 DEF FillingIsPolled, Polled
  <2> QED
    BY <2>2, <2>3, <2>4, <2>5
<1> QED
  BY <1>1, <1>2

\* The firmware boots with both buffers free and nothing counted.
LEMMA InitIInv == ASSUME Init PROVE IInv
<1> USE DEF Init
<1>1. BufferTypeOK
  BY Bounds DEF BufferTypeOK, Bufs
<1>2. ReadTypeOK
  BY DEF ReadTypeOK
<1>3. SpiTypeOK
  BY DEF SpiTypeOK
<1>4. StreamTypeOK
  BY Bounds DEF StreamTypeOK, BlockRefs, TxSlots
<1>5. Accounted
  BY DEF Accounted, Unsent, Bufs
<1>6. InRequest
  BY DEF InRequest
<1>7. FillingIsPolled /\ ReadyUnsent /\ ChunkFits
  BY DEF FillingIsPolled, ReadyUnsent, ChunkFits, Polled
<1> QED
  BY <1>1, <1>2, <1>3, <1>4, <1>5, <1>6, <1>7 DEF IInv, TypeOK

\* The invariant is inductive.
LEMMA NextIInv == IInv /\ [Next]_vars => IInv'
<1> SUFFICES ASSUME IInv, [Next]_vars PROVE IInv'
  OBVIOUS
<1>1. CASE PipeStep
  <2>1. stream_state' \in {"IDLE", "BLOCK_READ"}
    BY <1>1, IInvPipe DEF PipeStep, ReadTask, ReadSkip, ReadAllIssued, ReadSendCmd, ReadNoBuf,
           ReadError, ReadWait, ReadCmdComplete, ReadBulk, ReadAdvance, Reading, StreamTask,
           StreamIdle, StreamError, StreamWait, StreamSend, StreamSendLast, Streaming,
           FinishStream, DmaDone, CtlResponse, CtlBufReady, CtlComplete, CtlError, CtlStep,
           HostRead, streamVars
  <2> QED
    BY <1>1, <2>1, IInvPipe, PipeKept, FillingIsPolledKept
       DEF IInv, TypeOK, StreamTypeOK, PipeInv, PipeTypeOK, Books
<1>2. CASE CmdBlockRead
  <2>1. PICK lba \in Nat, count \in 0 .. MaxCount : StartRead(lba, count)
    BY <1>2, LbasNat DEF CmdBlockRead
  <2>2. PipeInv'
    BY <1>2, <2>1, IInvPipe, StartReadTypes DEF CmdBlockRead
  <2>3. FillingIsPolled'
    BY <2>1 DEF StartRead, FillingIsPolled, Polled
  <2> QED
    BY <1>2, <2>2, <2>3
       DEF IInv, TypeOK, StreamTypeOK, PipeInv, PipeTypeOK, Books, CmdBlockRead
<1>3. CASE NoCommand \/ HostDrain \/ UNCHANGED vars
  <2>1. UNCHANGED <<bufVars, mmc_bio_status, read_state, stream_state>>
    BY <1>3 DEF NoCommand, HostDrain, vars, readVars, bufVars, streamVars
  <2>2. Books' /\ FillingIsPolled'
    BY <2>1, IInvPipe, AdvancingKeeps
       DEF PipeInv, Advancing, Polled, FillingIsPolled, bufVars
  <2>3. tx' \in Seq(Packets) /\ Len(tx') <= TxSlots
    BY <1>3, IInvPipe DEF NoCommand, HostDrain, vars, hostVars, PipeInv, PipeTypeOK, TxSlots
  <2>4. PipeTypeOK'
    BY <1>3, <2>3, IInvPipe
       DEF NoCommand, HostDrain, vars, readVars, streamVars, ctlVars, hostVars, PipeInv,
           PipeTypeOK, BufferTypeOK, ReadTypeOK, SpiTypeOK
  <2> QED
    BY <2>1, <2>2, <2>4, IInvPipe
       DEF IInv, TypeOK, StreamTypeOK, PipeInv, PipeTypeOK, Books
<1> QED
  BY <1>1, <1>2, <1>3 DEF Next, Loop, PipeStep

\* Whatever the request sizes, the chunk size and the errors of the card, every
\* variable of the pipeline keeps its type: the uint16_t counters of read.c never
\* exceed the count of the request, the endpoint never holds more than two packets.
THEOREM TypeCorrect == Spec => []TypeOK
<1>1. Init => IInv
  BY InitIInv
<1>2. IInv => TypeOK
  BY DEF IInv
<1> QED
  BY <1>1, <1>2, NextIInv, PTL DEF Spec

\* read.c neither loses nor invents a block, card errors included: the blocks
\* completed are those consumed and those the ready buffers still hold, and a
\* buffer is SPI_FILLING only while mmc_read_task polls for its command.
THEOREM BookkeepingCorrect == Spec => []Conservation
<1>1. Init => IInv
  BY InitIInv
<1>2. IInv => Conservation
  BY DEF IInv, Conservation
<1> QED
  BY <1>1, <1>2, NextIInv, PTL DEF Spec

-----------------------------------------------------------------------------
(* Without card errors.                                                    *)

\* Whole blocks and a part of one make whole blocks only if the part is empty.
LEMMA PacketsOfBlocks ==
  ASSUME NEW c \in Nat, NEW t \in Nat, NEW k \in Nat \ {0}, NEW s \in 0 .. k - 1,
         c < t
  PROVE  c * k + s < t * k
<1>1. c + 1 <= t
  OBVIOUS
<1>2. (c + 1) * k <= t * k
  BY <1>1
<1>3. (c + 1) * k = c * k + k
  OBVIOUS
<1> QED
  BY <1>2, <1>3

\* One more block is Chunks more packets.
LEMMA OneMoreBlock ==
  ASSUME NEW c \in Nat, NEW k \in Nat
  PROVE  (c + 1) * k = c * k + k /\ c * k \in Nat
  OBVIOUS

\* More blocks are at least as many packets.
LEMMA MonoProduct ==
  ASSUME NEW c \in Nat, NEW t \in Nat, NEW k \in Nat, c <= t
  PROVE  c * k <= t * k /\ c * k \in Nat /\ t * k \in Nat
  OBVIOUS

\* As long as a buffer has a pending block, not all that was issued is consumed.
LEMMA PendingNotConsumed ==
  ASSUME IInv, NEW b \in Bufs, Pending(b)
  PROVE  mmc_blocks_consumed < mmc_blocks_total
<1>1. Unsent[b] > 0
  BY Types DEF Pending, Unsent
<1>2. Unsent[0] \in Nat /\ Unsent[1] \in Nat /\ (Unsent[0] > 0 \/ Unsent[1] > 0)
  BY <1>1, UnsentNat DEF Bufs
<1> QED
  BY <1>2, Types DEF IInv, Accounted, InRequest

\* stream_task never consumes more than was issued.
LEMMA ConsumedInRequest == ASSUME IInv PROVE mmc_blocks_consumed <= mmc_blocks_issued
<1>1. Unsent[0] \in Nat /\ Unsent[1] \in Nat
  BY UnsentNat DEF Bufs
<1> QED
  BY <1>1, Types DEF IInv, Accounted, InRequest

\* The host is ready for its next request only when the pipeline is at rest.
LEMMA ReadyHostRests ==
  ASSUME IInv, NoFaultInv, HostReady
  PROVE  /\ usb_block = NoBlock /\ usb_sent = 0 /\ tx = << >>
         /\ ~Polled /\ read_state \in {"FIND_BUF", "ADVANCE"}
<1> USE DEF NoFaultInv
<1>t. /\ Len(tx) \in Nat /\ Len(delivered) \in Nat /\ Chunks \in Nat \ {0}
      /\ tx \in Seq(Packets) /\ usb_sent \in 0 .. Chunks - 1
  BY Bounds DEF IInv, TypeOK, StreamTypeOK
<1>1. CASE Len(delivered) = mmc_blocks_total * Chunks
  <2>1. ~(mmc_blocks_consumed < mmc_blocks_total)
    <3> SUFFICES ASSUME mmc_blocks_consumed < mmc_blocks_total PROVE FALSE
      OBVIOUS
    <3>1. mmc_blocks_consumed * Chunks + usb_sent < mmc_blocks_total * Chunks
      BY <1>t, Types, PacketsOfBlocks
    <3>2. mmc_blocks_consumed * Chunks \in Nat /\ mmc_blocks_total * Chunks \in Nat
      BY Types, Bounds, ProductNat
    <3>3. usb_sent \in Nat
      BY <1>t
    <3>4. mmc_blocks_consumed * Chunks + usb_sent \in Nat
      BY <3>2, <3>3
    <3> QED
      BY <3>1, <3>2, <3>4, <1>1, <1>t DEF ExactLength
  <2>2. /\ mmc_blocks_consumed = mmc_blocks_total
        /\ mmc_blocks_issued = mmc_blocks_total
    BY <2>1, ConsumedInRequest, Types DEF IInv, InRequest
  <2>3. usb_block = NoBlock
    <3> SUFFICES ASSUME usb_block # NoBlock PROVE FALSE
      OBVIOUS
    <3>1. Pending(usb_block[1])
      BY DEF HeldBlockCompleted
    <3>2. usb_block[1] \in Bufs
      BY DEF IInv, TypeOK, StreamTypeOK, BlockRefs
    <3> QED
      BY <3>1, <3>2, <2>1, PendingNotConsumed
  <2>4. usb_sent = 0
    BY <2>3 DEF StreamInv
  <2>5. Len(tx) = 0
    <3>1. mmc_blocks_total * Chunks \in Nat
      BY <1>t, Types
    <3> QED
      BY <3>1, <2>2, <2>4, <1>1, <1>t DEF ExactLength
  <2>6. tx = << >>
    BY <2>5, <1>t
  <2>7. ~Polled
    BY <2>2, Types DEF IInv, ChunkFits
  <2> QED
    BY <2>3, <2>4, <2>6, <2>7 DEF Polled, Rested
<1>2. CASE stream_state = "IDLE" /\ tx = << >>
  BY <1>2 DEF HeldBlockCompleted, StreamInv, Polled, Rested
<1> QED
  BY <1>1, <1>2 DEF HostReady

\* While the DMA runs, its buffer is the one being filled.
LEMMA FillingBuffer ==
  ASSUME IInv, NoFaultInv, dma # NoBuf
  PROVE  /\ Polled /\ dma = mmc_active_buf /\ dma \in Bufs
         /\ mmc_buf_state[dma] = "SPI_FILLING"
<1>1. Polled
  BY DEF NoFaultInv, SpiExclusive, Polled
<1>2. dma = mmc_active_buf
  BY DEF NoFaultInv, Filling
<1> QED
  BY <1>1, <1>2, Types DEF IInv, FillingIsPolled

\* The firmware boots with everything at rest.
LEMMA InitNoFault == ASSUME Init PROVE NoFaultInv
<1> USE DEF Init
<1>1. NoError /\ Rested /\ InStep /\ Answering
  BY DEF NoError, Rested, InStep, Answering, Polled
<1>2. Filling /\ Filled /\ SpiExclusive
  BY DEF Filling, Filled, Drained, SpiExclusive
<1>3. ReadyInRange /\ ReadyDisjoint
  BY DEF ReadyInRange, ReadyDisjoint, Bufs
<1>4. StreamInv /\ HeldBlockCompleted
  BY DEF StreamInv, HeldBlockCompleted
<1>5. ExactLength
  BY Bounds DEF ExactLength
<1> QED
  BY <1>1, <1>2, <1>3, <1>4, <1>5 DEF NoFaultInv

\* The steps of the USB side leave the controller, the DMA and read_state alone.
spiVars == <<mmc_bio_status, mmc_cur_lba, mmc_blocks_total, mmc_blocks_issued,
             mmc_active_buf, buf_blocks, read_state, read_buf, dma, ctlVars>>

Steady == \/ NoCommand \/ ReadSkip \/ ReadNoBuf \/ StreamTask
          \/ HostRead \/ HostDrain \/ UNCHANGED vars

\* These steps leave the read task and the SPI side alone.
LEMMA SteadyKeepsSpi == ASSUME Steady PROVE UNCHANGED spiVars
  BY DEF Steady, StreamTask, NoCommand, ReadSkip, ReadNoBuf, Reading, StreamIdle,
         StreamError, StreamWait, StreamSend, StreamSendLast, Streaming,
         HostRead, HostDrain, vars, readVars, ctlVars, spiVars

\* A controller that does not fail never makes the read task fail.
LEMMA NoErrorKept == ASSUME IInv, NoFaultInv, ~MmcMayFail, [Next]_vars PROVE NoError'
<1> USE DEF NoFaultInv, NoError
<1>1. CASE Steady
  BY <1>1, SteadyKeepsSpi DEF spiVars, ctlVars
<1>2. CASE CmdBlockRead
  BY <1>2 DEF CmdBlockRead, StartRead, ctlVars
<1>3. CASE \/ ReadAllIssued \/ ReadSendCmd \/ ReadError \/ ReadWait
           \/ ReadCmdComplete \/ ReadBulk \/ ReadAdvance
  BY <1>3 DEF ReadAllIssued, ReadSendCmd, ReadError, Failed, ReadWait,
              ReadCmdComplete, ReadBulk, ReadAdvance, Reading, ctlVars
<1>4. CASE DmaDone \/ CtlResponse \/ CtlBufReady \/ CtlComplete \/ CtlError
  BY <1>4 DEF DmaDone, CtlResponse, CtlBufReady, CtlComplete, CtlError, CtlStep, readVars
<1> QED
  BY <1>1, <1>2, <1>3, <1>4 DEF Next, Loop, ReadTask, Steady

\* The read ends in RS_ADVANCE, the next one starts in RS_FIND_BUF.
LEMMA RestedKept == ASSUME IInv, NoFaultInv, ~MmcMayFail, [Next]_vars PROVE Rested'
<1> USE DEF NoFaultInv, Rested
<1>1. CASE Steady
  BY <1>1, SteadyKeepsSpi DEF spiVars
<1>2. CASE CmdBlockRead
  BY <1>2 DEF CmdBlockRead, StartRead
<1>3. CASE ReadAllIssued
  <2>1. ~Polled
    BY <1>3, Types DEF ReadAllIssued, IInv, ChunkFits
  <2> QED
    BY <1>3, <2>1 DEF ReadAllIssued, Polled
<1>4. CASE \/ ReadSendCmd \/ ReadError \/ ReadWait
           \/ ReadCmdComplete \/ ReadBulk \/ ReadAdvance
  BY <1>4 DEF ReadSendCmd, ReadError, Failed, NoError, ReadWait,
              ReadCmdComplete, ReadBulk, ReadAdvance, Reading
<1>5. CASE DmaDone \/ CtlResponse \/ CtlBufReady \/ CtlComplete \/ CtlError
  BY <1>5 DEF DmaDone, CtlResponse, CtlBufReady, CtlComplete, CtlError, CtlStep, readVars
<1> QED
  BY <1>1, <1>2, <1>3, <1>4, <1>5 DEF Next, Loop, ReadTask, Steady

\* REG_ARGUMENT names the chunk under way as long as a command is out.
LEMMA InStepKept == ASSUME IInv, NoFaultInv, ~MmcMayFail, [Next]_vars PROVE InStep'
<1> USE DEF NoFaultInv, InStep
<1>1. CASE Steady
  BY <1>1, SteadyKeepsSpi DEF spiVars, ctlVars, Polled
<1>2. CASE CmdBlockRead
  <2>1. ~Polled
    BY <1>2, ReadyHostRests DEF CmdBlockRead
  <2> QED
    BY <1>2, <2>1 DEF CmdBlockRead, StartRead, ctlVars, Polled
<1>3. CASE ReadAllIssued
  <2>1. ~Polled
    BY <1>3, Types DEF ReadAllIssued, IInv, ChunkFits
  <2> QED
    BY <1>3, <2>1 DEF ReadAllIssued, ctlVars, Polled
<1>4. CASE ReadSendCmd
  BY <1>4 DEF ReadSendCmd, Reading, CmdArgument, Polled
<1>5. CASE ReadAdvance
  <2>1. ctl = "idle"
    BY <1>5 DEF ReadAdvance, Filled, Drained
  <2>2. ~Polled' /\ ctl' = ctl
    BY <1>5 DEF ReadAdvance, Polled
  <2> QED
    BY <2>1, <2>2
<1>6. CASE ReadError \/ ReadWait \/ ReadCmdComplete \/ ReadBulk
  BY <1>6 DEF ReadError, Failed, NoError, ReadWait, ReadCmdComplete, ReadBulk,
              Reading, Polling, AfterPoll, ctlVars, Polled
<1>7. CASE DmaDone \/ CtlResponse \/ CtlBufReady \/ CtlComplete \/ CtlError
  BY <1>7 DEF DmaDone, CtlResponse, CtlBufReady, CtlComplete, CtlError, CtlStep,
              readVars, Polled
<1> QED
  BY <1>1, <1>2, <1>3, <1>4, <1>5, <1>6, <1>7 DEF Next, Loop, ReadTask, Steady

\* The interrupt bits follow the controller: a bit that is set was set by the
\* command under way.
LEMMA AnsweringKept == ASSUME IInv, NoFaultInv, ~MmcMayFail, [Next]_vars PROVE Answering'
<1> USE DEF NoFaultInv, Answering
<1>1. CASE Steady
  BY <1>1, SteadyKeepsSpi DEF spiVars, ctlVars
<1>2. CASE CmdBlockRead
  BY <1>2 DEF CmdBlockRead, StartRead, ctlVars
<1>3. CASE ReadAllIssued \/ ReadError \/ ReadWait \/ ReadCmdComplete \/ ReadBulk
  BY <1>3 DEF ReadAllIssued, ReadError, Failed, NoError, ReadWait, ReadCmdComplete,
              ReadBulk, Reading, Polling, AfterPoll, ctlVars
<1>4. CASE ReadSendCmd
  BY <1>4 DEF ReadSendCmd
<1>5. CASE ReadAdvance
  BY <1>5 DEF ReadAdvance, Reading
<1>6. CASE DmaDone
  <2>1. read_state = "READ_BULK_WAIT"
    BY <1>6 DEF DmaDone, SpiExclusive
  <2> QED
    BY <1>6, <2>1 DEF DmaDone, Filling, readVars
<1>7. CASE CtlResponse \/ CtlBufReady \/ CtlError
  BY <1>7 DEF CtlResponse, CtlBufReady, CtlError, CtlStep, readVars
<1>8. CASE CtlComplete
  BY <1>8 DEF CtlComplete, CtlStep, readVars, Filled, Drained
<1> QED
  BY <1>1, <1>2, <1>3, <1>4, <1>5, <1>6, <1>7, <1>8 DEF Next, Loop, ReadTask, Steady

\* The DMA is started only on the controller's BUF_READ_READY.
LEMMA FillingKept == ASSUME IInv, NoFaultInv, ~MmcMayFail, [Next]_vars PROVE Filling'
<1> USE DEF NoFaultInv, Filling
<1>1. CASE Steady
  BY <1>1, SteadyKeepsSpi DEF spiVars, ctlVars
<1>2. CASE CmdBlockRead
  <2>1. dma = NoBuf
    BY <1>2, ReadyHostRests, FillingBuffer DEF CmdBlockRead
  <2> QED
    BY <1>2, <2>1 DEF CmdBlockRead
<1>3. CASE ReadSendCmd
  BY <1>3 DEF ReadSendCmd, Reading, SpiExclusive
<1>4. CASE ReadBulk
  BY <1>4 DEF ReadBulk, Reading, Answering, ctlVars
<1>5. CASE ReadAllIssued \/ ReadError \/ ReadWait \/ ReadCmdComplete \/ ReadAdvance
  BY <1>5 DEF ReadAllIssued, ReadError, ReadWait, ReadCmdComplete, ReadAdvance,
              ctlVars
<1>6. CASE DmaDone \/ CtlResponse \/ CtlBufReady \/ CtlComplete \/ CtlError
  BY <1>6 DEF DmaDone, CtlResponse, CtlBufReady, CtlComplete, CtlError, CtlStep, readVars
<1> QED
  BY <1>1, <1>2, <1>3, <1>4, <1>5, <1>6 DEF Next, Loop, ReadTask, Steady

\* RS_ADVANCE is reached only with the chunk in the active buffer.
LEMMA FilledKept == ASSUME IInv, NoFaultInv, ~MmcMayFail, [Next]_vars PROVE Filled'
<1> USE DEF NoFaultInv, Filled, Drained
<1>1. CASE Steady
  BY <1>1, SteadyKeepsSpi DEF spiVars, ctlVars
<1>2. CASE CmdBlockRead
  <2>1. ~Drained
    BY <1>2, ReadyHostRests DEF CmdBlockRead
  <2> QED
    BY <1>2, <2>1 DEF CmdBlockRead, ctlVars
<1>3. CASE ReadSendCmd
  BY <1>3 DEF ReadSendCmd
<1>4. CASE ReadBulk
  BY <1>4 DEF ReadBulk, Reading, Answering, ctlVars
<1>5. CASE ReadCmdComplete
  BY <1>5 DEF ReadCmdComplete, Reading
<1>6. CASE ReadAdvance
  BY <1>6 DEF ReadAdvance, Reading
<1>7. CASE ReadAllIssued
  BY <1>7 DEF ReadAllIssued, ctlVars
<1>8. CASE ReadError \/ ReadWait
  BY <1>8 DEF ReadError, Failed, NoError, ReadWait, Reading, AfterPoll, ctlVars
<1>9. CASE DmaDone
  <2>1. /\ read_state = "READ_BULK_WAIT" /\ ctl = "data"
        /\ dma = mmc_active_buf /\ dma \in Bufs
    BY <1>9, FillingBuffer DEF DmaDone, SpiExclusive, Filling
  <2>2. read_buf \in [Bufs -> Nat \cup {Junk}]
    BY DEF IInv, TypeOK, SpiTypeOK
  <2> QED
    BY <1>9, <2>1, <2>2 DEF DmaDone, readVars
<1>10. CASE CtlResponse \/ CtlBufReady \/ CtlError
  BY <1>10 DEF CtlResponse, CtlBufReady, CtlError, CtlStep, readVars, Answering
<1>11. CASE CtlComplete
  BY <1>11 DEF CtlComplete, CtlStep, readVars
<1> QED
  BY <1>1, <1>2, <1>3, <1>4, <1>5, <1>6, <1>7, <1>8, <1>9, <1>10, <1>11
     DEF Next, Loop, ReadTask, Steady

\* Only the start of a bulk read makes the bus busy, and it leads to the wait.
LEMMA SpiExclusiveKept ==
  ASSUME IInv, NoFaultInv, ~MmcMayFail, [Next]_vars PROVE SpiExclusive'
<1> USE DEF NoFaultInv, SpiExclusive
<1>1. CASE Steady
  BY <1>1, SteadyKeepsSpi DEF spiVars
<1>2. CASE CmdBlockRead
  <2>1. dma = NoBuf
    BY <1>2, ReadyHostRests, FillingBuffer DEF CmdBlockRead
  <2> QED
    BY <1>2, <2>1 DEF CmdBlockRead
<1>3. CASE ReadAllIssued
  <2>1. dma = NoBuf
    BY <1>3, Types DEF ReadAllIssued
  <2> QED
    BY <1>3, <2>1 DEF ReadAllIssued
<1>4. CASE ReadSendCmd \/ ReadCmdComplete
  BY <1>4 DEF ReadSendCmd, ReadCmdComplete, Reading
<1>5. CASE ReadBulk
  BY <1>5 DEF ReadBulk, Reading
<1>6. CASE ReadError \/ ReadWait
  BY <1>6 DEF ReadError, Failed, NoError, ReadWait, Reading, Polling, AfterPoll
<1>7. CASE ReadAdvance
  <2>1. dma = NoBuf
    BY <1>7 DEF ReadAdvance, Reading, Polling
  <2> QED
    BY <1>7, <2>1 DEF ReadAdvance
<1>8. CASE DmaDone \/ CtlResponse \/ CtlBufReady \/ CtlComplete \/ CtlError
  BY <1>8 DEF DmaDone, CtlResponse, CtlBufReady, CtlComplete, CtlError, CtlStep, readVars
<1> QED
  BY <1>1, <1>2, <1>3, <1>4, <1>5, <1>6, <1>7, <1>8 DEF Next, Loop, ReadTask, Steady

\* The ready buffers hold blocks of the request that have been issued.
LEMMA ReadyInRangeKept ==
  ASSUME IInv, NoFaultInv, ~MmcMayFail, [Next]_vars PROVE ReadyInRange'
<1>t. /\ mmc_buf_state \in [Bufs -> {"FREE", "SPI_FILLING", "READY_FOR_USB"}]
      /\ read_buf \in [Bufs -> Nat \cup {Junk}]
      /\ mmc_cur_lba \in Nat
  BY DEF IInv, TypeOK, BufferTypeOK, SpiTypeOK, ReadTypeOK
<1> USE DEF NoFaultInv
<1>1. CASE Steady
  <2>1. UNCHANGED spiVars
    BY <1>1, SteadyKeepsSpi
  <2>2. \A b \in Bufs : mmc_buf_state'[b] = "READY_FOR_USB" =>
                          mmc_buf_state[b] = "READY_FOR_USB"
    <3>1. CASE StreamSendLast
      <4>1. CASE FirstPending = NoBuf
        BY <3>1, <4>1 DEF StreamSendLast, Consume
      <4>2. CASE FirstPending # NoBuf
        <5>1. FirstPending \in Bufs
          BY <4>2, FirstPendingIsPending
        <5> QED
          BY <3>1, <4>2, <5>1, <1>t DEF StreamSendLast, Consume
      <4> QED
        BY <4>1, <4>2
    <3>2. CASE ~StreamSendLast
      BY <1>1, <3>2 DEF Steady, StreamTask, NoCommand, ReadSkip, ReadNoBuf, StreamIdle,
             StreamError, StreamWait, StreamSend, HostRead, HostDrain, vars, readVars
    <3> QED
      BY <3>1, <3>2
  <2> QED
    BY <2>1, <2>2 DEF spiVars, ReadyInRange
<1>2. CASE CmdBlockRead
  BY <1>2 DEF CmdBlockRead, StartRead, ReadyInRange
<1>3. CASE ReadAllIssued \/ ReadWait \/ ReadCmdComplete
  BY <1>3 DEF ReadAllIssued, ReadWait, ReadCmdComplete, Reading, ReadyInRange
<1>4. CASE ReadSendCmd
  <2>1. PICK c \in Bufs :
          /\ mmc_buf_state' = [mmc_buf_state EXCEPT ![c] = "SPI_FILLING"]
          /\ buf_blocks' = [buf_blocks EXCEPT ![c] = NextChunk]
    BY <1>4 DEF ReadSendCmd
  <2>2. UNCHANGED <<mmc_cur_lba, mmc_blocks_issued, read_buf, dma>>
    BY <1>4 DEF ReadSendCmd, Reading
  <2>3. \A b \in Bufs : mmc_buf_state'[b] = "READY_FOR_USB" =>
          mmc_buf_state[b] = "READY_FOR_USB" /\ buf_blocks'[b] = buf_blocks[b]
    BY <2>1, <1>t DEF IInv, TypeOK, BufferTypeOK
  <2> QED
    BY <2>2, <2>3 DEF ReadyInRange
<1>5. CASE ReadError
  BY <1>5 DEF ReadError, Failed, NoError
<1>6. CASE ReadBulk
  <2>1. mmc_buf_state[mmc_active_buf] = "SPI_FILLING" /\ dma' = mmc_active_buf
    BY <1>6, Types DEF ReadBulk, Reading, IInv, FillingIsPolled, Polled
  <2>2. UNCHANGED <<mmc_cur_lba, mmc_blocks_issued, read_buf, mmc_buf_state, buf_blocks>>
    BY <1>6 DEF ReadBulk, Reading
  <2> QED
    BY <2>1, <2>2 DEF ReadyInRange
<1>7. CASE ReadAdvance
  <2> DEFINE a == mmc_active_buf
             n == buf_blocks[a]
  <2>1. /\ dma = NoBuf /\ dma' = dma /\ a \in Bufs /\ Polled
        /\ mmc_blocks_issued' = mmc_blocks_issued + n
        /\ mmc_buf_state' = [mmc_buf_state EXCEPT ![a] = "READY_FOR_USB"]
        /\ UNCHANGED <<mmc_cur_lba, read_buf, buf_blocks>>
    BY <1>7, Types DEF ReadAdvance, Reading, Filled, Drained, Polled
  <2>2. read_buf[a] = mmc_cur_lba + mmc_blocks_issued
    BY <1>7, <2>1 DEF ReadAdvance, Filled, Drained, InStep
  <2>3. n \in Nat
    BY <2>1, Types
  <2>4. mmc_cur_lba + mmc_blocks_issued' = (mmc_cur_lba + mmc_blocks_issued) + n
    BY <2>1, <2>3, <1>t, Types
  <2>5. NoBuf \notin Bufs
    BY DEF NoBuf, Bufs
  <2>6. ASSUME NEW b \in Bufs, mmc_buf_state'[b] = "READY_FOR_USB"
        PROVE  /\ dma' # b /\ read_buf'[b] \in Nat
               /\ mmc_cur_lba' <= read_buf'[b]
               /\ read_buf'[b] + buf_blocks'[b] <= mmc_cur_lba' + mmc_blocks_issued'
    <3>1. CASE b = a
      BY <3>1, <2>1, <2>2, <2>3, <2>4, <2>5, <1>t, Types
    <3>2. CASE b # a
      <4>1. mmc_buf_state[b] = "READY_FOR_USB"
        BY <3>2, <2>1, <2>6, <1>t
      <4>2. /\ read_buf[b] \in Nat /\ mmc_cur_lba <= read_buf[b]
            /\ read_buf[b] + buf_blocks[b] <= mmc_cur_lba + mmc_blocks_issued
        BY <4>1 DEF ReadyInRange
      <4>3. read_buf[b] + buf_blocks[b] <= (mmc_cur_lba + mmc_blocks_issued) + n
        BY <4>2, <2>3, <1>t, Types
      <4> QED
        BY <4>2, <4>3, <2>1, <2>4, <2>5
    <3> QED
      BY <3>1, <3>2
  <2> QED
    BY <2>6 DEF ReadyInRange
<1>8. CASE DmaDone
  <2>1. dma \in Bufs /\ mmc_buf_state[dma] = "SPI_FILLING"
    BY <1>8, FillingBuffer DEF DmaDone
  <2>2. \A b \in Bufs : b # dma => read_buf'[b] = read_buf[b]
    BY <1>8, <2>1, <1>t DEF DmaDone
  <2>3. UNCHANGED <<mmc_cur_lba, mmc_blocks_issued, mmc_buf_state, buf_blocks>>
    BY <1>8 DEF DmaDone, readVars
  <2>4. dma' = NoBuf /\ NoBuf \notin Bufs
    BY <1>8 DEF DmaDone, NoBuf, Bufs
  <2> QED
    BY <2>1, <2>2, <2>3, <2>4 DEF ReadyInRange
<1>9. CASE CtlResponse \/ CtlBufReady \/ CtlComplete \/ CtlError
  BY <1>9 DEF CtlResponse, CtlBufReady, CtlComplete, CtlError, CtlStep, readVars, ReadyInRange
<1> QED
  BY <1>1, <1>2, <1>3, <1>4, <1>5, <1>6, <1>7, <1>8, <1>9
     DEF Next, Loop, ReadTask, Steady

\* A chunk read into one buffer lies beyond all chunks read before.
LEMMA ReadyDisjointKept ==
  ASSUME IInv, NoFaultInv, ~MmcMayFail, [Next]_vars PROVE ReadyDisjoint'
<1> SUFFICES ASSUME \A b \in Bufs : mmc_buf_state'[b] = "READY_FOR_USB"
             PROVE  \/ read_buf'[0] + buf_blocks'[0] <= read_buf'[1]
                    \/ read_buf'[1] + buf_blocks'[1] <= read_buf'[0]
  BY DEF ReadyDisjoint
<1> USE DEF NoFaultInv
<1>b. 0 \in Bufs /\ 1 \in Bufs
  BY DEF Bufs
<1>t. /\ mmc_buf_state \in [Bufs -> {"FREE", "SPI_FILLING", "READY_FOR_USB"}]
      /\ read_buf \in [Bufs -> Nat \cup {Junk}]
      /\ mmc_active_buf \in Bufs
  BY DEF IInv, TypeOK, BufferTypeOK, SpiTypeOK
<1>1. CASE ReadAdvance
  <2> DEFINE a == mmc_active_buf
  <2>1. /\ read_buf[a] = mmc_cur_lba + mmc_blocks_issued
        /\ UNCHANGED <<read_buf, buf_blocks>>
        /\ mmc_buf_state' = [mmc_buf_state EXCEPT ![a] = "READY_FOR_USB"]
    BY <1>1, <1>t DEF ReadAdvance, Reading, Filled, Drained, InStep, Polled
  <2>2. \A b \in Bufs : b # a => mmc_buf_state[b] = "READY_FOR_USB"
    BY <2>1, <1>t
  <2>3. \A b \in Bufs : b # a => read_buf[b] + buf_blocks[b] <= read_buf[a]
    BY <2>1, <2>2 DEF ReadyInRange
  <2>4. a = 0 \/ a = 1
    BY <1>t DEF Bufs
  <2> QED
    BY <2>1, <2>3, <2>4, <1>b
<1>2. CASE ~ReadAdvance
  <2>1. \A b \in Bufs : mmc_buf_state[b] = "READY_FOR_USB"
    <3>1. CASE CmdBlockRead
      BY <3>1, <1>b DEF CmdBlockRead, StartRead
    <3>2. CASE ReadSendCmd
      <4>1. PICK c \in Bufs : mmc_buf_state' = [mmc_buf_state EXCEPT ![c] = "SPI_FILLING"]
        BY <3>2 DEF ReadSendCmd
      <4>2. mmc_buf_state'[c] = "SPI_FILLING"
        BY <4>1, <1>t
      <4> QED
        BY <4>2
    <3>3. CASE ReadError
      BY <3>3 DEF ReadError, Failed, NoError
    <3>4. CASE StreamSendLast
      <4>1. CASE FirstPending = NoBuf
        BY <3>4, <4>1 DEF StreamSendLast, Consume
      <4>2. CASE FirstPending # NoBuf
        <5>1. FirstPending \in Bufs
          BY <4>2, FirstPendingIsPending
        <5> QED
          BY <3>4, <4>2, <5>1, <1>t DEF StreamSendLast, Consume
      <4> QED
        BY <4>1, <4>2
    <3>5. CASE UNCHANGED mmc_buf_state
      BY <3>5
    <3>6. \/ CmdBlockRead \/ ReadSendCmd \/ ReadError \/ StreamSendLast
          \/ UNCHANGED mmc_buf_state
      BY <1>2 DEF Next, Loop, ReadTask, StreamTask, NoCommand, ReadSkip, ReadAllIssued,
         ReadNoBuf, ReadWait, ReadCmdComplete, ReadBulk, StreamIdle, StreamError,
         StreamWait, StreamSend, DmaDone, CtlResponse, CtlBufReady, CtlComplete,
         CtlError, CtlStep, HostRead, HostDrain, vars, readVars
    <3> QED
      BY <3>1, <3>2, <3>3, <3>4, <3>5, <3>6
  <2>2. \A b \in Bufs : buf_blocks'[b] = buf_blocks[b] /\ read_buf'[b] = read_buf[b]
    <3>1. dma = NoBuf
      <4> SUFFICES ASSUME dma # NoBuf PROVE FALSE
        OBVIOUS
      <4> QED
        BY <2>1, FillingBuffer
    <3>2. ~CmdBlockRead
      BY <1>b DEF CmdBlockRead, StartRead
    <3>3. ~ReadSendCmd
      BY <2>1 DEF ReadSendCmd
    <3>4. UNCHANGED <<buf_blocks, read_buf>>
      BY <1>2, <3>1, <3>2, <3>3
         DEF Next, Loop, ReadTask, StreamTask, NoCommand, ReadSkip, ReadAllIssued,
         ReadNoBuf, ReadError, ReadWait, ReadCmdComplete, ReadBulk, Reading, StreamIdle,
         StreamError, StreamWait, StreamSend, StreamSendLast, Streaming, DmaDone,
         CtlResponse, CtlBufReady, CtlComplete, CtlError, CtlStep,
         HostRead, HostDrain, vars, readVars
    <3> QED
      BY <3>4
  <2> QED
    BY <2>1, <2>2, <1>b DEF ReadyDisjoint
<1> QED
  BY <1>1, <1>2

\* What happens to the stream's own variables in a step.
LEMMA StreamFrame ==
  ASSUME [Next]_vars, ~CmdBlockRead, ~StreamTask
  PROVE  UNCHANGED streamVars
  BY DEF Next, Loop, ReadTask, NoCommand, ReadSkip, ReadAllIssued, ReadSendCmd,
         ReadNoBuf, ReadError, ReadWait, ReadCmdComplete, ReadBulk, ReadAdvance,
         Reading, DmaDone, CtlResponse, CtlBufReady, CtlComplete, CtlError, CtlStep,
         HostRead, HostDrain, vars, streamVars

\* stream_task goes idle only after the read is done.
LEMMA StreamInvKept == ASSUME IInv, NoFaultInv, ~MmcMayFail, [Next]_vars PROVE StreamInv'
<1> USE DEF NoFaultInv, StreamInv
<1>1. CASE CmdBlockRead
  BY <1>1 DEF CmdBlockRead
<1>2. CASE StreamIdle \/ StreamError
  BY <1>2 DEF StreamIdle, StreamError, StreamFailed, NoError, streamVars, readVars
<1>3. CASE StreamWait
  BY <1>3 DEF StreamWait, Streaming, FinishStream, Block, Sent
<1>4. CASE StreamSend
  BY <1>4 DEF StreamSend, Streaming, FinishStream
<1>5. CASE StreamSendLast
  BY <1>5 DEF StreamSendLast, Streaming, FinishStream, ReleaseBlock
<1>6. CASE ~CmdBlockRead /\ ~StreamTask
  <2>1. UNCHANGED streamVars
    BY <1>6, StreamFrame
  <2>2. mmc_bio_status' = "BUSY" => mmc_bio_status = "BUSY"
    BY <1>6 DEF Next, Loop, ReadTask, NoCommand, ReadSkip, ReadAllIssued, ReadSendCmd,
         ReadNoBuf, ReadError, ReadWait, ReadCmdComplete, ReadBulk, ReadAdvance,
         Reading, DmaDone, CtlResponse, CtlBufReady, CtlComplete, CtlError, CtlStep,
         HostRead, HostDrain, vars, readVars
  <2> QED
    BY <2>1, <2>2 DEF streamVars
<1> QED
  BY <1>1, <1>2, <1>3, <1>4, <1>5, <1>6 DEF StreamTask

\* The block stream_task takes up is pending, and stays so until it is consumed.
LEMMA BlockIsPending ==
  ASSUME IInv, NoFaultInv, Block # NoBlock
  PROVE  /\ Block[1] \in Bufs /\ Pending(Block[1]) /\ Block[2] = buf_sent[Block[1]]
         /\ FirstPending \in Bufs
<1>1. CASE usb_block = NoBlock
  <2>1. Block = GetBuf /\ GetBuf # NoBlock
    BY <1>1 DEF Block
  <2>2. FirstPending # NoBuf
    BY <2>1 DEF GetBuf
  <2> QED
    BY <2>1, <2>2, FirstPendingIsPending DEF GetBuf
<1>2. CASE usb_block # NoBlock
  <2>1. /\ Block = usb_block /\ Block[1] \in Bufs
        /\ Pending(Block[1]) /\ Block[2] = buf_sent[Block[1]]
    BY <1>2 DEF Block, NoFaultInv, HeldBlockCompleted, IInv, TypeOK, StreamTypeOK, BlockRefs
  <2>2. FirstPending \in Bufs
    BY <2>1 DEF FirstPending, Bufs
  <2> QED
    BY <2>1, <2>2
<1> QED
  BY <1>1, <1>2

\* Nothing but its own consume takes the held block away.
LEMMA HeldBlockKept ==
  ASSUME IInv, NoFaultInv, ~MmcMayFail, [Next]_vars PROVE HeldBlockCompleted'
<1> USE DEF NoFaultInv
<1>t. /\ mmc_buf_state \in [Bufs -> {"FREE", "SPI_FILLING", "READY_FOR_USB"}]
      /\ usb_block \in BlockRefs
  BY DEF IInv, TypeOK, BufferTypeOK, StreamTypeOK
<1>1. CASE CmdBlockRead
  BY <1>1, ReadyHostRests DEF CmdBlockRead, HeldBlockCompleted
<1>2. CASE StreamIdle \/ StreamError
  BY <1>2 DEF StreamIdle, StreamError, StreamFailed, NoError, streamVars, readVars,
              HeldBlockCompleted, Pending
<1>3. CASE StreamWait \/ StreamSend
  <2>1. /\ usb_block' = Block
        /\ UNCHANGED <<mmc_buf_state, buf_sent, buf_blocks>>
        /\ stream_state' = IF mmc_bio_status = "DONE" /\ Block = NoBlock
                           THEN "IDLE" ELSE "BLOCK_READ"
    BY <1>3 DEF StreamWait, StreamSend, Streaming, FinishStream
  <2> QED
    BY <2>1, BlockIsPending DEF HeldBlockCompleted, Pending
<1>4. CASE StreamSendLast
  BY <1>4 DEF StreamSendLast, ReleaseBlock, HeldBlockCompleted
<1>5. CASE ~CmdBlockRead /\ ~StreamTask
  <2>1. UNCHANGED streamVars
    BY <1>5, StreamFrame
  <2> SUFFICES ASSUME usb_block # NoBlock
               PROVE  /\ Pending(usb_block[1])'
                      /\ usb_block'[2] = buf_sent'[usb_block'[1]]
                      /\ stream_state' = "BLOCK_READ"
    BY <2>1 DEF HeldBlockCompleted, streamVars
  <2> DEFINE b == usb_block[1]
  <2>2. /\ b \in Bufs /\ Pending(b) /\ usb_block[2] = buf_sent[b]
        /\ stream_state = "BLOCK_READ"
    BY <1>t DEF HeldBlockCompleted, BlockRefs
  <2>3. /\ mmc_buf_state'[b] = mmc_buf_state[b]
        /\ buf_sent'[b] = buf_sent[b] /\ buf_blocks'[b] = buf_blocks[b]
    <3>1. CASE ReadSendCmd
      <4>1. PICK c \in Bufs :
              /\ mmc_buf_state[c] = "FREE"
              /\ mmc_buf_state' = [mmc_buf_state EXCEPT ![c] = "SPI_FILLING"]
              /\ buf_blocks' = [buf_blocks EXCEPT ![c] = NextChunk]
              /\ buf_sent' = [buf_sent EXCEPT ![c] = 0]
        BY <3>1 DEF ReadSendCmd
      <4>2. c # b
        BY <4>1, <2>2 DEF Pending
      <4> QED
        BY <4>1, <4>2, <2>2, <1>t DEF IInv, TypeOK, BufferTypeOK
    <3>2. CASE ReadAdvance
      <4>1. /\ mmc_buf_state' = [mmc_buf_state EXCEPT ![mmc_active_buf] = "READY_FOR_USB"]
            /\ UNCHANGED <<buf_blocks, buf_sent>>
        BY <3>2 DEF ReadAdvance
      <4> QED
        BY <4>1, <2>2, <1>t DEF Pending
    <3>3. CASE ReadError
      BY <3>3 DEF ReadError, Failed, NoError
    <3>4. CASE ~ReadSendCmd /\ ~ReadAdvance /\ ~ReadError
      <4>1. UNCHANGED <<mmc_buf_state, buf_sent, buf_blocks>>
        BY <1>5, <3>4 DEF Next, Loop, ReadTask, NoCommand, ReadSkip, ReadAllIssued,
           ReadNoBuf, ReadWait, ReadCmdComplete, ReadBulk, DmaDone, CtlResponse,
           CtlBufReady, CtlComplete, CtlError, CtlStep, HostRead, HostDrain, vars, readVars
      <4> QED
        BY <4>1
    <3> QED
      BY <3>1, <3>2, <3>3, <3>4
  <2> QED
    BY <2>1, <2>2, <2>3 DEF Pending, streamVars
<1> QED
  BY <1>1, <1>2, <1>3, <1>4, <1>5 DEF StreamTask

\* The host throws nothing away as long as the card does not fail.
LEMMA NothingDrained == ASSUME IInv, NoFaultInv, HostDrain PROVE FALSE
<1> USE DEF NoFaultInv
<1>t. /\ tx \in Seq(Packets) /\ delivered \in Seq(Packets)
      /\ Len(tx) \in Nat /\ Len(delivered) \in Nat
      /\ Chunks \in Nat \ {0} /\ usb_sent \in 0 .. Chunks - 1
  BY Bounds DEF IInv, TypeOK, StreamTypeOK
<1>p. mmc_blocks_consumed * Chunks \in Nat
  BY <1>t, Types
<1>1. Len(delivered) >= mmc_blocks_total * Chunks /\ Len(tx) > 0 /\ tx # << >>
  BY <1>t DEF HostDrain
<1>2. mmc_blocks_consumed < mmc_blocks_total => FALSE
  <2> SUFFICES ASSUME mmc_blocks_consumed < mmc_blocks_total PROVE FALSE
    OBVIOUS
  <2>1. mmc_blocks_consumed * Chunks + usb_sent < mmc_blocks_total * Chunks
    BY <1>t, Types, PacketsOfBlocks
  <2>2. mmc_blocks_total * Chunks \in Nat
    BY <1>t, Types
  <2> QED
    BY <1>1, <2>1, <2>2, <1>t, <1>p DEF ExactLength
<1>3. mmc_blocks_consumed = mmc_blocks_total
  BY <1>2, ConsumedInRequest, Types DEF IInv, InRequest
<1>4. usb_sent = 0
  <2> SUFFICES ASSUME usb_sent # 0 PROVE FALSE
    OBVIOUS
  <2>1. usb_block # NoBlock
    BY DEF StreamInv
  <2>2. Pending(usb_block[1]) /\ usb_block[1] \in Bufs
    BY <2>1 DEF HeldBlockCompleted, IInv, TypeOK, StreamTypeOK, BlockRefs
  <2> QED
    BY <2>2, <1>2, PendingNotConsumed
<1>5. HostReady
  BY <1>1, <1>3, <1>4, <1>t, <1>p DEF ExactLength, HostReady
<1> QED
  BY <1>1, <1>5, ReadyHostRests

\* Each packet submitted is counted in usb_sent or, with its block's last one,
\* in mmc_blocks_consumed.
LEMMA ExactLengthKept ==
  ASSUME IInv, NoFaultInv, ~MmcMayFail, [Next]_vars PROVE ExactLength'
<1> USE DEF NoFaultInv
<1>t. /\ tx \in Seq(Packets) /\ delivered \in Seq(Packets)
      /\ Len(tx) \in Nat /\ Len(delivered) \in Nat
      /\ Chunks \in Nat \ {0} /\ usb_sent \in 0 .. Chunks - 1
  BY Bounds DEF IInv, TypeOK, StreamTypeOK
<1>p. mmc_blocks_consumed * Chunks \in Nat
  BY <1>t, Types
<1>1. CASE CmdBlockRead
  <2>1. Len(tx') = 0 /\ Len(delivered') = 0 /\ usb_sent' = 0 /\ mmc_blocks_consumed' = 0
    BY <1>1, ReadyHostRests DEF CmdBlockRead, StartRead, ResetCounters
  <2> QED
    BY <2>1, <1>t DEF ExactLength
<1>2. CASE StreamIdle \/ StreamError
  BY <1>2 DEF StreamIdle, StreamError, streamVars, readVars, hostVars, ExactLength
<1>s. Sent = usb_sent
  BY DEF Sent, StreamInv
<1>3. CASE StreamWait
  BY <1>3, <1>s DEF StreamWait, Streaming, ExactLength
<1>4. CASE StreamSend
  <2>1. /\ Len(tx') = Len(tx) + 1 /\ usb_sent' = usb_sent + 1
        /\ UNCHANGED <<delivered, mmc_blocks_consumed>>
    BY <1>4, <1>s, <1>t DEF StreamSend, Streaming
  <2> QED
    BY <2>1, <1>t, <1>p DEF ExactLength
<1>5. CASE StreamSendLast
  <2>1. /\ Len(tx') = Len(tx) + 1 /\ usb_sent' = 0 /\ usb_sent + 1 = Chunks
        /\ UNCHANGED delivered
    BY <1>5, <1>s, <1>t DEF StreamSendLast, Streaming, ReleaseBlock
  <2>2. FirstPending # NoBuf
    BY <1>5, BlockIsPending DEF StreamSendLast, Bufs, NoBuf
  <2>3. mmc_blocks_consumed' = mmc_blocks_consumed + 1
    BY <1>5, <2>2 DEF StreamSendLast, Consume
  <2>4. mmc_blocks_consumed' * Chunks = mmc_blocks_consumed * Chunks + Chunks
    BY <2>3, <1>t, Types, OneMoreBlock
  <2> QED
    BY <2>1, <2>4, <1>t, <1>p DEF ExactLength
<1>6. CASE HostRead
  <2>1. /\ Len(delivered') = Len(delivered) + 1 /\ Len(tx') = Len(tx) - 1
        /\ UNCHANGED <<mmc_blocks_consumed, usb_sent>>
    BY <1>6, <1>t DEF HostRead, readVars, streamVars
  <2> QED
    BY <2>1, <1>t, <1>p DEF ExactLength
<1>7. CASE HostDrain
  BY <1>7, NothingDrained
<1>8. CASE \/ NoCommand \/ ReadTask \/ DmaDone \/ UNCHANGED vars
           \/ CtlResponse \/ CtlBufReady \/ CtlComplete \/ CtlError
  <2>1. UNCHANGED <<tx, delivered, usb_sent, mmc_blocks_consumed>>
    BY <1>8 DEF NoCommand, ReadTask, ReadSkip, ReadAllIssued, ReadSendCmd, ReadNoBuf,
       ReadError, ReadWait, ReadCmdComplete, ReadBulk, ReadAdvance, Reading, DmaDone,
       CtlResponse, CtlBufReady, CtlComplete, CtlError, CtlStep, vars,
       readVars, streamVars, hostVars
  <2> QED
    BY <2>1 DEF ExactLength
<1> QED
  BY <1>1, <1>2, <1>3, <1>4, <1>5, <1>6, <1>7, <1>8 DEF Next, Loop, StreamTask

\* The two invariants together are inductive.
LEMMA NextNoFault ==
  ASSUME ~MmcMayFail PROVE IInv /\ NoFaultInv /\ [Next]_vars => NoFaultInv'
<1> SUFFICES ASSUME IInv, NoFaultInv, [Next]_vars PROVE NoFaultInv'
  OBVIOUS
<1> QED
  BY NoErrorKept, RestedKept, InStepKept, AnsweringKept, FillingKept, FilledKept,
     SpiExclusiveKept, ReadyInRangeKept, ReadyDisjointKept, StreamInvKept,
     HeldBlockKept, ExactLengthKept DEF NoFaultInv

\* Without card errors both hold in every state.
LEMMA NoFaultCorrect == ASSUME ~MmcMayFail PROVE Spec => [](IInv /\ NoFaultInv)
<1>1. Init => IInv /\ NoFaultInv
  BY InitIInv, InitNoFault
<1>2. IInv /\ NoFaultInv /\ [Next]_vars => (IInv /\ NoFaultInv)'
  BY NextIInv, NextNoFault
<1> QED
  BY <1>1, <1>2, PTL DEF Spec

\* While the card does not fail, a buffer that mmc_read_task hands to the USB side
\* holds blocks of the request that the DMA has read, no two buffers the same.
THEOREM DataCorrect == ASSUME ~MmcMayFail PROVE Spec => []ReadyBuffersHoldData
<1>1. NoFaultInv => ReadyBuffersHoldData
  BY DEF NoFaultInv, ReadyBuffersHoldData
<1> QED
  BY <1>1, NoFaultCorrect, PTL

\* While the card does not fail, the block stream_task keeps in usb_block from turn
\* to turn is still the next unsent block of a ready buffer when it goes on.
THEOREM HeldBlockCorrect == ASSUME ~MmcMayFail PROVE Spec => []HeldBlockCompleted
<1>1. NoFaultInv => HeldBlockCompleted
  BY DEF NoFaultInv
<1> QED
  BY <1>1, NoFaultCorrect, PTL

\* While the card does not fail, mmc_read_task does nothing but wait while the DMA
\* it started is using the SPI bus.
THEOREM SpiCorrect == ASSUME ~MmcMayFail PROVE Spec => []SpiExclusive
<1>1. NoFaultInv => SpiExclusive
  BY DEF NoFaultInv
<1> QED
  BY <1>1, NoFaultCorrect, PTL

\* While the card does not fail, the packets on the endpoint and with the host are
\* exactly those of the consumed blocks and of the one being sent.
THEOREM LengthCorrect == ASSUME ~MmcMayFail PROVE Spec => []ExactLength
<1>1. NoFaultInv => ExactLength
  BY DEF NoFaultInv
<1> QED
  BY <1>1, NoFaultCorrect, PTL
-----------------------------------------------------------------------------
(* What the stream carries, and what each step does to it.                 *)

Ready(b) == mmc_buf_state[b] = "READY_FOR_USB"

\* The packets of c whole blocks and s of the next one.
LEMMA PacketNumber ==
  ASSUME NEW c \in Nat, NEW h \in Nat \ {0}, NEW s \in 0 .. h - 1
  PROVE  (c * h + s) \div h = c /\ (c * h + s) % h = s
  OBVIOUS

\* A packet put behind the endpoint's is put behind the stream's.
LEMMA ConcatAppend ==
  ASSUME NEW S, NEW d \in Seq(S), NEW t \in Seq(S), NEW p \in S
  PROVE  d \o Append(t, p) = Append(d \o t, p)
  OBVIOUS

\* A packet read by the host stays where it is in the stream.
LEMMA ConcatMove ==
  ASSUME NEW S, NEW d \in Seq(S), NEW t \in Seq(S), t # << >>
  PROVE  Append(d, Head(t)) \o Tail(t) = d \o t
  OBVIOUS

\* The stream so far is the consumed blocks and the part of the one begun.
LEMMA OutTyped ==
  ASSUME IInv, NoFaultInv
  PROVE  /\ out \in Seq(Packets) /\ Len(out) = mmc_blocks_consumed * Chunks + usb_sent
         /\ usb_sent \in 0 .. Chunks - 1 /\ Chunks \in Nat \ {0} /\ mmc_blocks_consumed \in Nat
<1>1. tx \in Seq(Packets) /\ delivered \in Seq(Packets)
  BY DEF IInv, TypeOK, StreamTypeOK
<1>2. out \in Seq(Packets) /\ Len(out) = Len(delivered) + Len(tx)
  BY <1>1 DEF out
<1> QED
  BY <1>2, Types, ChunkAssumption DEF IInv, TypeOK, StreamTypeOK, NoFaultInv, ExactLength

\* stream_task hands a packet to the endpoint.
Submitting == StreamSend \/ StreamSendLast

\* What stream_task sends is the next unsent block of a ready buffer, and the
\* part of it that is due.
LEMMA SentPacket ==
  ASSUME IInv, NoFaultInv, Submitting
  PROVE  /\ Block[1] \in Bufs /\ Ready(Block[1]) /\ Pending(Block[1])
         /\ Block[2] = buf_sent[Block[1]] /\ read_buf[Block[1]] \in Nat
         /\ Packet(Block, Sent) =
              <<read_buf[Block[1]] + buf_sent[Block[1]], usb_sent>>
         /\ Packet(Block, Sent) \in Packets
         /\ FirstPending \in Bufs
<1>1. Block # NoBlock
  BY DEF Submitting, StreamSend, StreamSendLast
<1>2. /\ Block[1] \in Bufs /\ Pending(Block[1]) /\ Block[2] = buf_sent[Block[1]]
      /\ FirstPending \in Bufs
  BY <1>1, BlockIsPending
<1>3. Ready(Block[1]) /\ dma # Block[1] /\ read_buf[Block[1]] \in Nat
  BY <1>2 DEF Pending, Ready, NoFaultInv, ReadyInRange
<1>4. Sent = usb_sent /\ usb_sent \in 0 .. Chunks - 1
  BY OutTyped DEF Sent, NoFaultInv, StreamInv
<1>5. read_buf[Block[1]] # Junk /\ buf_sent[Block[1]] \in Nat
  BY <1>2, <1>3, DataAssumption, Types
<1>6. Packet(Block, Sent) = <<read_buf[Block[1]] + buf_sent[Block[1]], usb_sent>>
  BY <1>2, <1>3, <1>4, <1>5 DEF Packet
<1> QED
  BY <1>2, <1>3, <1>4, <1>5, <1>6 DEF Packets

\* Nothing but stream_task adds to the stream, and only a request empties it.
LEMMA OutStep ==
  ASSUME IInv, NoFaultInv, ~MmcMayFail, [Next]_vars
  PROVE  /\ CmdBlockRead => out' = << >>
         /\ Submitting => out' = Append(out, Packet(Block, Sent))
         /\ ~CmdBlockRead /\ ~Submitting => out' = out
<1>t. tx \in Seq(Packets) /\ delivered \in Seq(Packets)
  BY DEF IInv, TypeOK, StreamTypeOK
<1>1. ASSUME CmdBlockRead PROVE out' = << >>
  <2>1. delivered' = << >> /\ tx' = << >>
    BY <1>1, ReadyHostRests DEF CmdBlockRead
  <2> QED
    BY <2>1 DEF out
<1>2. ASSUME Submitting PROVE out' = Append(out, Packet(Block, Sent))
  <2>1. tx' = Append(tx, Packet(Block, Sent)) /\ delivered' = delivered
    BY <1>2 DEF Submitting, StreamSend, StreamSendLast, Streaming
  <2>2. Packet(Block, Sent) \in Packets
    BY <1>2, SentPacket
  <2> QED
    BY <2>1, <2>2, <1>t, ConcatAppend DEF out
<1>3. ASSUME ~CmdBlockRead, ~Submitting PROVE out' = out
  <2>1. CASE HostRead
    <3>1. tx # << >> /\ delivered' = Append(delivered, Head(tx)) /\ tx' = Tail(tx)
      BY <2>1 DEF HostRead
    <3> QED
      BY <3>1, <1>t, ConcatMove DEF out
  <2>2. CASE HostDrain
    BY <2>2, NothingDrained
  <2>3. CASE ~HostRead /\ ~HostDrain
    <3>1. UNCHANGED <<tx, delivered>>
      BY <1>3, <2>3 DEF Submitting, Next, Loop, ReadTask, StreamTask, NoCommand, ReadSkip,
         ReadAllIssued, ReadSendCmd, ReadNoBuf, ReadError, ReadWait, ReadCmdComplete,
         ReadBulk, ReadAdvance, Reading, StreamIdle, StreamError, StreamWait, Streaming,
         DmaDone, CtlResponse, CtlBufReady, CtlComplete, CtlError, CtlStep, vars, hostVars
    <3> QED
      BY <3>1 DEF out
  <2> QED
    BY <2>1, <2>2, <2>3
<1> QED
  BY <1>1, <1>2, <1>3

\* The steps that give a block another place in the pipeline.
Moving == CmdBlockRead \/ ReadSendCmd \/ ReadAdvance \/ StreamWait \/ Submitting

countVars == <<mmc_cur_lba, mmc_blocks_total, mmc_blocks_issued, mmc_blocks_consumed>>
queueVars == <<mmc_active_buf, mmc_buf_state, buf_blocks, buf_sent>>

\* A DMA that ends writes no buffer that is ready.
LEMMA ReadyKeepsData ==
  ASSUME IInv, NoFaultInv, ~MmcMayFail, [Next]_vars
  PROVE  \A b \in Bufs : Ready(b) => read_buf'[b] = read_buf[b]
<1>1. CASE DmaDone
  <2>1. dma \in Bufs /\ mmc_buf_state[dma] = "SPI_FILLING"
    BY <1>1, FillingBuffer DEF DmaDone
  <2>2. read_buf \in [Bufs -> Nat \cup {Junk}]
    BY DEF IInv, TypeOK, SpiTypeOK
  <2> QED
    BY <1>1, <2>1, <2>2 DEF DmaDone, Ready
<1>2. CASE ~DmaDone
  BY <1>2 DEF Next, Loop, ReadTask, StreamTask, CmdBlockRead, NoCommand, ReadSkip,
     ReadAllIssued, ReadSendCmd, ReadNoBuf, ReadError, ReadWait, ReadCmdComplete,
     ReadBulk, ReadAdvance, Reading, StreamIdle, StreamError, StreamWait, StreamSend,
     StreamSendLast, Streaming, CtlResponse, CtlBufReady, CtlComplete, CtlError, CtlStep,
     HostRead, HostDrain, vars
<1> QED
  BY <1>1, <1>2

\* All other steps leave the queue, the counters and the stream as they are.
LEMMA RestKeeps ==
  ASSUME IInv, NoFaultInv, ~MmcMayFail, [Next]_vars, ~Moving
  PROVE  /\ UNCHANGED countVars /\ UNCHANGED queueVars /\ UNCHANGED streamVars
         /\ out' = out /\ Polled' = Polled
<1>0. ~ReadError /\ ~StreamError /\ ~CtlError
  BY DEF ReadError, Failed, StreamError, StreamFailed, CtlError, NoFaultInv, NoError
<1>1. UNCHANGED countVars /\ UNCHANGED queueVars /\ UNCHANGED streamVars
  BY <1>0 DEF Moving, Submitting, Next, Loop, ReadTask, StreamTask, NoCommand, ReadSkip,
     ReadAllIssued, ReadNoBuf, ReadWait, ReadCmdComplete, ReadBulk, Reading, StreamIdle,
     DmaDone, CtlResponse, CtlBufReady, CtlComplete, CtlStep, HostRead, HostDrain,
     vars, readVars, countVars, queueVars, streamVars
<1>2. out' = out
  BY OutStep DEF Moving
<1>3. Polled' = Polled
  <2>1. CASE ReadAllIssued
    BY <2>1, Types DEF ReadAllIssued, IInv, ChunkFits, Polled
  <2>2. CASE ReadWait \/ ReadCmdComplete \/ ReadBulk
    BY <2>2 DEF ReadWait, ReadCmdComplete, ReadBulk, Reading, Polling, AfterPoll, Polled
  <2>3. CASE ~(ReadAllIssued \/ ReadWait \/ ReadCmdComplete \/ ReadBulk)
    <3>1. UNCHANGED <<mmc_bio_status, read_state>>
      BY <1>0, <2>3 DEF Moving, Submitting, Next, Loop, ReadTask, StreamTask, NoCommand,
         ReadSkip, ReadNoBuf, StreamIdle, DmaDone, CtlResponse, CtlBufReady,
         CtlComplete, CtlStep, HostRead, HostDrain, vars, readVars
    <3> QED
      BY <3>1 DEF Polled
  <2> QED
    BY <2>1, <2>2, <2>3
<1> QED
  BY <1>1, <1>2, <1>3

\* RS_FIND_BUF.
LEMMA SendCmdStep ==
  ASSUME IInv, NoFaultInv, ReadSendCmd
  PROVE  \E c \in Bufs :
           /\ mmc_buf_state[c] = "FREE" /\ mmc_buf_state'[c] = "SPI_FILLING"
           /\ c = 1 => Ready(0)
           /\ mmc_active_buf' = c /\ buf_blocks'[c] = NextChunk
           /\ \A b \in Bufs \ {c} : /\ mmc_buf_state'[b] = mmc_buf_state[b]
                                    /\ mmc_buf_state[b] # "SPI_FILLING"
                                    /\ buf_blocks'[b] = buf_blocks[b]
                                    /\ buf_sent'[b] = buf_sent[b]
           /\ UNCHANGED countVars /\ UNCHANGED streamVars
           /\ ~Polled /\ Polled' /\ task = "read"
<1>0. PICK c \in Bufs :
        /\ mmc_buf_state[c] = "FREE"
        /\ c = 1 => mmc_buf_state[0] # "FREE"
        /\ mmc_active_buf' = c
        /\ mmc_buf_state' = [mmc_buf_state EXCEPT ![c] = "SPI_FILLING"]
        /\ buf_blocks' = [buf_blocks EXCEPT ![c] = NextChunk]
        /\ buf_sent' = [buf_sent EXCEPT ![c] = 0]
  BY DEF ReadSendCmd
<1>1. ~Polled /\ Polled' /\ task = "read"
  BY DEF ReadSendCmd, Reading, Polled
<1>2. UNCHANGED countVars /\ UNCHANGED streamVars
  BY DEF ReadSendCmd, Reading, countVars, streamVars
<1>t. /\ mmc_buf_state \in [Bufs -> {"FREE", "SPI_FILLING", "READY_FOR_USB"}]
      /\ buf_blocks \in [Bufs -> 0 .. ChunkBlocks]
      /\ buf_sent \in [Bufs -> 0 .. ChunkBlocks]
  BY DEF IInv, TypeOK, BufferTypeOK
<1>3. \A b \in Bufs : mmc_buf_state[b] # "SPI_FILLING"
  BY <1>1 DEF IInv, FillingIsPolled
<1>4. c = 1 => Ready(0)
  BY <1>0, <1>3, <1>t DEF Ready, Bufs
<1> QED
  BY <1>0, <1>1, <1>2, <1>3, <1>4, <1>t

\* RS_ADVANCE: the chunk under way is ready, behind all that was read before.
LEMMA AdvanceStep ==
  ASSUME IInv, NoFaultInv, ReadAdvance
  PROVE  LET a == mmc_active_buf IN
         /\ a \in Bufs /\ mmc_buf_state[a] = "SPI_FILLING" /\ Ready(a)'
         /\ \A b \in Bufs \ {a} : mmc_buf_state'[b] = mmc_buf_state[b]
         /\ read_buf[a] = mmc_cur_lba + mmc_blocks_issued
         /\ mmc_blocks_issued' = mmc_blocks_issued + buf_blocks[a]
         /\ mmc_blocks_issued < mmc_blocks_total
         /\ UNCHANGED <<mmc_cur_lba, mmc_blocks_total, mmc_blocks_consumed, mmc_active_buf,
                        buf_blocks, buf_sent, read_buf>>
         /\ UNCHANGED streamVars
         /\ Polled /\ ~Polled' /\ task = "read"
<1> DEFINE a == mmc_active_buf
<1>1. /\ Polled /\ ~Polled' /\ task = "read"
      /\ mmc_blocks_issued < mmc_blocks_total
      /\ mmc_buf_state' = [mmc_buf_state EXCEPT ![a] = "READY_FOR_USB"]
      /\ mmc_blocks_issued' = mmc_blocks_issued + buf_blocks[a]
      /\ UNCHANGED <<mmc_cur_lba, mmc_blocks_total, mmc_blocks_consumed, mmc_active_buf,
                     buf_blocks, buf_sent, read_buf>>
      /\ UNCHANGED streamVars
  BY DEF ReadAdvance, Reading, Polled, streamVars
<1>2. a \in Bufs /\ mmc_buf_state[a] = "SPI_FILLING"
  BY <1>1, Types DEF IInv, FillingIsPolled
<1>3. read_buf[a] = mmc_cur_lba + mmc_blocks_issued
  BY <1>1 DEF ReadAdvance, NoFaultInv, Filled, Drained, InStep
<1>t. mmc_buf_state \in [Bufs -> {"FREE", "SPI_FILLING", "READY_FOR_USB"}]
  BY DEF IInv, TypeOK, BufferTypeOK
<1> QED
  BY <1>1, <1>2, <1>3, <1>t DEF Ready

\* The last packet of a block consumes a block of the first pending buffer.
LEMMA LastStep ==
  ASSUME IInv, NoFaultInv, StreamSendLast
  PROVE  LET f == FirstPending IN
         /\ f \in Bufs /\ Ready(f)
         /\ mmc_buf_state'[f] = IF Emptied(f) THEN "FREE" ELSE mmc_buf_state[f]
         /\ \A b \in Bufs \ {f} : /\ mmc_buf_state'[b] = mmc_buf_state[b]
                                  /\ buf_sent'[b] = buf_sent[b]
         /\ mmc_blocks_consumed' = mmc_blocks_consumed + 1
         /\ usb_block' = NoBlock /\ usb_sent' = 0 /\ usb_sent + 1 = Chunks
         /\ UNCHANGED <<mmc_cur_lba, mmc_blocks_total, mmc_blocks_issued, mmc_active_buf,
                        buf_blocks, read_buf, mmc_bio_status, read_state>>
         /\ Polled' = Polled /\ task' = "cmd"
<1> DEFINE f == FirstPending
<1>1. f \in Bufs /\ f # NoBuf /\ Ready(f)
  BY SentPacket, FirstPendingIsPending DEF Submitting, Pending, Ready, Bufs, NoBuf
<1>2. /\ UNCHANGED <<mmc_cur_lba, mmc_blocks_total, mmc_blocks_issued, mmc_active_buf,
                     buf_blocks, read_buf, mmc_bio_status, read_state>>
      /\ usb_block' = NoBlock /\ usb_sent' = 0 /\ task' = "cmd"
  BY DEF StreamSendLast, Streaming, StreamTurn, ReleaseBlock
<1>3. usb_sent + 1 = Chunks
  BY OutTyped DEF StreamSendLast, Sent, NoFaultInv, StreamInv
<1>4. /\ buf_sent' = [buf_sent EXCEPT ![f] = @ + 1]
      /\ mmc_blocks_consumed' = mmc_blocks_consumed + 1
      /\ mmc_buf_state' = IF Emptied(f) THEN [mmc_buf_state EXCEPT ![f] = "FREE"]
                          ELSE mmc_buf_state
  BY <1>1 DEF StreamSendLast, Consume
<1>t. /\ mmc_buf_state \in [Bufs -> {"FREE", "SPI_FILLING", "READY_FOR_USB"}]
      /\ buf_sent \in [Bufs -> 0 .. ChunkBlocks]
  BY DEF IInv, TypeOK, BufferTypeOK
<1>5. Polled' = Polled
  BY <1>2 DEF Polled
<1> QED
  BY <1>1, <1>2, <1>3, <1>4, <1>5, <1>t

-----------------------------------------------------------------------------
(* Requests that fit the two buffers.                                      *)

Short == mmc_blocks_total <= 2 * ChunkBlocks

\* There are at most two chunks, and buffer 1 can only have the second.
ChunkOrder ==
  /\ mmc_blocks_issued \in {0, ChunkBlocks, mmc_blocks_total}
  /\ Polled => /\ buf_blocks[mmc_active_buf] = NextChunk
               /\ mmc_active_buf = 1 => mmc_blocks_issued # 0
  /\ Ready(1) => mmc_blocks_issued = mmc_blocks_total

\* What the ready buffers hold ends with what was read last, buffer 0 first.
Ends ==
  /\ Ready(1) => read_buf[1] + buf_blocks[1] = mmc_cur_lba + mmc_blocks_issued
  /\ Ready(0) => read_buf[0] + buf_blocks[0] =
                   IF Ready(1) THEN read_buf[1] ELSE mmc_cur_lba + mmc_blocks_issued
  /\ Ready(0) /\ Ready(1) => buf_sent[1] = 0

\* The block stream_task holds is in the buffer mmc_read_consume will consume.
HeldFirst == usb_block # NoBlock => usb_block[1] = FirstPending

ShortInv == Short => ChunkOrder /\ Ends /\ HeldFirst /\ InOrder

\* A ready buffer is pending, so that something was issued and not all consumed.
LEMMA ReadyPending ==
  ASSUME IInv, NEW b \in Bufs, Ready(b)
  PROVE  Pending(b) /\ mmc_blocks_issued # 0 /\ mmc_blocks_consumed < mmc_blocks_total
<1>1. Pending(b)
  BY DEF IInv, ReadyUnsent, Ready, Pending
<1>2. Unsent[b] > 0
  BY <1>1, Types DEF Pending, Unsent
<1>3. mmc_blocks_issued # 0
  <2>1. Unsent[0] \in Nat /\ Unsent[1] \in Nat /\ (Unsent[0] > 0 \/ Unsent[1] > 0)
    BY <1>2, UnsentNat DEF Bufs
  <2> QED
    BY <2>1, Types DEF IInv, Accounted, InRequest
<1> QED
  BY <1>1, <1>3, PendingNotConsumed

\* The first of the ready buffers is the one mmc_read_get_buf returns.
LEMMA FirstReady ==
  ASSUME IInv
  PROVE  /\ Ready(0) => FirstPending = 0
         /\ ~Ready(0) /\ Ready(1) => FirstPending = 1
<1>1. 0 \in Bufs /\ 1 \in Bufs
  BY DEF Bufs
<1> QED
  BY <1>1, ReadyPending DEF FirstPending, Pending, Ready

\* RS_FIND_BUF takes buffer 1 only while buffer 0 waits to be sent.
LEMMA ChunkOrderKept ==
  ASSUME IInv, NoFaultInv, ~MmcMayFail, Short, ChunkOrder, Next, ~CmdBlockRead
  PROVE  ChunkOrder'
<1>b. 0 \in Bufs /\ 1 \in Bufs
  BY DEF Bufs
<1>1. CASE ReadSendCmd
  <2>1. PICK c \in Bufs :
          /\ mmc_buf_state[c] = "FREE" /\ mmc_buf_state'[c] = "SPI_FILLING"
          /\ c = 1 => Ready(0)
          /\ mmc_active_buf' = c /\ buf_blocks'[c] = NextChunk
          /\ \A b \in Bufs \ {c} : mmc_buf_state'[b] = mmc_buf_state[b]
          /\ UNCHANGED countVars
    BY <1>1, SendCmdStep
  <2>2. c = 1 => mmc_blocks_issued # 0
    BY <2>1, <1>b, ReadyPending
  <2>3. NextChunk' = NextChunk
    BY <2>1 DEF NextChunk, countVars
  <2>4. Ready(1)' => Ready(1)
    BY <2>1, <1>b DEF Ready
  <2> QED
    BY <2>1, <2>2, <2>3, <2>4 DEF ChunkOrder, countVars
<1>2. CASE ReadAdvance
  <2> DEFINE a == mmc_active_buf
  <2>1. /\ Polled /\ ~Polled' /\ a \in Bufs
        /\ mmc_blocks_issued < mmc_blocks_total
        /\ mmc_blocks_issued' = mmc_blocks_issued + buf_blocks[a]
        /\ mmc_blocks_total' = mmc_blocks_total
        /\ \A b \in Bufs \ {a} : mmc_buf_state'[b] = mmc_buf_state[b]
    BY <1>2, AdvanceStep
  <2>2. mmc_blocks_issued' = mmc_blocks_issued + NextChunk
    BY <2>1 DEF ChunkOrder
  <2>3. /\ mmc_blocks_issued' \in {ChunkBlocks, mmc_blocks_total}
        /\ mmc_blocks_issued # 0 => mmc_blocks_issued' = mmc_blocks_total
    BY <2>1, <2>2, Types, Bounds DEF NextChunk, ChunkOrder, Short
  <2>4. ~Ready(1)
    BY <2>1, Types DEF ChunkOrder
  <2>5. Ready(1)' => a = 1
    BY <2>1, <2>4, <1>b DEF Ready
  <2> QED
    BY <2>1, <2>3, <2>5 DEF ChunkOrder
<1>3. CASE StreamSendLast
  <2>1. /\ UNCHANGED <<mmc_blocks_total, mmc_blocks_issued, mmc_active_buf, buf_blocks>>
        /\ Polled' = Polled
    BY <1>3, LastStep
  <2>2. Ready(1)' => Ready(1)
    BY <1>3, <1>b, LastStep DEF Ready
  <2>3. NextChunk' = NextChunk
    BY <2>1 DEF NextChunk
  <2> QED
    BY <2>1, <2>2, <2>3 DEF ChunkOrder
<1>4. CASE StreamWait \/ StreamSend \/ ~Moving
  <2>1. UNCHANGED countVars /\ UNCHANGED queueVars /\ Polled' = Polled
    BY <1>4, RestKeeps DEF StreamWait, StreamSend, Streaming, countVars, queueVars, Polled
  <2> QED
    BY <2>1 DEF countVars, queueVars, ChunkOrder, NextChunk, Ready
<1> QED
  BY <1>1, <1>2, <1>3, <1>4 DEF Moving, Submitting

\* The second chunk goes behind the first, and the first is consumed first.
LEMMA EndsKept ==
  ASSUME IInv, NoFaultInv, ~MmcMayFail, Short, ChunkOrder, Ends, Next, ~CmdBlockRead
  PROVE  Ends'
<1>b. 0 \in Bufs /\ 1 \in Bufs /\ \A b \in Bufs : b = 0 \/ b = 1
  BY DEF Bufs
<1>k. \A b \in Bufs : Ready(b) => read_buf'[b] = read_buf[b]
  BY ReadyKeepsData
<1>1. CASE ReadSendCmd
  <2>1. PICK c \in Bufs :
          /\ mmc_buf_state[c] = "FREE" /\ mmc_buf_state'[c] = "SPI_FILLING"
          /\ \A b \in Bufs \ {c} : /\ mmc_buf_state'[b] = mmc_buf_state[b]
                                   /\ buf_blocks'[b] = buf_blocks[b]
                                   /\ buf_sent'[b] = buf_sent[b]
          /\ UNCHANGED countVars
    BY <1>1, SendCmdStep
  <2>2. \A b \in Bufs : /\ Ready(b)' <=> Ready(b)
                        /\ Ready(b) => /\ buf_blocks'[b] = buf_blocks[b]
                                       /\ buf_sent'[b] = buf_sent[b]
    BY <2>1 DEF Ready
  <2> QED
    BY <2>1, <2>2, <1>b, <1>k DEF Ends, countVars
<1>2. CASE ReadAdvance
  <2> DEFINE a == mmc_active_buf
  <2>1. /\ a \in Bufs /\ mmc_buf_state[a] = "SPI_FILLING" /\ Ready(a)'
        /\ \A b \in Bufs \ {a} : mmc_buf_state'[b] = mmc_buf_state[b]
        /\ read_buf[a] = mmc_cur_lba + mmc_blocks_issued
        /\ mmc_blocks_issued' = mmc_blocks_issued + buf_blocks[a]
        /\ mmc_blocks_issued < mmc_blocks_total /\ Polled
        /\ UNCHANGED <<mmc_cur_lba, mmc_active_buf, buf_blocks, buf_sent, read_buf>>
    BY <1>2, AdvanceStep
  <2>2. ~Ready(1) /\ ~Ready(a)
    BY <2>1, Types DEF ChunkOrder, Ready
  <2>3. read_buf'[a] + buf_blocks'[a] = mmc_cur_lba' + mmc_blocks_issued'
    BY <2>1, Types DEF IInv, TypeOK, ReadTypeOK
  <2>4. CASE a = 0
    <3>1. ~Ready(1)'
      BY <2>1, <2>2, <2>4, <1>b DEF Ready
    <3> QED
      BY <2>3, <2>4, <3>1 DEF Ends
  <2>5. CASE a = 1
    <3>1. Ready(0)' <=> Ready(0)
      BY <2>1, <2>5, <1>b DEF Ready
    <3>2. Ready(0) => read_buf'[0] + buf_blocks'[0] = read_buf'[1]
      BY <2>1, <2>2, <2>5 DEF Ends
    <3>3. buf_sent'[1] = 0
      BY <2>1, <2>5 DEF IInv, ChunkFits
    <3>4. Ready(1)'
      BY <2>1, <2>5 DEF Ready
    <3> QED
      BY <2>3, <2>5, <3>1, <3>2, <3>3, <3>4 DEF Ends
  <2> QED
    BY <2>1, <2>4, <2>5, <1>b
<1>3. CASE StreamSendLast
  <2> DEFINE f == FirstPending
  <2>1. /\ f \in Bufs
        /\ mmc_buf_state'[f] = IF Emptied(f) THEN "FREE" ELSE mmc_buf_state[f]
        /\ \A b \in Bufs \ {f} : /\ mmc_buf_state'[b] = mmc_buf_state[b]
                                 /\ buf_sent'[b] = buf_sent[b]
        /\ UNCHANGED <<mmc_cur_lba, mmc_blocks_issued, buf_blocks, read_buf>>
    BY <1>3, LastStep
  <2>2. \A b \in Bufs : Ready(b)' => Ready(b)
    BY <2>1 DEF Ready
  <2>3. Ready(0)' => (Ready(1)' <=> Ready(1)) /\ buf_sent'[1] = buf_sent[1]
    <3>1. Ready(0)' => f = 0
      BY <2>2, <1>b, FirstReady
    <3> QED
      BY <2>1, <3>1, <1>b DEF Ready
  <2> QED
    BY <2>1, <2>2, <2>3, <1>b DEF Ends
<1>4. CASE StreamWait \/ StreamSend \/ ~Moving
  <2>1. UNCHANGED countVars /\ UNCHANGED queueVars
    BY <1>4, RestKeeps DEF StreamWait, StreamSend, Streaming, countVars, queueVars
  <2>2. \A b \in Bufs : Ready(b)' <=> Ready(b)
    BY <2>1 DEF queueVars, Ready
  <2> QED
    BY <2>1, <2>2, <1>b, <1>k DEF countVars, queueVars, Ends
<1> QED
  BY <1>1, <1>2, <1>3, <1>4 DEF Moving, Submitting

\* A chunk that becomes ready does not overtake the block stream_task holds: it
\* would have to be in buffer 0, after the last chunk.
LEMMA HeldFirstKept ==
  ASSUME IInv, NoFaultInv, ~MmcMayFail, Short, ChunkOrder, HeldFirst, Next, ~CmdBlockRead
  PROVE  HeldFirst'
<1>b. 0 \in Bufs /\ 1 \in Bufs /\ \A b \in Bufs : b = 0 \/ b = 1
  BY DEF Bufs
<1>i. IInv'
  BY NextIInv
<1>h. usb_block # NoBlock => usb_block[1] \in Bufs /\ Ready(usb_block[1])
  BY DEF NoFaultInv, HeldBlockCompleted, Pending, Ready, IInv, TypeOK, StreamTypeOK, BlockRefs
<1>1. CASE ReadSendCmd
  <2>1. PICK c \in Bufs :
          /\ mmc_buf_state[c] = "FREE" /\ mmc_buf_state'[c] = "SPI_FILLING"
          /\ \A b \in Bufs \ {c} : /\ mmc_buf_state'[b] = mmc_buf_state[b]
                                   /\ buf_blocks'[b] = buf_blocks[b]
                                   /\ buf_sent'[b] = buf_sent[b]
          /\ UNCHANGED streamVars
    BY <1>1, SendCmdStep
  <2>2. \A b \in Bufs : Pending(b)' <=> Pending(b)
    BY <2>1 DEF Pending
  <2>3. FirstPending' = FirstPending
    BY <2>2, <1>b DEF FirstPending
  <2> QED
    BY <2>1, <2>3 DEF HeldFirst, streamVars
<1>2. CASE ReadAdvance
  <2> SUFFICES ASSUME usb_block # NoBlock PROVE HeldFirst' 
    BY <1>2, AdvanceStep DEF HeldFirst, streamVars
  <2>1. /\ mmc_active_buf \in Bufs /\ mmc_buf_state[mmc_active_buf] = "SPI_FILLING"
        /\ \A b \in Bufs \ {mmc_active_buf} : mmc_buf_state'[b] = mmc_buf_state[b]
        /\ mmc_blocks_issued < mmc_blocks_total
        /\ UNCHANGED <<buf_blocks, buf_sent>> /\ UNCHANGED streamVars
    BY <1>2, AdvanceStep
  <2>2. usb_block[1] = 0 /\ Ready(0)
    BY <1>h, <1>b, <2>1, Types DEF ChunkOrder
  <2>3. Ready(0)'
    BY <2>1, <2>2, <1>b DEF Ready
  <2>4. FirstPending' = 0
    <3>1. Pending(0)'
      BY <2>1, <2>3, <1>b, <2>2, ReadyPending DEF Ready, Pending
    <3> QED
      BY <3>1 DEF FirstPending
  <2> QED
    BY <2>1, <2>2, <2>4 DEF HeldFirst, streamVars
<1>3. CASE StreamSendLast
  BY <1>3, LastStep DEF HeldFirst
<1>4. CASE StreamWait \/ StreamSend
  <2>1. UNCHANGED queueVars /\ usb_block' = Block
    BY <1>4 DEF StreamWait, StreamSend, Streaming, queueVars
  <2>2. FirstPending' = FirstPending
    BY <2>1 DEF queueVars, FirstPending, Pending
  <2>3. Block # NoBlock => Block[1] = FirstPending
    BY DEF Block, GetBuf, HeldFirst
  <2> QED
    BY <2>1, <2>2, <2>3 DEF HeldFirst
<1>5. CASE ~Moving
  <2>1. UNCHANGED queueVars /\ UNCHANGED streamVars
    BY <1>5, RestKeeps
  <2>2. FirstPending' = FirstPending
    BY <2>1 DEF queueVars, FirstPending, Pending
  <2> QED
    BY <2>1, <2>2 DEF HeldFirst, streamVars
<1> QED
  BY <1>1, <1>2, <1>3, <1>4, <1>5 DEF Moving, Submitting

\* The next block to be sent is the first one not consumed.
LEMMA NextInOrder ==
  ASSUME IInv, NoFaultInv, Ends, NEW b \in Bufs, Ready(b), b = FirstPending
  PROVE  read_buf[b] + buf_sent[b] = mmc_cur_lba + mmc_blocks_consumed
<1>b. 0 \in Bufs /\ 1 \in Bufs /\ \A c \in Bufs : c = 0 \/ c = 1
  BY DEF Bufs
<1>1. \A c \in Bufs : Ready(c) => /\ read_buf[c] \in Nat
                                  /\ Unsent[c] = buf_blocks[c] - buf_sent[c]
  BY DEF NoFaultInv, ReadyInRange, Ready, Unsent
<1>2. \A c \in Bufs : ~Ready(c) => Unsent[c] = 0
  BY DEF Ready, Unsent
<1>3. mmc_blocks_issued = mmc_blocks_consumed + Unsent[0] + Unsent[1]
  BY DEF IInv, Accounted, InRequest
<1>t. mmc_cur_lba \in Nat
  BY DEF IInv, TypeOK, ReadTypeOK
<1>4. CASE b = 0
  <2>1. CASE Ready(1)
    BY <1>4, <2>1, <1>1, <1>3, <1>b, <1>t, Types DEF Ends
  <2>2. CASE ~Ready(1)
    BY <1>4, <2>2, <1>1, <1>2, <1>3, <1>b, <1>t, Types DEF Ends
  <2> QED
    BY <2>1, <2>2
<1>5. CASE b = 1
  <2>1. ~Ready(0)
    BY <1>5, FirstReady
  <2> QED
    BY <1>5, <2>1, <1>1, <1>2, <1>3, <1>b, <1>t, Types DEF Ends
<1> QED
  BY <1>4, <1>5, <1>b

\* Each packet sent is the next one of the request.
LEMMA InOrderKept ==
  ASSUME IInv, NoFaultInv, ~MmcMayFail, Short, Ends, HeldFirst, InOrder, Next, ~CmdBlockRead
  PROVE  InOrder'
<1>1. mmc_cur_lba' = mmc_cur_lba
  <2>1. CASE ReadSendCmd
    BY <2>1, SendCmdStep DEF countVars
  <2>2. CASE ReadAdvance
    BY <2>2, AdvanceStep
  <2>3. CASE StreamSendLast
    BY <2>3, LastStep
  <2>4. CASE StreamWait \/ StreamSend
    BY <2>4 DEF StreamWait, StreamSend, Streaming
  <2>5. CASE ~Moving
    BY <2>5, RestKeeps DEF countVars
  <2> QED
    BY <2>1, <2>2, <2>3, <2>4, <2>5 DEF Moving, Submitting
<1>2. CASE Submitting
  <2> DEFINE c == mmc_blocks_consumed
             s == usb_sent
             n == Len(out)
  <2>1. /\ out \in Seq(Packets) /\ n = c * Chunks + s /\ n \in Nat
        /\ s \in 0 .. Chunks - 1 /\ Chunks \in Nat \ {0} /\ c \in Nat
    BY OutTyped
  <2>2. Block[1] = FirstPending
    BY <1>2 DEF Submitting, StreamSend, StreamSendLast, Block, GetBuf, HeldFirst
  <2>3. /\ Packet(Block, Sent) = <<mmc_cur_lba + c, s>>
        /\ Packet(Block, Sent) \in Packets
    BY <1>2, <2>2, SentPacket, NextInOrder
  <2>4. out' = Append(out, <<mmc_cur_lba + c, s>>)
    BY <1>2, <2>3, OutStep
  <2>5. /\ Len(out') = n + 1 /\ out'[n + 1] = <<mmc_cur_lba + c, s>>
        /\ \A i \in 1 .. n : out'[i] = out[i]
    BY <2>1, <2>3, <2>4
  <2>6. n \div Chunks = c /\ n % Chunks = s
    BY <2>1, PacketNumber
  <2>7. ASSUME NEW i \in 1 .. n + 1
        PROVE  out'[i] = <<mmc_cur_lba + (i - 1) \div Chunks, (i - 1) % Chunks>>
    <3>1. CASE i = n + 1
      <4>1. i - 1 = n
        BY <3>1, <2>1
      <4> QED
        BY <3>1, <4>1, <2>5, <2>6
    <3>2. CASE i \in 1 .. n
      BY <3>2, <2>5 DEF InOrder
    <3> QED
      BY <3>1, <3>2, <2>1
  <2> QED
    BY <2>5, <2>7, <1>1 DEF InOrder
<1>3. CASE ~Submitting
  <2>1. out' = out
    BY <1>3, OutStep
  <2> QED
    BY <2>1, <1>1 DEF InOrder
<1> QED
  BY <1>2, <1>3

\* A request starts with nothing issued, nothing ready and an empty stream.
LEMMA RequestInOrder ==
  ASSUME IInv, NoFaultInv, ~MmcMayFail, CmdBlockRead
  PROVE  ChunkOrder' /\ Ends' /\ HeldFirst' /\ InOrder'
<1>1. /\ mmc_buf_state' = [b \in Bufs |-> "FREE"] /\ mmc_blocks_issued' = 0
      /\ read_state' = "FIND_BUF" /\ usb_block' = NoBlock
  BY ReadyHostRests DEF CmdBlockRead, StartRead, ResetCounters
<1>2. ~Ready(0)' /\ ~Ready(1)' /\ ~Polled'
  BY <1>1 DEF Ready, Polled, Bufs
<1>3. out' = << >>
  BY OutStep DEF Next, Loop
<1> QED
  BY <1>1, <1>2, <1>3 DEF ChunkOrder, Ends, HeldFirst, InOrder

\* Every step keeps a short request in order.
LEMMA NextShort ==
  ASSUME ~MmcMayFail, IInv, NoFaultInv, ShortInv, [Next]_vars PROVE ShortInv'
<1>1. CASE CmdBlockRead
  BY <1>1, RequestInOrder DEF ShortInv
<1>2. CASE Next /\ ~CmdBlockRead
  <2>1. mmc_blocks_total' = mmc_blocks_total
    <3>1. CASE ReadSendCmd
      BY <3>1, SendCmdStep DEF countVars
    <3>2. CASE ReadAdvance
      BY <3>2, AdvanceStep
    <3>3. CASE StreamSendLast
      BY <3>3, LastStep
    <3>4. CASE StreamWait \/ StreamSend
      BY <3>4 DEF StreamWait, StreamSend, Streaming
    <3>5. CASE ~Moving
      BY <1>2, <3>5, RestKeeps DEF countVars
    <3> QED
      BY <1>2, <3>1, <3>2, <3>3, <3>4, <3>5 DEF Moving, Submitting
  <2> SUFFICES ASSUME Short PROVE ChunkOrder' /\ Ends' /\ HeldFirst' /\ InOrder'
    BY <2>1 DEF ShortInv, Short
  <2> QED
    BY <1>2, ChunkOrderKept, EndsKept, HeldFirstKept, InOrderKept DEF ShortInv
<1>3. CASE UNCHANGED vars
  BY <1>3 DEF vars, readVars, streamVars, hostVars, ShortInv, Short, ChunkOrder, Ends,
     HeldFirst, InOrder, Polled, NextChunk, Ready, FirstPending, Pending, out
<1> QED
  BY <1>1, <1>2, <1>3

\* While the card does not fail, a request of at most two chunks reaches the host
\* in order and each block once, whatever CHUNK_BLOCKS and the packet size are.
THEOREM ShortCorrect == ASSUME ~MmcMayFail PROVE Spec => []ShortStreamInOrder
<1>1. Init => ShortInv
  BY DEF Init, ShortInv, ChunkOrder, Ends, HeldFirst, InOrder, out, Polled, Ready, Bufs
<1>2. IInv /\ NoFaultInv /\ ShortInv /\ [Next]_vars => ShortInv'
  BY NextShort
<1>3. ShortInv => ShortStreamInOrder
  BY DEF ShortInv, Short, ShortStreamInOrder
<1> QED
  BY <1>1, <1>2, <1>3, NoFaultCorrect, PTL DEF Spec
-----------------------------------------------------------------------------
(* The stream contract, for the chunks of one block the code reads.        *)

\* #define CHUNK_BLOCKS 1
OneBlockChunks == ChunkBlocks = 1

\* The block of the last packet of the stream.
Last == out[Len(out)][1]

\* A read that is over has had all its blocks consumed.
DoneConsumed == mmc_bio_status # "BUSY" => mmc_blocks_consumed = mmc_blocks_total

\* No ready buffer lies behind what was sent last, nor does what is read next.
Behind ==
  out # << >> =>
    /\ Last \in Nat /\ Last < mmc_cur_lba + mmc_blocks_issued
    /\ \A b \in Bufs : Ready(b) => Last <= read_buf[b]

\* While stream_task holds no block at most one buffer is ready, and from its
\* turn to the next turn of the read task the other one is free.
TakenUp ==
  usb_block = NoBlock =>
    \A b \in Bufs : Ready(b) => \A c \in Bufs \ {b} :
      \/ mmc_buf_state[c] = "FREE"
      \/ mmc_buf_state[c] = "SPI_FILLING" /\ task = "stream"

\* The block it holds is the oldest one ready, and the one it has begun to send.
HeldOldest ==
  usb_block # NoBlock =>
    /\ usb_sent > 0 => out # << >> /\ read_buf[usb_block[1]] = Last
    /\ \A c \in Bufs : Ready(c) => read_buf[usb_block[1]] <= read_buf[c]

ForwardInv == DoneConsumed /\ Behind /\ TakenUp /\ HeldOldest

\* A ready buffer holds one block, and none of it is consumed.
LEMMA OneBlock ==
  ASSUME OneBlockChunks, IInv, NEW b \in Bufs, Ready(b)
  PROVE  buf_sent[b] = 0 /\ buf_blocks[b] = 1
  BY Bounds DEF OneBlockChunks, IInv, ReadyUnsent, Ready, TypeOK, BufferTypeOK

\* What a ready buffer holds has been issued.
LEMMA ReadyIssued ==
  ASSUME OneBlockChunks, IInv, NoFaultInv, NEW b \in Bufs, Ready(b)
  PROVE  /\ read_buf[b] \in Nat /\ mmc_cur_lba <= read_buf[b]
         /\ read_buf[b] < mmc_cur_lba + mmc_blocks_issued
         /\ read_buf[b] < mmc_cur_lba + mmc_blocks_total
         /\ mmc_cur_lba \in Nat /\ mmc_blocks_issued \in Nat /\ mmc_blocks_total \in Nat
<1>1. buf_blocks[b] = 1
  BY OneBlock
<1>2. mmc_cur_lba \in Nat /\ mmc_blocks_issued <= mmc_blocks_total
  BY DEF IInv, InRequest, TypeOK, ReadTypeOK
<1> QED
  BY <1>1, <1>2, Types DEF NoFaultInv, ReadyInRange, Ready

\* The block stream_task goes on with is the oldest one ready.
LEMMA OldestFirst ==
  ASSUME IInv, NoFaultInv, TakenUp, HeldOldest, Block # NoBlock
  PROVE  \A c \in Bufs : Ready(c) => read_buf[Block[1]] <= read_buf[c]
<1>1. CASE usb_block # NoBlock
  BY <1>1 DEF Block, HeldOldest
<1>2. CASE usb_block = NoBlock
  <2>1. Block[1] \in Bufs /\ Ready(Block[1])
    BY BlockIsPending DEF Pending, Ready
  <2>2. \A c \in Bufs : Ready(c) => c = Block[1]
    BY <1>2, <2>1 DEF TakenUp, Ready
  <2>3. read_buf[Block[1]] \in Nat
    BY <2>1 DEF NoFaultInv, ReadyInRange, Ready
  <2> QED
    BY <2>2, <2>3
<1> QED
  BY <1>1, <1>2

\* What a packet sent does to the end of the stream.
LEMMA LastSent ==
  ASSUME OneBlockChunks, IInv, NoFaultInv, ~MmcMayFail, Next, Submitting
  PROVE  /\ out' # << >> /\ Last' = read_buf[Block[1]]
         /\ out' = Append(out, <<read_buf[Block[1]], usb_sent>>)
         /\ Block[1] \in Bufs /\ Ready(Block[1])
<1>1. /\ Block[1] \in Bufs /\ Ready(Block[1]) /\ read_buf[Block[1]] \in Nat
      /\ Packet(Block, Sent) = <<read_buf[Block[1]] + buf_sent[Block[1]], usb_sent>>
      /\ Packet(Block, Sent) \in Packets
  BY SentPacket
<1>2. Packet(Block, Sent) = <<read_buf[Block[1]], usb_sent>>
  BY <1>1, OneBlock
<1>3. out' = Append(out, Packet(Block, Sent)) /\ out \in Seq(Packets)
  BY OutStep, OutTyped
<1>4. /\ Len(out') = Len(out) + 1 /\ out'[Len(out) + 1] = Packet(Block, Sent)
      /\ Len(out) \in Nat
  BY <1>1, <1>3
<1>5. out' # << >>
  BY <1>4
<1>6. Last' = read_buf[Block[1]]
  BY <1>2, <1>4 DEF Last
<1> QED
  BY <1>1, <1>2, <1>3, <1>5, <1>6

\* mmc_read_task is done only once all is consumed, and nothing is consumed later.
LEMMA DoneConsumedKept ==
  ASSUME IInv, NoFaultInv, ~MmcMayFail, DoneConsumed, Next PROVE DoneConsumed'
<1>1. CASE CmdBlockRead
  BY <1>1 DEF CmdBlockRead, StartRead, DoneConsumed
<1>2. CASE ReadAllIssued
  BY <1>2, ConsumedInRequest, Types
     DEF ReadAllIssued, DoneConsumed, IInv, InRequest
<1>3. CASE StreamSendLast
  <2>1. mmc_blocks_consumed < mmc_blocks_total /\ mmc_bio_status' = mmc_bio_status
    BY <1>3, LastStep, ReadyPending
  <2> QED
    BY <2>1, Types DEF DoneConsumed
<1>4. CASE ~CmdBlockRead /\ ~ReadAllIssued /\ ~StreamSendLast
  <2>1. mmc_bio_status' = mmc_bio_status
    BY <1>4 DEF Next, Loop, ReadTask, StreamTask, NoCommand, ReadSkip, ReadSendCmd,
       ReadNoBuf, ReadError, Failed, NoFaultInv, NoError, ReadWait, ReadCmdComplete,
       ReadBulk, ReadAdvance, StreamIdle, StreamError, StreamWait, StreamSend, Streaming,
       DmaDone, CtlResponse, CtlBufReady, CtlComplete, CtlError, CtlStep, HostRead,
       HostDrain, readVars
  <2>2. UNCHANGED <<mmc_blocks_consumed, mmc_blocks_total>>
    <3>1. CASE ReadSendCmd
      BY <3>1, SendCmdStep DEF countVars
    <3>2. CASE ReadAdvance
      BY <3>2, AdvanceStep
    <3>3. CASE StreamWait \/ StreamSend
      BY <3>3 DEF StreamWait, StreamSend, Streaming
    <3>4. CASE ~Moving
      BY <3>4, RestKeeps DEF countVars
    <3> QED
      BY <1>4, <3>1, <3>2, <3>3, <3>4 DEF Moving, Submitting
  <2> QED
    BY <2>1, <2>2 DEF DoneConsumed
<1> QED
  BY <1>1, <1>2, <1>3, <1>4

\* What is sent is the oldest block ready, and what is read lies behind all of it.
LEMMA BehindKept ==
  ASSUME OneBlockChunks, IInv, NoFaultInv, ~MmcMayFail, Behind, TakenUp, HeldOldest, Next
  PROVE  Behind'
<1>k. \A b \in Bufs : Ready(b) => read_buf'[b] = read_buf[b]
  BY ReadyKeepsData
<1>1. CASE CmdBlockRead
  BY <1>1, OutStep DEF Behind
<1>2. CASE ReadSendCmd
  <2>1. out' = out
    BY <1>2, OutStep
       DEF CmdBlockRead, ReadSendCmd, Reading, Submitting, StreamSend, StreamSendLast,
           Streaming, StreamTurn
  <2>2. \A b \in Bufs : Ready(b)' => Ready(b)
    BY <1>2, SendCmdStep DEF Ready
  <2>3. UNCHANGED countVars /\ Last' = Last
    BY <1>2, <2>1, SendCmdStep DEF Last
  <2> QED
    BY <2>1, <2>2, <2>3, <1>k DEF Behind, countVars
<1>3. CASE ReadAdvance
  <2> DEFINE a == mmc_active_buf
  <2>1. out' = out
    BY <1>3, OutStep
       DEF CmdBlockRead, ReadAdvance, Reading, Submitting, StreamSend, StreamSendLast,
           Streaming, StreamTurn
  <2>2. /\ a \in Bufs /\ read_buf[a] = mmc_cur_lba + mmc_blocks_issued
        /\ \A b \in Bufs \ {a} : mmc_buf_state'[b] = mmc_buf_state[b]
        /\ mmc_blocks_issued' = mmc_blocks_issued + buf_blocks[a]
        /\ UNCHANGED <<mmc_cur_lba, read_buf>>
    BY <1>3, AdvanceStep
  <2>3. \A b \in Bufs : Ready(b)' => b = a \/ Ready(b)
    BY <2>2 DEF Ready
  <2>4. Last' = Last
    BY <2>1 DEF Last
  <2>5. mmc_cur_lba \in Nat /\ mmc_blocks_issued \in Nat /\ buf_blocks[a] \in Nat
    BY <2>2, Types DEF IInv, TypeOK, ReadTypeOK
  <2> QED
    BY <2>1, <2>2, <2>3, <2>4, <2>5 DEF Behind
<1>4. CASE Submitting
  <2> DEFINE h == Block[1]
  <2>1. Last' = read_buf[h] /\ h \in Bufs /\ Ready(h)
    BY <1>4, LastSent
  <2>2. read_buf[h] \in Nat /\ read_buf[h] < mmc_cur_lba + mmc_blocks_issued
    BY <2>1, ReadyIssued
  <2>3. UNCHANGED <<mmc_cur_lba, mmc_blocks_issued, read_buf>>
    BY <1>4 DEF Submitting, StreamSend, StreamSendLast, Streaming
  <2>4. \A b \in Bufs : Ready(b)' => Ready(b)
    <3>1. CASE StreamSend
      BY <3>1 DEF StreamSend, Ready
    <3>2. CASE StreamSendLast
      BY <3>2, LastStep DEF Ready
    <3> QED
      BY <1>4, <3>1, <3>2 DEF Submitting
  <2>5. \A b \in Bufs : Ready(b) => read_buf[h] <= read_buf[b]
    BY <1>4, OldestFirst DEF Submitting, StreamSend, StreamSendLast
  <2> QED
    BY <2>1, <2>2, <2>3, <2>4, <2>5 DEF Behind
<1>5. CASE StreamWait \/ ~Moving
  <2>1. UNCHANGED countVars /\ UNCHANGED queueVars
    BY <1>5, RestKeeps DEF StreamWait, Streaming, countVars, queueVars
  <2>2. out' = out
    BY <1>5, RestKeeps DEF StreamWait, Streaming, out
  <2>3. \A b \in Bufs : Ready(b)' <=> Ready(b)
    BY <2>1 DEF queueVars, Ready
  <2>4. Last' = Last
    BY <2>2 DEF Last
  <2> QED
    BY <2>1, <2>2, <2>3, <2>4, <1>k DEF Behind, countVars
<1> QED
  BY <1>1, <1>2, <1>3, <1>4, <1>5 DEF Moving

\* stream_task takes a ready buffer up in its next turn, and with one block per
\* chunk each consume frees a buffer.
LEMMA TakenUpKept ==
  ASSUME OneBlockChunks, IInv, NoFaultInv, ~MmcMayFail, DoneConsumed, TakenUp, Next
  PROVE  TakenUp'
<1>b. 0 \in Bufs /\ 1 \in Bufs /\ \A b \in Bufs : b = 0 \/ b = 1
  BY DEF Bufs
<1>t. mmc_buf_state \in [Bufs -> {"FREE", "SPI_FILLING", "READY_FOR_USB"}]
  BY DEF IInv, TypeOK, BufferTypeOK
<1>1. CASE CmdBlockRead
  BY <1>1 DEF CmdBlockRead, StartRead, TakenUp, Ready
<1>2. CASE ReadSendCmd
  <2>1. PICK c \in Bufs :
          /\ mmc_buf_state[c] = "FREE" /\ mmc_buf_state'[c] = "SPI_FILLING"
          /\ \A b \in Bufs \ {c} : mmc_buf_state'[b] = mmc_buf_state[b]
          /\ UNCHANGED streamVars /\ task = "read"
    BY <1>2, SendCmdStep
  <2>2. task' = "stream"
    BY <1>2 DEF ReadSendCmd, Reading
  <2> QED
    BY <2>1, <2>2 DEF TakenUp, Ready, streamVars
<1>3. CASE ReadAdvance
  <2> DEFINE a == mmc_active_buf
  <2>1. /\ a \in Bufs /\ mmc_buf_state[a] = "SPI_FILLING" /\ task = "read"
        /\ \A b \in Bufs \ {a} : mmc_buf_state'[b] = mmc_buf_state[b]
        /\ UNCHANGED streamVars
    BY <1>3, AdvanceStep
  <2>2. \A b \in Bufs \ {a} : mmc_buf_state[b] # "SPI_FILLING"
    BY DEF IInv, FillingIsPolled
  <2>3. usb_block = NoBlock => \A b \in Bufs \ {a} : mmc_buf_state[b] = "FREE"
    BY <2>1, <2>2, <1>t DEF TakenUp, Ready
  <2> QED
    BY <2>1, <2>3 DEF TakenUp, Ready, streamVars
<1>4. CASE StreamWait
  <2> SUFFICES ASSUME Block = NoBlock PROVE TakenUp'
    BY <1>4 DEF StreamWait, TakenUp
  <2>1. FirstPending = NoBuf
    BY BlockIsPending, FirstPendingIsPending DEF Block, GetBuf, NoBlock, Bufs, NoBuf
  <2>2. ~Ready(0) /\ ~Ready(1)
    BY <2>1, FirstReady DEF NoBuf
  <2> QED
    BY <1>4, <2>2, <1>b DEF StreamWait, TakenUp, Ready
<1>5. CASE StreamSend
  BY <1>5 DEF StreamSend, TakenUp
<1>6. CASE StreamSendLast
  <2> DEFINE f == FirstPending
  <2>1. /\ f \in Bufs /\ Ready(f)
        /\ mmc_buf_state'[f] = IF Emptied(f) THEN "FREE" ELSE mmc_buf_state[f]
    BY <1>6, LastStep
  <2>2. mmc_buf_state'[f] = "FREE"
    BY <2>1, OneBlock DEF Emptied
  <2> QED
    BY <2>1, <2>2, <1>b DEF TakenUp, Ready
<1>7. CASE ~Moving
  <2>1. UNCHANGED queueVars /\ UNCHANGED streamVars
    BY <1>7, RestKeeps
  <2>2. CASE StreamIdle
    <3>1. mmc_blocks_consumed = mmc_blocks_total
      BY <2>2 DEF StreamIdle, NoFaultInv, StreamInv, DoneConsumed
    <3>2. \A b \in Bufs : ~Ready(b)
      BY <3>1, ReadyPending, Types
    <3> QED
      BY <2>1, <3>2 DEF queueVars, TakenUp, Ready
  <2>3. CASE ~StreamIdle
    <3>1. task = "stream" => task' = "stream"
      BY <1>7, <2>3 DEF Moving, Submitting, Next, Loop, ReadTask, StreamTask, NoCommand,
         ReadSkip, ReadAllIssued, ReadNoBuf, ReadError, ReadWait, ReadCmdComplete,
         ReadBulk, Reading, StreamError, StreamFailed, NoFaultInv, NoError, DmaDone,
         CtlResponse, CtlBufReady, CtlComplete, CtlError, CtlStep, HostRead, HostDrain
    <3> QED
      BY <2>1, <3>1 DEF queueVars, streamVars, TakenUp, Ready
  <2> QED
    BY <2>2, <2>3
<1> QED
  BY <1>1, <1>2, <1>3, <1>4, <1>5, <1>6, <1>7 DEF Moving, Submitting

\* A chunk that becomes ready later is behind the block stream_task holds.
LEMMA HeldOldestKept ==
  ASSUME OneBlockChunks, IInv, NoFaultInv, ~MmcMayFail, TakenUp, HeldOldest, Next
  PROVE  HeldOldest'
<1>k. \A b \in Bufs : Ready(b) => read_buf'[b] = read_buf[b]
  BY ReadyKeepsData
<1>h. usb_block # NoBlock => usb_block[1] \in Bufs /\ Ready(usb_block[1])
  BY DEF NoFaultInv, HeldBlockCompleted, Pending, Ready, IInv, TypeOK, StreamTypeOK, BlockRefs
<1>1. CASE CmdBlockRead
  BY <1>1, ReadyHostRests DEF CmdBlockRead, HeldOldest
<1>2. CASE ReadSendCmd
  <2>1. out' = out
    BY <1>2, OutStep
       DEF CmdBlockRead, ReadSendCmd, Reading, Submitting, StreamSend, StreamSendLast,
           Streaming, StreamTurn
  <2>2. (\A b \in Bufs : Ready(b)' => Ready(b)) /\ UNCHANGED streamVars
    BY <1>2, SendCmdStep DEF Ready
  <2>3. Last' = Last
    BY <2>1 DEF Last
  <2> QED
    BY <2>1, <2>2, <2>3, <1>k, <1>h DEF HeldOldest, streamVars
<1>3. CASE ReadAdvance
  <2> DEFINE a == mmc_active_buf
  <2>1. out' = out
    BY <1>3, OutStep
       DEF CmdBlockRead, ReadAdvance, Reading, Submitting, StreamSend, StreamSendLast,
           Streaming, StreamTurn
  <2>2. /\ a \in Bufs /\ read_buf[a] = mmc_cur_lba + mmc_blocks_issued
        /\ \A b \in Bufs \ {a} : mmc_buf_state'[b] = mmc_buf_state[b]
        /\ UNCHANGED read_buf /\ UNCHANGED streamVars
    BY <1>3, AdvanceStep
  <2>3. \A b \in Bufs : Ready(b)' => b = a \/ Ready(b)
    BY <2>2 DEF Ready
  <2>4. Last' = Last
    BY <2>1 DEF Last
  <2>5. usb_block # NoBlock => read_buf[usb_block[1]] <= read_buf[a]
    BY <2>2, <1>h, ReadyIssued
  <2> QED
    BY <2>1, <2>2, <2>3, <2>4, <2>5, <1>h DEF HeldOldest, streamVars
<1>4. CASE StreamWait
  <2>1. /\ usb_block' = Block /\ usb_sent' = usb_sent
        /\ UNCHANGED <<mmc_buf_state, read_buf>>
    BY <1>4 DEF StreamWait, Streaming, Sent, NoFaultInv, StreamInv
  <2>2. out' = out
    BY <1>4 DEF StreamWait, Streaming, out
  <2>3. Last' = Last
    BY <2>2 DEF Last
  <2>4. Block # NoBlock => \A c \in Bufs : Ready(c) => read_buf[Block[1]] <= read_buf[c]
    BY OldestFirst
  <2>5. Block # NoBlock /\ usb_sent > 0 => Block = usb_block /\ usb_block # NoBlock
    BY DEF Block, NoFaultInv, StreamInv
  <2> QED
    BY <2>1, <2>2, <2>3, <2>4, <2>5 DEF HeldOldest, Ready
<1>5. CASE StreamSend
  <2>1. usb_block' = Block /\ Block # NoBlock /\ UNCHANGED <<mmc_buf_state, read_buf>>
    BY <1>5 DEF StreamSend, Streaming
  <2>2. out' # << >> /\ Last' = read_buf[Block[1]]
    BY <1>5, LastSent DEF Submitting
  <2>3. \A c \in Bufs : Ready(c) => read_buf[Block[1]] <= read_buf[c]
    BY <2>1, OldestFirst
  <2> QED
    BY <2>1, <2>2, <2>3 DEF HeldOldest, Ready
<1>6. CASE StreamSendLast
  BY <1>6, LastStep DEF HeldOldest
<1>7. CASE ~Moving
  <2>1. UNCHANGED queueVars /\ UNCHANGED streamVars /\ out' = out
    BY <1>7, RestKeeps
  <2>2. Last' = Last
    BY <2>1 DEF Last
  <2> QED
    BY <2>1, <2>2, <1>k, <1>h DEF queueVars, streamVars, HeldOldest, Ready
<1> QED
  BY <1>1, <1>2, <1>3, <1>4, <1>5, <1>6, <1>7 DEF Moving, Submitting

\* Every step keeps the stream going forward.
LEMMA NextForward ==
  ASSUME OneBlockChunks, ~MmcMayFail, IInv, NoFaultInv, ForwardInv, [Next]_vars
  PROVE  ForwardInv'
<1>1. CASE Next
  BY <1>1, DoneConsumedKept, BehindKept, TakenUpKept, HeldOldestKept DEF ForwardInv
<1>2. CASE UNCHANGED vars
  BY <1>2 DEF vars, readVars, streamVars, hostVars, ForwardInv, DoneConsumed, Behind,
     TakenUp, HeldOldest, Last, Ready, out
<1> QED
  BY <1>1, <1>2

\* With nothing left to consume and no block begun, the stream has all its packets.
LEMMA CompleteWhenConsumed ==
  ASSUME IInv, NoFaultInv, mmc_blocks_consumed = mmc_blocks_total, usb_block = NoBlock
  PROVE  Contract!Complete
<1>1. Len(out) = mmc_blocks_total * Chunks + usb_sent
  BY OutTyped
<1>2. usb_sent = 0 /\ mmc_blocks_total * Chunks \in Nat
  BY Types, Bounds, ProductNat DEF NoFaultInv, StreamInv
<1> QED
  BY <1>1, <1>2 DEF Contract!Complete

\* The host asks for the next blocks only when it has all of the last ones.
LEMMA RequestOpens ==
  ASSUME IInv, NoFaultInv, ~MmcMayFail, ForwardInv, CmdBlockRead
  PROVE  Contract!Next
<1>1. PICK l \in Lbas, n \in 0 .. MaxCount : StartRead(l, n)
  BY DEF CmdBlockRead
<1>2. /\ mmc_cur_lba' = l /\ mmc_blocks_total' = n
      /\ stream_state' = "BLOCK_READ" /\ out' = << >>
  BY <1>1, OutStep DEF CmdBlockRead, StartRead, Next, Loop
<1>3. Contract!Complete
  <2>1. CASE Len(delivered) = mmc_blocks_total * Chunks
    <3>1. tx = << >>
      BY ReadyHostRests DEF CmdBlockRead
    <3>2. Len(out) = Len(delivered)
      BY <3>1 DEF out, IInv, TypeOK, StreamTypeOK
    <3> QED
      BY <2>1, <3>2 DEF Contract!Complete
  <2>2. CASE stream_state = "IDLE"
    <3>1. mmc_blocks_consumed = mmc_blocks_total
      BY <2>2 DEF NoFaultInv, StreamInv, ForwardInv, DoneConsumed
    <3> QED
      BY <3>1, CompleteWhenConsumed, ReadyHostRests DEF CmdBlockRead
  <2> QED
    BY <2>1, <2>2 DEF CmdBlockRead, HostReady
<1> QED
  BY <1>1, <1>2, <1>3 DEF Contract!Next, Contract!Open

\* A packet sent goes on with the block begun, or begins one of the request that
\* is not behind it.
LEMMA SendEmits ==
  ASSUME OneBlockChunks, IInv, NoFaultInv, ~MmcMayFail, ForwardInv, Submitting, Next
  PROVE  Contract!Next
<1> DEFINE h == Block[1]
           n == Len(out)
<1>1. /\ h \in Bufs /\ Ready(h)
      /\ out' = Append(out, <<read_buf[h], usb_sent>>)
  BY LastSent
<1>2. /\ stream_state = "BLOCK_READ" /\ stream_state' = "BLOCK_READ"
      /\ UNCHANGED <<mmc_cur_lba, mmc_blocks_total>>
      /\ Block # NoBlock
  <2>1. stream_state = "BLOCK_READ" /\ Block # NoBlock
        /\ UNCHANGED <<mmc_cur_lba, mmc_blocks_total, mmc_bio_status>>
    BY DEF Submitting, StreamSend, StreamSendLast, Streaming
  <2>2. mmc_bio_status # "DONE"
    <3>1. mmc_blocks_consumed < mmc_blocks_total
      BY <1>1, ReadyPending
    <3> QED
      BY <3>1, Types DEF ForwardInv, DoneConsumed
  <2>3. stream_state' = "BLOCK_READ"
    BY <2>2 DEF Submitting, StreamSend, StreamSendLast, FinishStream
  <2> QED
    BY <2>1, <2>3
<1>3. /\ n = mmc_blocks_consumed * Chunks + usb_sent
      /\ usb_sent \in 0 .. Chunks - 1 /\ Chunks \in Nat \ {0} /\ mmc_blocks_consumed \in Nat
  BY OutTyped
<1>4. ~Contract!Complete
  <2>1. mmc_blocks_consumed < mmc_blocks_total
    BY <1>1, ReadyPending
  <2>2. mmc_blocks_consumed * Chunks + usb_sent < mmc_blocks_total * Chunks
    BY <2>1, <1>3, Types, PacketsOfBlocks
  <2>3. mmc_blocks_total * Chunks \in Nat /\ mmc_blocks_consumed * Chunks \in Nat
    BY Types, Bounds, ProductNat
  <2> QED
    BY <2>2, <2>3, <1>3 DEF Contract!Complete
<1>5. n % Chunks = usb_sent
  BY <1>3, PacketNumber
<1>6. /\ read_buf[h] \in mmc_cur_lba .. mmc_cur_lba + mmc_blocks_total - 1
      /\ read_buf[h] \in mmc_cur_lba .. mmc_cur_lba + mmc_blocks_total
  BY <1>1, ReadyIssued
<1>7. out # << >> => IF usb_sent = 0 THEN read_buf[h] >= Last ELSE read_buf[h] = Last
  <2>1. out # << >> => Last \in Nat /\ Last <= read_buf[h] /\ read_buf[h] \in Nat
    BY <1>1, ReadyIssued DEF ForwardInv, Behind
  <2>2. usb_sent # 0 => read_buf[h] = Last
    <3>1. usb_sent # 0 => usb_sent > 0 /\ usb_block # NoBlock /\ h = usb_block[1]
      BY <1>3 DEF NoFaultInv, StreamInv, Block
    <3> QED
      BY <3>1 DEF ForwardInv, HeldOldest
  <2> QED
    BY <2>1, <2>2
<1>8. Contract!Emit(read_buf[h])
  BY <1>1, <1>2, <1>4, <1>5, <1>6, <1>7 DEF Contract!Emit, Last
<1> QED
  BY <1>6, <1>8 DEF Contract!Next

\* The stream is closed once it has all its packets.
LEMMA WaitCloses ==
  ASSUME IInv, NoFaultInv, ~MmcMayFail, ForwardInv, StreamWait
  PROVE  Contract!Next \/ UNCHANGED Contract!cvars
<1>1. /\ stream_state = "BLOCK_READ"
      /\ UNCHANGED <<mmc_cur_lba, mmc_blocks_total>> /\ out' = out
  BY DEF StreamWait, Streaming, out
<1>2. CASE mmc_bio_status = "DONE" /\ Block = NoBlock
  <2>1. usb_block = NoBlock
    BY <1>2 DEF Block
  <2>2. Contract!Complete
    BY <1>2, <2>1, CompleteWhenConsumed DEF ForwardInv, DoneConsumed
  <2>3. stream_state' = "IDLE"
    BY <1>2 DEF StreamWait, FinishStream
  <2>4. Contract!Close
    BY <1>1, <2>2, <2>3 DEF Contract!Close
  <2> QED
    BY <2>4 DEF Contract!Next
<1>3. CASE ~(mmc_bio_status = "DONE" /\ Block = NoBlock)
  <2>1. stream_state' = "BLOCK_READ"
    BY <1>3 DEF StreamWait, FinishStream
  <2> QED
    BY <1>1, <2>1 DEF Contract!cvars
<1> QED
  BY <1>2, <1>3

\* Every step of the firmware is one of the contract, or none of its business.
LEMMA ContractStep ==
  ASSUME OneBlockChunks, ~MmcMayFail, IInv, NoFaultInv, ForwardInv, [Next]_vars
  PROVE  Contract!Next \/ UNCHANGED Contract!cvars
<1>1. CASE CmdBlockRead
  BY <1>1, RequestOpens
<1>2. CASE Next /\ Submitting
  BY <1>2, SendEmits
<1>3. CASE StreamWait
  BY <1>3, WaitCloses
<1>4. CASE ReadSendCmd \/ ReadAdvance
  <2>1. UNCHANGED <<mmc_cur_lba, mmc_blocks_total, stream_state, tx, delivered>>
    BY <1>4 DEF ReadSendCmd, ReadAdvance, Reading, streamVars, hostVars
  <2> QED
    BY <2>1 DEF Contract!cvars, out
<1>5. CASE ~Moving
  <2>1. UNCHANGED countVars /\ UNCHANGED streamVars /\ out' = out
    BY <1>5, RestKeeps
  <2> QED
    BY <2>1 DEF Contract!cvars, countVars, streamVars
<1>6. CASE UNCHANGED vars
  BY <1>6 DEF vars, readVars, streamVars, hostVars, Contract!cvars, out
<1> QED
  BY <1>1, <1>2, <1>3, <1>4, <1>5, <1>6 DEF Moving

\* While the card does not fail, the firmware implements the stream contract with
\* the chunks of one block it is built for: each request is answered by exactly the
\* packets of its count of blocks, whole blocks of its range, never going back.
THEOREM ContractImplemented ==
  ASSUME OneBlockChunks, ~MmcMayFail PROVE Spec => ImplementsContract
<1>1. Init => ForwardInv /\ Contract!Init
  BY DEF Init, ForwardInv, DoneConsumed, Behind, TakenUp, HeldOldest, Ready, Bufs, out,
     Contract!Init
<1>2. IInv /\ NoFaultInv /\ ForwardInv /\ [Next]_vars => ForwardInv'
  BY NextForward
<1>3. IInv /\ NoFaultInv /\ ForwardInv /\ [Next]_vars => [Contract!Next]_(Contract!cvars)
  BY ContractStep
<1> QED
  BY <1>1, <1>2, <1>3, NoFaultCorrect, PTL DEF Spec, ImplementsContract, Contract!Spec
=============================================================================
