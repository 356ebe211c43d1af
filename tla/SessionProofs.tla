--------------------------- MODULE SessionProofs ---------------------------
(***************************************************************************)
(* Proofs about Session.                                                   *)
(*                                                                         *)
(* Three invariants build on each other.  TypeInv holds whatever happens:  *)
(* the types, with the inductive invariant of the pipeline (PipeInv of     *)
(* BlockReadProofs).  CalmInv, with LoopInv, says what a turn of the main  *)
(* loop that changed nothing has found, which is what a timeout of pfcli   *)
(* means.  FirstInv says where pfcli, cmd_task, the tasks and the          *)
(* controller stand to each other as long as no more than one thing has    *)
(* gone wrong; beyond that the session does not keep it, see README.       *)
(*                                                                         *)
(* A lemma At<Action> says where the others are when a step is taken, a    *)
(* lemma After<Action> that it keeps the parts of FirstInv.                *)
(***************************************************************************)
EXTENDS Session, BlockReadProofs, TLAPS

-----------------------------------------------------------------------------
(* What always holds.                                                      *)

\* pfcli counts on beyond the last retry only on its way out, and asks for blocks
\* only while requests are left.
Leaving ==
  /\ quitting => /\ interrupted
                 /\ host \in {"drain", "drained", "closed"} \/ (host = "answer" /\ sent \in {"ABORT", "GET_VERSION"})
  /\ interrupted => trouble > 0
  /\ sent # "none" <=> host = "answer"
  /\ host = "data" \/ sent = "BLOCK_READ" => left > 0
  /\ retries > MaxRetries => \/ host = "closed"
                             \/ interrupted /\ (host = "loop" \/ quitting)

\* The types beside those of the pipeline.
LoopTypes ==
  /\ stream_state \in {"IDLE", "BLOCK_READ", "EXT_CSD_READ", "ABORTING"}
  /\ abort_status \in {"IDLE", "BUSY", "DONE"}
  /\ abort_state \in {"POLL_CMD12", "POLL_RESET"}
  /\ ext_csd_status \in {"IDLE", "BUSY", "DONE", "ERROR"} /\ csd_left \in 0 .. Chunks
  /\ ext_csd_state \in {"IDLE", "READ_DATA", "CMD_POLL", "BUF_READY_POLL", "XFER_POLL"}
  /\ abort_due \in BOOLEAN /\ stop \in BOOLEAN /\ sw_reset \in BOOLEAN
  /\ held \in {"nothing", "send", "data", "answer"}
  /\ commands \in Seq(Commands) /\ Len(commands) <= 2
  /\ answer \in Commands \cup {"none"}

\* The types of pfcli's variables, with those of the bounds.
HostTypes ==
  /\ sent \in Commands \cup {"none"}
  /\ host \in {"start", "csd", "no_count", "loop", "answer", "data", "failed", "drain", "drained", "retry", "closed"}
  /\ left \in 0 .. MaxLeft /\ retries \in 0 .. MaxRetries + 1
  /\ interrupted \in BOOLEAN /\ quitting \in BOOLEAN /\ trouble \in 0 .. MaxTrouble /\ calm \in 0 .. 2

\* All of them, with the inductive invariant of the pipeline.
TypeInv == PipeInv /\ LoopTypes /\ HostTypes /\ Leaving

\* The states of mmc_read_ext_csd_task that poll the controller.
LEMMA CsdStates == CsdPolls <=> ext_csd_state \in {"CMD_POLL", "BUF_READY_POLL", "XFER_POLL"}
  BY DEF CsdPolls, CsdAwaited

\* The invariant of the types implies the type invariant.
LEMMA TypeInvType == TypeInv => SessionTypeOK
  BY DEF TypeInv, PipeInv, PipeTypeOK, LoopTypes, HostTypes, SessionTypeOK, CsdAwaited

\* What is assumed of the constants.
LEMMA SessionBounds ==
  /\ Count \in 1 .. MaxCount /\ 0 \in Lbas
  /\ MaxLeft \in Nat /\ MaxRetries \in Nat /\ MaxTrouble \in Nat
  BY SessionAssumption

\* The steps that are the pipeline's own.
LEMMA PipeSteps ==
  ASSUME Read \/ (Stream /\ StreamTask) \/ Dma \/ Controller \/ ControllerFails \/ ReadData
  PROVE  PipeStep
  BY DEF Read, Dma, Controller, ControllerFails, ReadData, PipeStep

\* Every step keeps the types of pfcli.
LEMMA HostTypesKept == ASSUME TypeInv, SessionNext PROVE HostTypes'
<1> USE SessionBounds DEF TypeInv, HostTypes, Commands
<1>c. calm' \in 0 .. 2
  BY DEF SessionNext, Calm
<1>0. CASE UNCHANGED <<pfVars, trouble>>
  BY <1>0, <1>c DEF pfVars
<1>1. CASE DeviceLoop \/ Dma \/ Controller \/ Cmd12Done \/ SwResetDone
  <2>1. UNCHANGED <<pfVars, trouble>>
    BY <1>1 DEF DeviceLoop, CmdTask, Poll, CmdRead, CmdReadExtCsd, CmdAbort, AbortStart, CmdGet,
         Read, Stream, SendData, DataSent, Sending, AbortTask, AbortWait, AbortReset, AbortDone, AbortTurn,
         Dma, Controller, Cmd12Done, SwResetDone, TaskUnchanged, Beside
  <2> QED
    BY <2>1, <1>0
<1>2. CASE ControllerFails \/ Interrupt
  <2>1. trouble' \in 0 .. MaxTrouble
    BY <1>2 DEF ControllerFails, Interrupt
  <2> QED
    BY <1>2, <1>c, <2>1 DEF ControllerFails, Interrupt, Beside, pfVars
<1>3. CASE SendExtCsd \/ SendRead \/ SendAbort \/ SendStatus \/ SendVersion
  BY <1>3, <1>c DEF SendExtCsd, SendRead, SendAbort, SendStatus, SendVersion, Send, KeepPlace
<1>4. CASE TakeAnswer \/ AnswerTimeout
  BY <1>4, <1>c DEF TakeAnswer, AnswerTimeout, Pfcli, After, KeepPlace
<1>5. CASE ReadCsd \/ ReadData \/ Drain
  BY <1>5, <1>0 DEF ReadCsd, ReadData, Drain
<1>6. CASE CsdComplete \/ CsdTimeout \/ NoCount \/ DataTimeout \/ DrainTimeout
  BY <1>6, <1>c DEF CsdComplete, CsdTimeout, NoCount, DataTimeout, DrainTimeout, Pfcli
<1>7. CASE DataComplete
  BY <1>7, <1>c DEF DataComplete, Pfcli, Leaving
<1>8. CASE Retry
  BY <1>8, <1>c DEF Retry, Pfcli, Leaving
<1> QED
  BY <1>1, <1>2, <1>3, <1>4, <1>5, <1>6, <1>7, <1>8 DEF SessionNext, Step, Host

\* Every step keeps what pfcli's flags say of where it is.
LEMMA LeavingKept == ASSUME TypeInv, SessionNext PROVE Leaving'
<1> USE SessionBounds DEF TypeInv, HostTypes, Leaving, Commands
<1>0. CASE UNCHANGED <<pfVars, trouble>>
  BY <1>0 DEF pfVars
<1>1. CASE DeviceLoop \/ Dma \/ Controller \/ Cmd12Done \/ SwResetDone
  <2>1. UNCHANGED <<pfVars, trouble>>
    BY <1>1 DEF DeviceLoop, CmdTask, Poll, CmdRead, CmdReadExtCsd, CmdAbort, AbortStart, CmdGet,
         Read, Stream, SendData, DataSent, Sending, AbortTask, AbortWait, AbortReset, AbortDone, AbortTurn,
         Dma, Controller, Cmd12Done, SwResetDone, TaskUnchanged, Beside
  <2> QED
    BY <2>1, <1>0
<1>2. CASE ControllerFails \/ Interrupt
  BY <1>2 DEF ControllerFails, Interrupt, Beside, pfVars
<1>3. CASE SendExtCsd \/ SendRead \/ SendAbort \/ SendStatus \/ SendVersion
  BY <1>3 DEF SendExtCsd, SendRead, SendAbort, SendStatus, SendVersion, Send, KeepPlace
<1>4. CASE TakeAnswer \/ AnswerTimeout
  BY <1>4 DEF TakeAnswer, AnswerTimeout, Pfcli, After, KeepPlace
<1>5. CASE ReadCsd \/ ReadData \/ Drain
  BY <1>5, <1>0 DEF ReadCsd, ReadData, Drain
<1>6. CASE CsdComplete \/ CsdTimeout \/ NoCount \/ DataTimeout \/ DrainTimeout
  BY <1>6 DEF CsdComplete, CsdTimeout, NoCount, DataTimeout, DrainTimeout, Pfcli
<1>7. CASE DataComplete
  BY <1>7 DEF DataComplete, Pfcli
<1>8. CASE Retry
  BY <1>8 DEF Retry, Pfcli
<1> QED
  BY <1>1, <1>2, <1>3, <1>4, <1>5, <1>6, <1>7, <1>8 DEF SessionNext, Step, Host

\* Every step keeps the types of the main loop, the abort and the EXT_CSD read.
LEMMA LoopTypesKept == ASSUME TypeInv, SessionNext PROVE LoopTypes'
<1> USE SessionBounds, Bounds DEF TypeInv, LoopTypes
<1>0. CASE UNCHANGED <<stream_state, abort_due, abortVars, csdVars, cmdVars>>
  BY <1>0 DEF abortVars, csdVars, cmdVars
<1>1. CASE CmdTask
  <2>1. CASE Poll
    BY <2>1, <1>0 DEF Poll, NoCommand, streamVars
  <2>2. ASSUME NEW c \in Commands, Received(c)
        PROVE  commands' \in Seq(Commands) /\ Len(commands') <= 2
    BY <2>2 DEF Received
  <2>3. CASE CmdRead \/ CmdReadExtCsd
    BY <2>3, <2>2 DEF CmdRead, CmdReadExtCsd, Respond, TaskUnchanged, abortVars, csdVars, Commands
  <2>4. CASE CmdAbort \/ \E c \in {"GET_VERSION", "GET_STATUS"} : CmdGet(c)
    BY <2>4, <2>2 DEF CmdAbort, CmdGet, Respond, TaskUnchanged, abortVars, csdVars, Commands
  <2>5. CASE AbortStart
    BY <2>5 DEF AbortStart, Respond, TaskUnchanged, csdVars, Commands
  <2> QED
    BY <1>1, <2>1, <2>3, <2>4, <2>5 DEF CmdTask
<1>2. CASE Read
  <2>1. UNCHANGED stream_state
    BY <1>2 DEF Read, ReadTask, ReadSkip, ReadAllIssued, ReadSendCmd, ReadNoBuf, ReadError,
                ReadWait, ReadCmdComplete, ReadBulk, ReadAdvance, Reading, streamVars
  <2> QED
    BY <1>2, <2>1, <1>0 DEF Read
<1>3. CASE Stream
  <2>1. CASE StreamPlain
    <3>1. stream_state' \in {"IDLE", "BLOCK_READ", "EXT_CSD_READ", "ABORTING"}
      BY <2>1 DEF StreamPlain, StreamTask, StreamIdle, StreamError, StreamWait, StreamSend,
                  StreamSendLast, FinishStream, StreamAborting, streamVars
    <3> QED
      BY <1>3, <2>1, <3>1 DEF Stream, StreamPlain, abortVars, csdVars
  <2>2. CASE CsdError \/ CsdWait \/ CsdReadData
    BY <1>3, <2>2 DEF Stream, CsdError, CsdWait, CsdReadData, abortVars, csdVars
  <2>3. CASE CsdNext \/ CsdDone
    BY <1>3, <2>3 DEF Stream, CsdNext, CsdDone, CsdPolled, abortVars
  <2> QED
    BY <1>3, <2>1, <2>2, <2>3 DEF Stream
<1>4. CASE SendData \/ DataSent
  BY <1>4 DEF SendData, DataSent, Sending, abortVars
<1>5. CASE AbortTask
  BY <1>5 DEF AbortTask, AbortTurn, AbortWait, AbortReset, AbortDone, abortVars, csdVars, cmdVars,
              streamVars
<1>6. CASE Dma \/ Controller \/ ControllerFails
  BY <1>6, <1>0 DEF Dma, DmaDone, Controller, ControllerFails, CtlResponse, CtlBufReady, CtlComplete,
              CtlError, CtlStep, Beside, streamVars
<1>7. CASE Cmd12Done \/ SwResetDone
  BY <1>7 DEF Cmd12Done, SwResetDone, Beside, streamVars, csdVars, cmdVars
<1>8. CASE SendExtCsd \/ SendRead \/ SendAbort \/ SendStatus \/ SendVersion
  <2>1. PICK c \in Commands : Send(c)
    BY <1>8 DEF SendExtCsd, SendRead, SendAbort, SendStatus, SendVersion, Commands
  <2>2. commands' \in Seq(Commands) /\ Len(commands') <= 2
    BY <2>1 DEF Send
  <2> QED
    BY <2>1, <2>2 DEF Send, DeviceUnchanged, streamVars, abortVars, csdVars
<1>9. CASE TakeAnswer
  BY <1>9 DEF TakeAnswer, DeviceUnchanged, streamVars, abortVars, csdVars
<1>10. CASE \/ AnswerTimeout \/ ReadCsd \/ CsdComplete \/ CsdTimeout \/ NoCount \/ ReadData
            \/ DataComplete \/ DataTimeout \/ Drain \/ DrainTimeout \/ Retry \/ Interrupt
  BY <1>10, <1>0 DEF AnswerTimeout, ReadCsd, CsdComplete, CsdTimeout, NoCount, ReadData, HostRead,
            DataComplete, DataTimeout, Drain, DrainTimeout, Retry, Interrupt, Pfcli, DeviceUnchanged,
            streamVars
<1> QED
  BY <1>1, <1>2, <1>3, <1>4, <1>5, <1>6, <1>7, <1>8, <1>9, <1>10
  DEF SessionNext, Step, DeviceLoop, Host

\* A step beside the pipeline may end a read, but touches no buffer and no counter.
Beyond ==
  /\ UNCHANGED <<mmc_cur_lba, mmc_blocks_total, mmc_blocks_issued, mmc_blocks_completed,
                 mmc_blocks_consumed, mmc_active_buf, mmc_buf_state, buf_blocks, buf_sent,
                 read_state, read_buf, usb_block, usb_sent, dma>>
  /\ mmc_bio_status' \in {mmc_bio_status, "IDLE"}
  /\ task' \in {"cmd", "read", "stream"}
  /\ int_status' \subseteq IntBits /\ argument' \in Nat
  /\ ctl' \in {"command", "access", "data", "drained", "idle"}
  /\ tx' \in Seq(Packets) /\ Len(tx') <= TxSlots
  /\ delivered' \in Seq(Packets)

\* So it keeps the pipeline's invariant.
LEMMA BeyondKeeps == ASSUME PipeInv, Beyond PROVE PipeInv'
<1>1. Books'
  <2>1. Advancing
    BY DEF Beyond, Advancing, Polled, bufVars
  <2> QED
    BY <2>1, AdvancingKeeps DEF PipeInv
<1> QED
  BY <1>1 DEF PipeInv, PipeTypeOK, Beyond, BufferTypeOK, ReadTypeOK, SpiTypeOK

\* Every step is the pipeline's own, starts a read, or lies beyond it.
LEMMA PipeInvKept == ASSUME TypeInv, SessionNext PROVE PipeInv'
<1> USE DEF TypeInv
<1>1. CASE Read \/ (Stream /\ StreamTask) \/ Dma \/ Controller \/ ControllerFails \/ ReadData
  BY <1>1, PipeSteps, PipeKept
<1>2. CASE CmdRead
  <2>1. StartRead(0, Count)
    BY <1>2 DEF CmdRead
  <2> QED
    BY <1>2, <2>1, SessionBounds, StartReadTypes
       DEF CmdRead, Respond, hostVars, PipeInv, PipeTypeOK
<1>t. /\ task \in {"cmd", "read", "stream"}
      /\ int_status \subseteq IntBits /\ argument \in Nat
      /\ ctl \in {"command", "access", "data", "drained", "idle"}
      /\ tx \in Seq(Packets) /\ Len(tx) <= TxSlots /\ delivered \in Seq(Packets)
  BY DEF PipeInv, PipeTypeOK, ReadTypeOK, SpiTypeOK
<1>3. CASE \/ CmdReadExtCsd \/ CmdAbort \/ AbortStart \/ \E c \in {"GET_VERSION", "GET_STATUS"} : CmdGet(c)
  BY <1>3, <1>t, BeyondKeeps
     DEF CmdReadExtCsd, CmdAbort, AbortStart, CmdGet, Respond, TaskUnchanged, Beyond, readVars,
         ctlVars, hostVars
<1>4. CASE Stream /\ ~StreamTask
  BY <1>4, <1>t, BeyondKeeps
     DEF Stream, StreamPlain, StreamAborting, CsdError, CsdWait, CsdNext, CsdReadData, CsdDone,
         CsdTurn, CsdPolled, StreamTurn, Beyond, readVars, ctlVars, hostVars
<1>5. CASE SendData
  <2>1. Chunks - csd_left \in 0 .. Chunks - 1
    BY <1>5, Bounds DEF SendData, LoopTypes
  <2>2. tx' \in Seq(Packets) /\ Len(tx') <= TxSlots
    BY <1>5, <1>t, <2>1 DEF SendData, Packets, TxSlots
  <2> QED
    BY <1>5, <1>t, <2>2, BeyondKeeps DEF SendData, Sending, Beyond, readVars, ctlVars
<1>6. CASE AbortTask
  BY <1>6, <1>t, BeyondKeeps
     DEF AbortTask, AbortTurn, AbortWait, AbortReset, AbortDone, Beyond, streamVars, hostVars
<1>7. CASE Cmd12Done \/ SwResetDone \/ Poll \/ DataSent
  BY <1>7, <1>t, BeyondKeeps
     DEF Cmd12Done, SwResetDone, Poll, NoCommand, DataSent, Sending, Beyond, readVars, streamVars,
         ctlVars, hostVars, IntBits
<1>8. CASE SendExtCsd \/ SendRead \/ SendAbort \/ SendStatus \/ SendVersion
  BY <1>8, <1>t, BeyondKeeps
     DEF SendExtCsd, SendRead, SendAbort, SendStatus, SendVersion, Send, DeviceUnchanged, Beyond,
         readVars, streamVars, ctlVars, hostVars
<1>9. CASE ReadCsd \/ Drain
  <2>1. tx' \in Seq(Packets) /\ Len(tx') <= TxSlots /\ delivered' \in Seq(Packets)
    <3>1. CASE ReadCsd
      <4>1. Head(tx) \in Packets /\ Tail(tx) \in Seq(Packets) /\ Len(Tail(tx)) <= TxSlots
        BY <3>1, <1>t DEF ReadCsd, TxSlots
      <4> QED
        BY <3>1, <1>t, <4>1 DEF ReadCsd
    <3>2. CASE Drain
      BY <3>2, <1>t DEF Drain, TxSlots
    <3> QED
      BY <1>9, <3>1, <3>2
  <2> QED
    BY <1>9, <1>t, <2>1, BeyondKeeps DEF ReadCsd, Drain, DeviceUnchanged, Beyond, readVars, streamVars, ctlVars
<1>11. CASE TakeAnswer
  <2>1. delivered' \in Seq(Packets)
    BY <1>11, <1>t DEF TakeAnswer
  <2> QED
    BY <1>11, <2>1, <1>t, BeyondKeeps
       DEF TakeAnswer, DeviceUnchanged, Beyond, readVars, streamVars, ctlVars
<1>10. CASE \/ AnswerTimeout \/ CsdComplete \/ CsdTimeout \/ NoCount
            \/ DataComplete \/ DataTimeout \/ DrainTimeout \/ Retry \/ Interrupt
  BY <1>10, <1>t, BeyondKeeps
     DEF AnswerTimeout, CsdComplete, CsdTimeout, NoCount, DataComplete, DataTimeout,
         DrainTimeout, Retry, Interrupt, Pfcli, DeviceUnchanged, Beyond, readVars, streamVars,
         ctlVars, hostVars
<1> QED
  BY <1>1, <1>2, <1>3, <1>4, <1>5, <1>6, <1>7, <1>8, <1>9, <1>10, <1>11
     DEF SessionNext, Step, DeviceLoop, CmdTask, Host, Stream

\* A stutter keeps all types.
LEMMA StutterKeepsTypes == ASSUME TypeInv, UNCHANGED sessionVars PROVE TypeInv'
<1> USE DEF sessionVars, work, TypeInv
<1>1. Beyond
  BY DEF Beyond, PipeInv, PipeTypeOK, ReadTypeOK, SpiTypeOK, readVars, streamVars, ctlVars, hostVars
<1>2. PipeInv'
  BY <1>1, BeyondKeeps
<1>3. LoopTypes' /\ HostTypes' /\ Leaving'
  BY DEF LoopTypes, HostTypes, Leaving, streamVars, abortVars, csdVars, cmdVars, pfVars
<1> QED
  BY <1>2, <1>3

\* At the start all types are right.
LEMMA InitTypes == ASSUME SessionInit PROVE TypeInv
<1> USE SessionBounds, Bounds DEF SessionInit
<1>1. PipeInv
  BY InitIInv, IInvPipe
<1>b. abort_due \in BOOLEAN /\ stop \in BOOLEAN /\ sw_reset \in BOOLEAN
  BY Zenon
<1>c. interrupted \in BOOLEAN /\ quitting \in BOOLEAN
  BY Zenon
<1>2. LoopTypes
  BY <1>b DEF Init, LoopTypes
<1>3. HostTypes /\ Leaving
  BY <1>c DEF HostTypes, Leaving
<1> QED
  BY <1>1, <1>2, <1>3 DEF TypeInv

\* The types, with the pipeline's invariant, are inductive.
LEMMA TypeInvKept == TypeInv /\ [SessionNext]_sessionVars => TypeInv'
  BY StutterKeepsTypes, PipeInvKept, LoopTypesKept, HostTypesKept, LeavingKept DEF TypeInv

\* Every variable keeps to its range, the counters and buffers of read.c through all
\* aborts, retries and cleanups.
THEOREM SessionTypeCorrect == SessionSpec => []SessionTypeOK
BY InitTypes, TypeInvKept, TypeInvType, PTL DEF SessionSpec


-----------------------------------------------------------------------------
(* When nothing changes any more.                                          *)

\* mmc_abort_task runs after the last of the other tasks.
LoopInv == /\ abort_due => task = "cmd"
           /\ held = "data" => task = "cmd" /\ ~abort_due
           /\ held = "answer" => task = "read" /\ ~abort_due
           /\ held = "send" => abort_due

\* mmc_read_task finds nothing to do.
ReadStuck ==
  mmc_bio_status = "BUSY" =>
    IF mmc_blocks_issued >= mmc_blocks_total THEN mmc_blocks_consumed < mmc_blocks_total
    ELSE /\ read_state = "FIND_BUF" => \A b \in Bufs : mmc_buf_state[b] # "FREE"
         /\ read_state = "READ_BULK_WAIT" => dma # NoBuf
         /\ read_state \in PollingUnchecked \ {"READ_BULK_WAIT"} =>
              "ERROR" \notin int_status /\ Awaited \notin int_status

\* Nor does stream_task, with an empty endpoint.
StreamStuck ==
  /\ stream_state = "BLOCK_READ" /\ tx = << >> =>
       /\ mmc_bio_status \notin {"ERROR", "DONE"}
       /\ Block = NoBlock
  /\ stream_state = "ABORTING" => abort_status = "BUSY"
  /\ stream_state = "EXT_CSD_READ" =>
       /\ ext_csd_state # "READ_DATA"
       /\ CsdPolls => int_status \cap {"ERROR", CsdAwaited[ext_csd_state]} = {}

\* Nor mmc_abort_task.
AbortStuck ==
  abort_status = "BUSY" => IF abort_state = "POLL_CMD12" THEN ~Cmd12Over ELSE sw_reset

\* What a turn that changed nothing has found stays so while nothing changes.
CalmInv ==
  /\ held # "nothing" \/ commands # << >> => calm = 0
  /\ calm = 2 \/ (calm = 1 /\ task # "read") => ReadStuck
  /\ calm = 2 \/ (calm = 1 /\ task = "cmd") => StreamStuck
  /\ calm = 2 \/ (calm = 1 /\ task = "cmd" /\ ~abort_due) => AbortStuck

\* A turn of mmc_read_task that changes nothing has found nothing to do.
LEMMA ReadIdle == ASSUME TypeInv, Read, work' = work PROVE ReadStuck
<1> USE DEF work, readVars
<1>1. CASE ReadSkip
  BY <1>1 DEF ReadSkip, ReadStuck
<1>2. CASE ReadAllIssued
  BY <1>2, PipeTypes DEF ReadAllIssued, ReadStuck, TypeInv
<1>3. CASE ReadNoBuf
  BY <1>3, PipeTypes DEF ReadNoBuf, Reading, ReadStuck, TypeInv, PollingUnchecked
<1>4. CASE ReadWait
  BY <1>4, PipeTypes DEF ReadWait, Reading, Polling, AfterPoll, Failed, ReadStuck, TypeInv
<1>5. CASE ReadSendCmd \/ ReadError \/ ReadCmdComplete \/ ReadBulk \/ ReadAdvance
  BY <1>5 DEF ReadSendCmd, ReadError, ReadCmdComplete, ReadBulk, ReadAdvance, Reading, Polling
<1> QED
  BY <1>1, <1>2, <1>3, <1>4, <1>5 DEF Read, ReadTask

\* So has one of stream_task.
LEMMA StreamIdles == ASSUME TypeInv, Stream, work' = work PROVE StreamStuck
<1> USE DEF work, streamVars, hostVars, StreamStuck
<1>1. CASE StreamIdle
  BY <1>1 DEF StreamIdle
<1>2. CASE StreamError
  BY <1>2 DEF StreamError
<1>3. CASE StreamWait
  <2>1. stream_state = "BLOCK_READ" /\ mmc_bio_status # "ERROR"
    BY <1>3 DEF StreamWait, Streaming, StreamFailed
  <2>2. tx = << >> => Block = NoBlock
    BY <1>3 DEF StreamWait, TxSlots
  <2>3. Block = NoBlock => mmc_bio_status # "DONE"
    BY <1>3, <2>1 DEF StreamWait, FinishStream
  <2> QED
    BY <2>1, <2>2, <2>3
<1>4. CASE StreamSend \/ StreamSendLast
  <2>1. tx \in Seq(Packets) /\ tx' = Append(tx, Packet(Block, Sent))
    BY <1>4 DEF StreamSend, StreamSendLast, TypeInv, PipeInv, PipeTypeOK
  <2>2. Len(tx') = Len(tx) + 1
    BY <2>1
  <2> QED
    BY <2>1, <2>2
<1>5. CASE StreamAborting
  BY <1>5 DEF StreamAborting
<1>6. CASE CsdWait
  BY <1>6 DEF CsdWait, CsdTurn, CsdPolls, CsdAwaited
<1>7. CASE CsdError \/ CsdNext \/ CsdReadData \/ CsdDone
  BY <1>7 DEF CsdError, CsdNext, CsdReadData, CsdDone, CsdPolled, CsdTurn, CsdPolls, csdVars, ctlVars, CsdAwaited
<1> QED
  BY <1>1, <1>2, <1>3, <1>4, <1>5, <1>6, <1>7 DEF Stream, StreamPlain, StreamTask

\* And one of mmc_abort_task.
LEMMA AbortIdle == ASSUME TypeInv, AbortTask, work' = work PROVE AbortStuck
<1> USE DEF work, readVars, ctlVars, abortVars, AbortStuck, TypeInv, LoopTypes
<1>1. CASE AbortWait
  BY <1>1 DEF AbortWait
<1>2. CASE AbortReset
  BY <1>2 DEF AbortReset
<1>3. CASE AbortDone
  BY <1>3 DEF AbortDone
<1> QED
  BY <1>1, <1>2, <1>3 DEF AbortTask

\* A packet read is gone.
LEMMA TailShorter == ASSUME NEW S, NEW s \in Seq(S), s # << >> PROVE Tail(s) # s
<1> DEFINE n == Len(s)
           m == Len(Tail(s))
<1>1. n \in Nat /\ m = n - 1
  OBVIOUS
<1>2. m # n
  <2> HIDE DEF n, m
  <2> QED
    BY <1>1
<1> QED
  BY <1>2

\* Every other step but an empty turn of cmd_task changes something.
LEMMA OthersChange ==
  ASSUME TypeInv, Step, ~Poll, ~Read, ~Stream, ~AbortTask PROVE work' # work
<1> SUFFICES ASSUME work' = work PROVE FALSE
  OBVIOUS
<1> USE DEF work, readVars, streamVars, ctlVars, hostVars, abortVars, csdVars, cmdVars, pfVars
<1>t. /\ tx \in Seq(Packets) /\ delivered \in Seq(Packets) /\ commands \in Seq(Commands)
      /\ retries \in Nat /\ trouble \in Nat /\ csd_left \in Nat /\ sent \in Commands \cup {"none"}
  BY SessionBounds, Bounds DEF TypeInv, PipeInv, PipeTypeOK, LoopTypes, HostTypes
<1>1. CASE CmdTask
  <2>1. ASSUME NEW c \in Commands, Received(c) PROVE FALSE
    BY <2>1, <1>t DEF Received
  <2>2. CASE AbortStart
    BY <2>2 DEF AbortStart, Respond
  <2> QED
    BY <1>1, <2>1, <2>2 DEF CmdTask, CmdRead, CmdReadExtCsd, CmdAbort, CmdGet, Commands
<1>2. CASE SendData \/ DataSent
  BY <1>2, <1>t DEF SendData, DataSent, Sending
<1>3. CASE Dma \/ Controller \/ ControllerFails
  BY <1>3, <1>t DEF Dma, DmaDone, Controller, ControllerFails, CtlResponse, CtlBufReady, CtlComplete, CtlStep
<1>4. CASE Cmd12Done \/ SwResetDone \/ Interrupt
  BY <1>4, <1>t DEF Cmd12Done, SwResetDone, Interrupt
<1>5. CASE SendExtCsd \/ SendRead \/ SendAbort \/ SendStatus \/ SendVersion
  <2>1. PICK c \in Commands : Send(c)
    BY <1>5 DEF SendExtCsd, SendRead, SendAbort, SendStatus, SendVersion, Commands
  <2>2. Len(commands') = Len(commands) + 1
    BY <2>1, <1>t DEF Send
  <2> QED
    BY <2>2, <1>t
<1>6. CASE TakeAnswer \/ AnswerTimeout
  BY <1>6 DEF TakeAnswer, AnswerTimeout, Pfcli, After
<1>7. CASE ReadCsd \/ ReadData \/ Drain
  <2>1. tx # << >> /\ tx' = Tail(tx)
    BY <1>7 DEF ReadCsd, ReadData, HostRead, Drain
  <2> QED
    BY <2>1, <1>t, TailShorter
<1>8. CASE \/ CsdComplete \/ CsdTimeout \/ NoCount \/ DataComplete \/ DataTimeout
           \/ DrainTimeout \/ Retry
  BY <1>8, <1>t DEF CsdComplete, CsdTimeout, NoCount, DataComplete, DataTimeout, DrainTimeout, Retry, Pfcli
<1> QED
  BY <1>1, <1>2, <1>3, <1>4, <1>5, <1>6, <1>7, <1>8 DEF Step, DeviceLoop, Host

\* Every step keeps the order of the tasks in a turn.
LEMMA LoopInvKept == ASSUME TypeInv, LoopInv, SessionNext PROVE LoopInv'
<1> USE DEF LoopInv
<1>1. CASE UNCHANGED <<task, abort_due, held>>
  BY <1>1
<1>2. CASE CmdTask
  BY <1>2 DEF CmdTask, Poll, NoCommand, CmdRead, CmdReadExtCsd, CmdAbort, AbortStart, CmdGet, Received,
              Free, Respond, TaskUnchanged, cmdVars
<1>3. CASE Read
  BY <1>3 DEF Read, Free, cmdVars
<1>4. CASE Stream
  BY <1>4 DEF Stream, StreamPlain, StreamTask, StreamIdle, StreamError, StreamWait, StreamSend,
              StreamSendLast, Streaming, StreamAborting, StreamTurn, CsdError, CsdWait, CsdNext,
              CsdReadData, CsdDone, CsdPolled, CsdTurn, Free
<1>5. CASE SendData \/ DataSent
  BY <1>5 DEF SendData, DataSent, Sending
<1>6. CASE AbortTask
  BY <1>6 DEF AbortTask, AbortWait, AbortReset, AbortDone, AbortTurn, cmdVars
<1>7. CASE Dma \/ Controller \/ ControllerFails \/ Cmd12Done \/ SwResetDone
  BY <1>7, <1>1 DEF Dma, DmaDone, Controller, ControllerFails, CtlResponse, CtlBufReady, CtlComplete,
              CtlError, CtlStep, Cmd12Done, SwResetDone, Beside, cmdVars
<1>8. CASE Interrupt \/ (Host /\ ~TakeAnswer)
  BY <1>8, <1>1 DEF Host, SendExtCsd, SendRead, SendAbort, SendStatus, SendVersion, Send, AnswerTimeout,
              ReadCsd, CsdComplete, CsdTimeout, NoCount, ReadData, HostRead, DataComplete, DataTimeout,
              Drain, DrainTimeout, Retry, Interrupt, Pfcli, DeviceUnchanged, cmdVars
<1>9. CASE TakeAnswer
  BY <1>9 DEF TakeAnswer, DeviceUnchanged
<1> QED
  BY <1>2, <1>3, <1>4, <1>5, <1>6, <1>7, <1>8, <1>9 DEF SessionNext, Step, DeviceLoop

\* Every step keeps what the count of calm turns says.
LEMMA CalmInvKept == ASSUME TypeInv, LoopInv, CalmInv, SessionNext PROVE CalmInv'
<1>c. calm \in 0 .. 2
  BY DEF TypeInv, HostTypes
<1>1. CASE work' # work
  BY <1>1 DEF SessionNext, Calm, CalmInv
<1>2. CASE work' = work
  <2>1. /\ ReadStuck' <=> ReadStuck
        /\ StreamStuck' <=> StreamStuck
        /\ AbortStuck' <=> AbortStuck
    BY <1>2 DEF work, readVars, streamVars, ctlVars, hostVars, abortVars, csdVars, ReadStuck, Awaited,
                StreamStuck, Block, GetBuf, FirstPending, Pending, CsdPolls, AbortStuck, Cmd12Over
  <2>2. UNCHANGED <<held, commands>>
    BY <1>2 DEF work, cmdVars
  <2>3. calm' = IF Free("cmd") /\ calm < 2 THEN calm + 1 ELSE calm
    BY <1>2 DEF SessionNext, Calm
  <2>4. CASE Poll
    BY <2>1, <2>2, <2>3, <2>4, <1>c DEF Poll, Free, NoCommand, CalmInv
  <2>5. CASE Read
    <3>1. ReadStuck
      BY <2>5, <1>2, ReadIdle
    <3>2. /\ task = "read" /\ task' = "stream" /\ abort_due' = abort_due
      BY <2>5 DEF Read, Free, ReadTask, ReadSkip, ReadAllIssued, ReadSendCmd, ReadNoBuf, ReadError,
                ReadWait, ReadCmdComplete, ReadBulk, ReadAdvance, Reading
    <3> QED
      BY <2>1, <2>2, <2>3, <3>1, <3>2, <1>c DEF CalmInv, Free
  <2>6. CASE Stream
    <3>1. StreamStuck
      BY <2>6, <1>2, StreamIdles
    <3>2. /\ task = "stream" /\ abort_due' = TRUE
      BY <2>6 DEF Stream, Free
    <3> QED
      BY <2>1, <2>2, <2>3, <3>1, <3>2, <1>c DEF CalmInv, Free
  <2>7. CASE AbortTask
    <3>1. AbortStuck
      BY <2>7, <1>2, AbortIdle
    <3>2. abort_due /\ task = "cmd" /\ task' = task
      BY <2>7 DEF AbortTask, AbortWait, AbortReset, AbortDone, AbortTurn, LoopInv
    <3> QED
      BY <2>1, <2>2, <2>3, <3>1, <3>2, <1>c DEF CalmInv, Free
  <2> QED
    BY <1>2, <2>4, <2>5, <2>6, <2>7, OthersChange DEF SessionNext
<1> QED
  BY <1>1, <1>2

-----------------------------------------------------------------------------
(* As long as no more than one thing has gone wrong.                       *)

\* An error that has not been recovered from.
Failing == \/ mmc_bio_status = "ERROR"
           \/ "ERROR" \in int_status /\ abort_status # "BUSY"

\* No request has been retried after an error.
Fresh == trouble = 0 \/ interrupted \/ Failing

\* Where pf_cmd is with command c.
AnswerTo(c) == host = "answer" /\ sent = c
Asking(c) == AnswerTo(c) /\ answer = "none"
Answered(c) == AnswerTo(c) /\ answer = c

\* The two buffers of read.c.
BuffersFree == \A b \in Bufs : mmc_buf_state[b] = "FREE"
NothingReady == \A b \in Bufs : mmc_buf_state[b] # "READY_FOR_USB"

\* The commands and answers of one pf_cmd at a time.
Pairing ==
  /\ held = "answer" <=> answer # "none"
  /\ host # "answer" => commands = << >> /\ answer = "none"
  /\ host = "answer" => /\ answer \in {"none", sent}
                        /\ commands = IF answer = "none" /\ held # "data" THEN <<sent>> ELSE << >>
  /\ held = "data" => Asking("ABORT")

\* Before the first request.
Early == host \in {"start", "csd", "no_count"} \/ AnswerTo("READ_EXT_CSD")
\* And before the EXT_CSD has been asked for.
Unread == host = "start" \/ Asking("READ_EXT_CSD")

\* Until then the pipeline and the endpoints are unused.
EarlyInv ==
  /\ Early => /\ mmc_bio_status = "IDLE" /\ dma = NoBuf /\ usb_block = NoBlock /\ usb_sent = 0
              /\ NothingReady /\ abort_status # "BUSY"
              /\ stream_state \in {"IDLE", "EXT_CSD_READ"}
  /\ Unread => /\ stream_state = "IDLE" /\ ctl = "idle" /\ int_status = {} /\ tx = << >>
               /\ delivered = << >> /\ held # "send" /\ csd_left = 0

\* The EXT_CSD, read and then sent.
CsdActive == stream_state = "EXT_CSD_READ" /\ held # "send"

\* It is read and sent while pfcli waits, or has given up on an error.
CsdInv ==
  /\ stream_state = "EXT_CSD_READ" =>
       \/ Answered("READ_EXT_CSD") /\ ext_csd_status = "BUSY"
       \/ host = "csd"
       \/ (held = "send" /\ (host = "loop" \/ (host = "answer" /\ answer = "none" /\ sent \in {"BLOCK_READ", "ABORT"})))
  /\ held = "send" => /\ stream_state = "EXT_CSD_READ" /\ ext_csd_status = "DONE" /\ mmc_bio_status = "IDLE"
                      /\ usb_block = NoBlock /\ usb_sent = 0
                      /\ host # "csd" => csd_left = 0 /\ tx = << >>
  /\ Answered("READ_EXT_CSD") => CsdActive
  /\ CsdActive => /\ ext_csd_status = "BUSY" /\ ext_csd_state # "IDLE" /\ tx = << >> /\ csd_left = 0
                  /\ host = "csd" => delivered = << >>
  /\ host = "no_count" \/ (host = "csd" /\ ext_csd_status = "ERROR") => trouble = 1 /\ ~interrupted

\* None of its packets is lost.
CsdSentInv ==
  host = "csd" =>
       /\ ext_csd_status = "BUSY" => stream_state = "EXT_CSD_READ" /\ held = "nothing"
       /\ ext_csd_status = "DONE" => /\ Len(delivered) + Len(tx) + csd_left = Chunks
                                     /\ held # "send" => csd_left = 0 /\ tx = << >>
       /\ ext_csd_status # "IDLE"
       /\ ext_csd_status = "ERROR" => tx = << >> /\ delivered = << >>

\* What the read of a chunk, or of the EXT_CSD, still waits for will come.
CmdComing  == "CMD_COMPLETE" \in int_status \/ ctl = "command"
BufComing  == "BUF_READ_READY" \in int_status \/ ctl \in {"command", "access"}
XferComing == "XFER_COMPLETE" \in int_status \/ ctl # "idle"

\* The read task polls for what the controller has still to report, and waits for the DMA.
PollInv ==
  Polled =>
    /\ "XFER_COMPLETE" \in int_status => ctl = "idle"
    /\ "BUF_READ_READY" \in int_status => ctl \notin {"command", "access"}
    /\ abort_status # "BUSY" /\ "ERROR" \notin int_status =>
         /\ XferComing
         /\ read_state \in {"POLL_CMD_COMPLETE", "POLL_BUF_READY"} => BufComing
         /\ read_state = "POLL_CMD_COMPLETE" => CmdComing
    /\ read_state \in {"READ_BULK_WAIT", "POLL_XFER_COMPLETE"} =>
         ctl \notin {"command", "access"} /\ (ctl = "data" => dma # NoBuf)
    /\ read_state = "POLL_XFER_COMPLETE" => dma = NoBuf

\* So does mmc_read_ext_csd_task.
CsdPollInv ==
  CsdActive =>
    /\ "XFER_COMPLETE" \in int_status => ctl = "idle"
    /\ "BUF_READ_READY" \in int_status => ctl \notin {"command", "access"}
    /\ "ERROR" \notin int_status =>
         /\ XferComing
         /\ ext_csd_state \in {"CMD_POLL", "BUF_READY_POLL"} => BufComing
         /\ ext_csd_state = "CMD_POLL" => CmdComing
    /\ ext_csd_state \in {"READ_DATA", "XFER_POLL"} => ctl \notin {"command", "access"}
    /\ ext_csd_state = "XFER_POLL" => ctl # "data"

\* For whom the controller and the DMA work.
UserInv ==
  /\ "ERROR" \in int_status => ctl = "idle"
  /\ ctl # "idle" \/ dma # NoBuf =>
       \/ CsdActive
       \/ Polled
       \/ mmc_bio_status = "BUSY" /\ BuffersFree /\ read_state = "FIND_BUF"
  /\ Fresh /\ ctl # "idle" => CsdActive \/ Polled
  /\ Fresh /\ dma # NoBuf => Polled /\ read_state = "READ_BULK_WAIT"

\* The read and its stream.
ReadInv ==
  /\ mmc_bio_status = "BUSY" => /\ mmc_blocks_total = Count
                                /\ stream_state = "BLOCK_READ" \/ abort_status = "BUSY"
                                /\ read_state = "ADVANCE" <=> mmc_blocks_issued >= mmc_blocks_total
  /\ mmc_bio_status = "DONE" => mmc_blocks_consumed = mmc_blocks_total
  /\ stream_state = "BLOCK_READ" => mmc_bio_status # "IDLE" /\ abort_status # "BUSY"
  /\ host = "data" => /\ mmc_blocks_total = Count /\ stream_state \in {"BLOCK_READ", "IDLE"}
                      /\ abort_status # "BUSY"

\* Nothing is on its way.
Stalled ==
  /\ dma = NoBuf /\ ctl = "idle" /\ tx = << >>
  /\ mmc_bio_status = "BUSY" => mmc_blocks_issued >= mmc_blocks_total
  /\ stream_state = "BLOCK_READ" /\ mmc_bio_status # "ERROR" => usb_block = NoBlock /\ NothingReady
  /\ ~CsdActive

\* Nor left over.
Rest == /\ dma = NoBuf /\ ctl = "idle" /\ tx = << >> /\ int_status = {}
        /\ mmc_bio_status = "IDLE" /\ abort_status # "BUSY"
        /\ stream_state = "IDLE" \/ (host = "drain" /\ stream_state = "ABORTING")

\* An abort runs while pfcli reads its answer or drains the endpoint, and alone.
AbortInv ==
  /\ abort_status = "BUSY" =>
       /\ Stalled /\ stream_state = "ABORTING"
       /\ Answered("ABORT") \/ host = "drain"
       /\ IF abort_state = "POLL_CMD12" THEN (stop \/ Cmd12Over) /\ ~sw_reset ELSE ~stop
  /\ abort_status # "BUSY" => ~stop /\ ~sw_reset
  /\ stream_state = "ABORTING" => Answered("ABORT") \/ host = "drain"
  /\ Answered("ABORT") => abort_status = "BUSY"

\* When pfcli asks for an abort nothing moves any more, and after it nothing is left.
RestInv ==
  /\ host = "drain" /\ abort_status # "BUSY" => Rest
  /\ host \in {"drained", "retry"} \/ AnswerTo("GET_STATUS") \/ AnswerTo("GET_VERSION") => Rest
  /\ host = "failed" \/ Asking("ABORT") => Stalled /\ abort_status # "BUSY"
  /\ host \in {"loop", "data"} \/ AnswerTo("BLOCK_READ") => abort_status # "BUSY"

\* pfcli aborts and retries because of the one error, or cleans up after Ctrl-C.
WhyInv ==
  /\ \/ host \in {"failed", "retry"} \/ AnswerTo("GET_STATUS")
     \/ ~quitting /\ (host \in {"drain", "drained"} \/ AnswerTo("ABORT"))
     => trouble = 1 /\ ~interrupted
  /\ AnswerTo("GET_VERSION") => quitting
  /\ AnswerTo("BLOCK_READ") => ~quitting

\* An error not recovered from is the one thing that has gone wrong.
FailInv ==
  Failing => /\ trouble = 1 /\ ~interrupted
             /\ \/ host \in {"csd", "no_count", "closed", "data", "failed", "drain"}
                \/ AnswerTo("ABORT") \/ AnswerTo("READ_EXT_CSD")
             /\ host = "data" => mmc_blocks_issued < mmc_blocks_total
             /\ host = "csd" => ext_csd_status # "DONE"

\* A request that is no retry finds the pipeline empty.
FreshInv ==
  /\ Fresh /\ (host = "loop" \/ Asking("BLOCK_READ")) =>
       Stalled /\ usb_block = NoBlock /\ usb_sent = 0 /\ ~Failing
  /\ Answered("BLOCK_READ") =>
       /\ mmc_bio_status = "BUSY" /\ BuffersFree /\ read_state = "FIND_BUF" /\ mmc_blocks_consumed = 0
       /\ stream_state = "BLOCK_READ"
       /\ Fresh => usb_block = NoBlock /\ usb_sent = 0 /\ tx = << >>

\* And its packets are counted exactly.
DataInv ==
  Fresh /\ host = "data" =>
       /\ ExactLength
       /\ usb_block = NoBlock => usb_sent = 0
       /\ usb_block # NoBlock => ~NothingReady
       /\ stream_state = "IDLE" => mmc_bio_status \in {"DONE", "ERROR"}

\* All of it.
FirstParts == /\ Pairing /\ EarlyInv /\ CsdInv /\ CsdSentInv /\ PollInv /\ CsdPollInv /\ UserInv
              /\ ReadInv /\ AbortInv /\ RestInv /\ WhyInv /\ FailInv /\ FreshInv /\ DataInv
FirstInv == trouble <= 1 => FirstParts
-----------------------------------------------------------------------------
(* Where pfcli and the other tasks are when a step is taken.               *)

CommandTaken(c) == /\ host = "answer" /\ sent = c /\ answer = "none" /\ held = "nothing"
                   /\ commands' = << >>

\* cmd_task takes the command pfcli waits for the answer of.
LEMMA AtReceived == ASSUME FirstParts, NEW c, Received(c) PROVE CommandTaken(c)
<1>1. /\ host # "answer" => commands = << >>
      /\ host = "answer" => commands = IF answer = "none" /\ held # "data" THEN <<sent>> ELSE << >>
  BY DEF FirstParts, Pairing
<1>2. /\ commands # << >> /\ Head(commands) = c /\ commands' = Tail(commands) /\ held = "nothing"
  BY DEF Received, Free
<1>3. host = "answer" /\ commands = <<sent>> /\ answer = "none"
  BY <1>1, <1>2
<1> QED
  BY <1>2, <1>3 DEF CommandTaken

\* cmd_task takes CMD_BLOCK_READ.
WhenCmdRead ==
  /\ CommandTaken("BLOCK_READ")
  /\ abort_status # "BUSY" /\ stream_state # "ABORTING" /\ ~quitting /\ ~stop /\ ~sw_reset
  /\ Fresh => Stalled /\ usb_block = NoBlock /\ usb_sent = 0 /\ ~Failing

\* No abort runs when a request arrives, and a fresh one finds the pipeline at rest.
LEMMA AtCmdRead == ASSUME FirstParts, CmdRead PROVE WhenCmdRead
<1>1. CommandTaken("BLOCK_READ")
  BY AtReceived DEF CmdRead
<1> QED
  BY <1>1 DEF WhenCmdRead, CommandTaken, FirstParts, Asking, Answered, AnswerTo, RestInv, AbortInv, WhyInv,
              FreshInv

\* cmd_task takes CMD_READ_EXT_CSD.
WhenCmdReadExtCsd ==
  /\ CommandTaken("READ_EXT_CSD")
  /\ mmc_bio_status = "IDLE" /\ dma = NoBuf /\ usb_block = NoBlock /\ usb_sent = 0 /\ NothingReady
  /\ abort_status # "BUSY" /\ stream_state = "IDLE" /\ ctl = "idle" /\ int_status = {}
  /\ tx = << >> /\ delivered = << >> /\ csd_left = 0

\* The EXT_CSD is asked for before anything else.
LEMMA AtCmdReadExtCsd == ASSUME FirstParts, CmdReadExtCsd PROVE WhenCmdReadExtCsd
<1>1. CommandTaken("READ_EXT_CSD")
  BY AtReceived DEF CmdReadExtCsd
<1> QED
  BY <1>1 DEF WhenCmdReadExtCsd, CommandTaken, FirstParts, EarlyInv, Asking, AnswerTo, Early, Unread

\* cmd_task takes CMD_ABORT.
WhenCmdAbort == CommandTaken("ABORT") /\ Stalled /\ abort_status # "BUSY"

\* Nothing moves any more when an abort is asked for.
LEMMA AtCmdAbort == ASSUME FirstParts, CmdAbort PROVE WhenCmdAbort
<1>1. CommandTaken("ABORT")
  BY AtReceived DEF CmdAbort
<1> QED
  BY <1>1 DEF WhenCmdAbort, CommandTaken, FirstParts, Asking, AnswerTo, RestInv

\* cmd_task starts the abort.
WhenAbortStart ==
  /\ host = "answer" /\ sent = "ABORT" /\ answer = "none" /\ held = "data" /\ commands = << >>
  /\ Stalled /\ abort_status # "BUSY" /\ ~sw_reset

\* Nor when it begins.
LEMMA AtAbortStart == ASSUME FirstParts, AbortStart PROVE WhenAbortStart
<1>1. host = "answer" /\ sent = "ABORT" /\ answer = "none" /\ held = "data" /\ commands = << >>
  BY DEF AbortStart, FirstParts, Pairing, Asking, AnswerTo
<1> QED
  BY <1>1 DEF WhenAbortStart, FirstParts, Asking, AnswerTo, RestInv, AbortInv

\* CMD_GET_STATUS and CMD_GET_VERSION come after an abort.
LEMMA AtCmdGet ==
  ASSUME FirstParts, NEW c \in {"GET_VERSION", "GET_STATUS"}, CmdGet(c)
  PROVE  CommandTaken(c) /\ Rest
<1>1. CommandTaken(c)
  BY AtReceived DEF CmdGet
<1> QED
  BY <1>1 DEF CommandTaken, FirstParts, AnswerTo, RestInv

\* pfcli sends a command into an empty endpoint.
LEMMA AtSend ==
  ASSUME FirstParts, NEW c, Send(c), host # "answer"
  PROVE  commands' = <<c>> /\ answer = "none" /\ held \notin {"data", "answer"}
BY DEF FirstParts, Pairing, Asking, AnswerTo, Send

\* mmc_read_task works on a chunk.
WhenReading ==
  /\ stream_state = "BLOCK_READ" /\ abort_status # "BUSY"
  /\ host \in {"loop", "data", "closed"} \/ Asking("BLOCK_READ")
  /\ Fresh => host \in {"data", "closed"}

\* The read task reads for a stream that no abort has ended, and in a fresh
\* session only while pfcli waits for the data, or has gone.
LEMMA AtReading ==
  ASSUME TypeInv, FirstParts, mmc_bio_status = "BUSY", mmc_blocks_issued < mmc_blocks_total,
         Free("read") \/ read_state # "FIND_BUF"
  PROVE  WhenReading
<1>t. mmc_blocks_issued \in Nat /\ mmc_blocks_total \in Nat
  BY Bounds DEF TypeInv, PipeInv, PipeTypeOK, BufferTypeOK
<1>1. ~Stalled /\ ~Rest
  BY <1>t DEF Stalled, Rest
<1>2. abort_status # "BUSY" /\ stream_state = "BLOCK_READ"
  BY <1>1 DEF FirstParts, AbortInv, ReadInv
<1>3. host \notin {"start", "csd", "no_count"} /\ ~AnswerTo("READ_EXT_CSD")
  BY DEF FirstParts, EarlyInv, Early
<1>4. /\ host \notin {"drain", "drained", "retry", "failed"} /\ ~AnswerTo("GET_STATUS") /\ ~AnswerTo("GET_VERSION")
      /\ ~Asking("ABORT")
  BY <1>1, <1>2 DEF FirstParts, RestInv
<1>5. AnswerTo("BLOCK_READ") => answer = "none"
  BY DEF FirstParts, Pairing, FreshInv, Answered, AnswerTo, Free
<1>6. /\ host \in {"start", "csd", "no_count", "loop", "answer", "data", "failed", "drain",
                   "drained", "retry", "closed"}
      /\ host = "answer" => sent \in Commands /\ answer \in {"none", sent}
  BY DEF FirstParts, Pairing, TypeInv, HostTypes, Leaving
<1>7. ~Answered("ABORT")
  BY <1>2 DEF FirstParts, AbortInv
<1>8. host \in {"loop", "data", "closed"} \/ Asking("BLOCK_READ")
  BY <1>3, <1>4, <1>5, <1>6, <1>7 DEF Asking, Answered, AnswerTo, Commands
<1>9. Fresh => host # "loop" /\ ~Asking("BLOCK_READ")
  BY <1>1 DEF FirstParts, FreshInv
<1> QED
  BY <1>2, <1>8, <1>9 DEF WhenReading

\* stream_task streams blocks.
WhenStreaming ==
  /\ abort_status # "BUSY" /\ mmc_bio_status # "IDLE"
  /\ host \in {"loop", "data", "closed", "failed"} \/ Asking("BLOCK_READ") \/ Asking("ABORT")

\* stream_task streams before an abort has begun.
LEMMA AtStreaming ==
  ASSUME TypeInv, FirstParts, held = "nothing", stream_state = "BLOCK_READ"
  PROVE  WhenStreaming
<1>1. ~Rest
  BY DEF Rest
<1>2. abort_status # "BUSY" /\ mmc_bio_status # "IDLE"
  BY DEF FirstParts, ReadInv
<1>3. host \notin {"start", "csd", "no_count"} /\ ~AnswerTo("READ_EXT_CSD")
  BY <1>2 DEF FirstParts, EarlyInv, Early
<1>4. host \notin {"drain", "drained", "retry"} /\ ~AnswerTo("GET_STATUS") /\ ~AnswerTo("GET_VERSION")
  BY <1>1, <1>2 DEF FirstParts, RestInv
<1>5. host = "answer" => answer = "none"
  BY DEF FirstParts, Pairing
<1>6. /\ host \in {"start", "csd", "no_count", "loop", "answer", "data", "failed", "drain",
                   "drained", "retry", "closed"}
      /\ host = "answer" => sent \in Commands
  BY DEF TypeInv, HostTypes, Leaving
<1> QED
  BY <1>2, <1>3, <1>4, <1>5, <1>6 DEF WhenStreaming, Asking, AnswerTo, Commands

\* stream_task reads the EXT_CSD.
WhenCsd ==
  /\ host = "csd" /\ CsdActive
  /\ ext_csd_status = "BUSY" /\ ext_csd_state # "IDLE" /\ tx = << >> /\ csd_left = 0 /\ delivered = << >>
  /\ mmc_bio_status = "IDLE" /\ dma = NoBuf /\ usb_block = NoBlock /\ usb_sent = 0 /\ NothingReady
  /\ abort_status # "BUSY"

\* pfcli waits while stream_task reads the EXT_CSD.
LEMMA AtCsd == ASSUME FirstParts, held = "nothing", stream_state = "EXT_CSD_READ" PROVE WhenCsd
<1>1. host = "csd" /\ CsdActive
  BY DEF FirstParts, CsdInv, CsdActive, Answered, Pairing
<1> QED
  BY <1>1 DEF WhenCsd, FirstParts, CsdInv, EarlyInv, Early

\* send_data sends it.
WhenSending ==
  /\ stream_state = "EXT_CSD_READ" /\ held = "send" /\ ext_csd_status = "DONE" /\ mmc_bio_status = "IDLE"
  /\ usb_block = NoBlock /\ usb_sent = 0
  /\ host # "csd" => csd_left = 0 /\ tx = << >>
  /\ host \in {"csd", "loop"} \/ Asking("BLOCK_READ") \/ Asking("ABORT")

\* Nothing else is under way while the EXT_CSD is sent.
LEMMA AtSending == ASSUME FirstParts, held = "send" PROVE WhenSending
BY DEF WhenSending, FirstParts, CsdInv, Pairing, Asking, Answered, AnswerTo

\* mmc_abort_task or stream_task works on an abort.
WhenAborting ==
  /\ host = "drain" /\ stream_state \in {"ABORTING", "IDLE"}
  /\ abort_status = "BUSY" => Stalled /\ stream_state = "ABORTING"
  /\ abort_status # "BUSY" => Rest

\* pfcli drains the endpoint while an abort runs.
LEMMA AtAborting ==
  ASSUME FirstParts, held = "nothing", abort_status = "BUSY" \/ stream_state = "ABORTING"
  PROVE  WhenAborting
<1>1. ~Answered("ABORT")
  BY DEF FirstParts, Pairing, Answered
<1>2. host = "drain"
  BY <1>1 DEF FirstParts, AbortInv
<1> QED
  BY <1>1, <1>2 DEF WhenAborting, FirstParts, AbortInv, RestInv, Rest

\* CMD12 is under way.
WhenStopping ==
  /\ abort_status = "BUSY" /\ abort_state = "POLL_CMD12" /\ Stalled /\ stream_state = "ABORTING"
  /\ Answered("ABORT") \/ host = "drain"

\* CMD12 runs only for an abort.
LEMMA AtCmd12Done == ASSUME TypeInv, FirstParts, Cmd12Done PROVE WhenStopping
BY DEF WhenStopping, Cmd12Done, FirstParts, AbortInv, TypeInv, LoopTypes

\* pf_cmd's timeout never runs out.
LEMMA AnswerComes == ASSUME TypeInv, CalmInv, FirstParts, AnswerTimeout PROVE FALSE
<1>1. host = "answer" /\ answer = "none" /\ Quiet
  BY DEF AnswerTimeout, Pfcli
<1>2. held = "data" => Asking("ABORT")
  BY DEF FirstParts, Pairing
<1>3. calm = 0
  BY <1>1, <1>2 DEF FirstParts, Pairing, CalmInv
<1>4. Asking("ABORT") => tx = << >>
  BY DEF FirstParts, RestInv, Stalled
<1>5. held # "answer"
  BY <1>1 DEF FirstParts, Pairing
<1>6. held = "send" => tx = << >>
  BY <1>1 DEF FirstParts, CsdInv
<1>7. stream_state = "BLOCK_READ" /\ StreamFailed => tx = << >>
  <2> SUFFICES ASSUME stream_state = "BLOCK_READ", StreamFailed PROVE tx = << >>
    OBVIOUS
  <2>1. Failing
    BY DEF StreamFailed, Failing
  <2>2. AnswerTo("ABORT") \/ AnswerTo("READ_EXT_CSD")
    BY <1>1, <2>1 DEF FirstParts, FailInv
  <2>3. ~AnswerTo("READ_EXT_CSD")
    BY DEF FirstParts, EarlyInv, Early, StreamFailed
  <2> QED
    BY <1>1, <1>4, <2>2, <2>3 DEF Asking
<1> QED
  BY <1>1, <1>2, <1>3, <1>4, <1>5, <1>6, <1>7 DEF Quiet

\* A timeout with nothing in the endpoint is due to a main loop that turns idly.
LEMMA QuietIsCalm ==
  ASSUME TypeInv, FirstParts, Quiet, tx = << >>, host # "answer"
  PROVE  /\ calm = 2 /\ dma = NoBuf /\ ctl \in {"idle", "data"} /\ ~stop /\ ~sw_reset
BY DEF Quiet, FirstParts, Pairing

\* The EXT_CSD is missed only after an error.
LEMMA CsdTimeoutFails ==
  ASSUME TypeInv, CalmInv, FirstParts, CsdTimeout PROVE ext_csd_status = "ERROR"
<1>1. /\ host = "csd" /\ Len(delivered) < Chunks /\ tx = << >> /\ Quiet
  BY DEF CsdTimeout, Pfcli
<1>2. calm = 2 /\ ctl \in {"idle", "data"}
  BY <1>1, QuietIsCalm
<1>3. held # "send" /\ held = "nothing"
  BY <1>2 DEF CalmInv
<1>4. ext_csd_status # "DONE"
  <2>1. Len(tx) = 0
    BY <1>1
  <2>2. Len(delivered) \in Nat
    BY DEF TypeInv, PipeInv, PipeTypeOK
  <2> QED
    BY <1>1, <1>3, <2>1, <2>2, Bounds DEF FirstParts, CsdSentInv
<1>5. ext_csd_status # "BUSY"
  <2> SUFFICES ASSUME ext_csd_status = "BUSY" PROVE FALSE
    OBVIOUS
  <2>1. stream_state = "EXT_CSD_READ" /\ CsdActive
    BY <1>1, <1>3 DEF FirstParts, CsdSentInv, CsdActive
  <2>2. /\ ext_csd_state # "READ_DATA"
        /\ CsdPolls => int_status \cap {"ERROR", CsdAwaited[ext_csd_state]} = {}
    BY <1>2, <2>1 DEF CalmInv, StreamStuck
  <2>3. ext_csd_state \in {"CMD_POLL", "BUF_READY_POLL", "XFER_POLL"}
    BY <2>1, <2>2 DEF FirstParts, CsdInv, TypeInv, LoopTypes
  <2>4. "ERROR" \notin int_status /\ CsdAwaited[ext_csd_state] \notin int_status
    BY <2>2, <2>3 DEF CsdPolls, CsdAwaited
  <2>5. /\ XferComing
        /\ ext_csd_state \in {"CMD_POLL", "BUF_READY_POLL"} => BufComing
        /\ ext_csd_state = "CMD_POLL" => CmdComing
        /\ ext_csd_state = "XFER_POLL" => ctl # "data"
    BY <2>1, <2>4 DEF FirstParts, CsdPollInv
  <2> QED
    BY <1>2, <2>3, <2>4, <2>5 DEF CsdAwaited, XferComing, BufComing, CmdComing
<1>6. ext_csd_status # "IDLE"
  BY <1>1 DEF FirstParts, CsdSentInv
<1> QED
  BY <1>4, <1>5, <1>6 DEF TypeInv, LoopTypes

\* pf_data_drain returns when the abort is over.
LEMMA DrainTimeoutRests ==
  ASSUME TypeInv, CalmInv, FirstParts, DrainTimeout PROVE Rest /\ stream_state = "IDLE"
<1>1. host = "drain" /\ tx = << >> /\ Quiet
  BY DEF DrainTimeout, Pfcli
<1>2. calm = 2 /\ ~stop /\ ~sw_reset
  BY <1>1, QuietIsCalm
<1>3. abort_status # "BUSY"
  BY <1>2 DEF FirstParts, AbortInv, CalmInv, AbortStuck
<1>4. stream_state # "ABORTING"
  BY <1>2, <1>3 DEF CalmInv, StreamStuck
<1> QED
  BY <1>1, <1>3, <1>4 DEF FirstParts, RestInv, Rest

-----------------------------------------------------------------------------
(* The end of a request.                                                   *)

\* Buffers that hold nothing for USB leave nothing unsent.
LEMMA NothingUnsent ==
  ASSUME PipeInv, NothingReady
  PROVE  mmc_blocks_completed = mmc_blocks_consumed /\ mmc_blocks_issued = mmc_blocks_consumed
<1>1. Unsent[0] = 0 /\ Unsent[1] = 0
  BY DEF Unsent, NothingReady, Bufs
<1> QED
  BY <1>1, PipeTypes DEF PipeInv, Books, Accounted, InRequest, BufferTypeOK

\* A ready buffer has blocks to consume.
LEMMA ReadyNotConsumed ==
  ASSUME PipeInv, ~NothingReady PROVE mmc_blocks_consumed < mmc_blocks_issued
<1>1. PICK b \in Bufs : mmc_buf_state[b] = "READY_FOR_USB"
  BY DEF NothingReady
<1>2. buf_sent[b] < buf_blocks[b] /\ buf_sent[b] \in Nat /\ buf_blocks[b] \in Nat
  BY <1>1, PipeTypes, Bounds DEF PipeInv, Books, ReadyUnsent
<1>3. Unsent[b] > 0
  BY <1>1, <1>2 DEF Unsent
<1>4. Unsent[0] \in Nat /\ Unsent[1] \in Nat
  BY PipeUnsent DEF Bufs
<1> QED
  BY <1>3, <1>4, PipeTypes DEF PipeInv, Books, Accounted, InRequest, Bufs

\* The counters of read.c keep their order.
LEMMA CountsInOrder ==
  ASSUME TypeInv
  PROVE  /\ mmc_blocks_total \in Nat /\ mmc_blocks_issued \in Nat /\ mmc_blocks_consumed \in Nat
         /\ mmc_blocks_consumed <= mmc_blocks_issued /\ mmc_blocks_issued <= mmc_blocks_total
         /\ Polled => mmc_blocks_issued < mmc_blocks_total
<1>1. Unsent[0] \in Nat /\ Unsent[1] \in Nat
  BY PipeUnsent DEF TypeInv, Bufs
<1> QED
  BY <1>1, PipeTypes DEF TypeInv, PipeInv, Books, InRequest, Accounted, ChunkFits

\* All blocks are consumed once all packets but those of no block are out.
LEMMA AllConsumed ==
  ASSUME NEW n \in Nat, NEW k \in Nat, NEW c \in Nat \ {0}, NEW s \in 0 .. c - 1, NEW r \in Nat,
         k <= n, n * c + r = k * c + s
  PROVE  k = n
<1> SUFFICES ASSUME k < n PROVE FALSE
  OBVIOUS
<1>1. k * c + s < n * c
  BY PacketsOfBlocks
<1> QED
  BY <1>1, ProductNat

\* A read that has every block consumed has nothing left anywhere.
LEMMA ConsumedRests ==
  ASSUME TypeInv, mmc_blocks_consumed = mmc_blocks_total
  PROVE  NothingReady /\ mmc_blocks_issued = mmc_blocks_total /\ ~Polled
<1>1. /\ mmc_blocks_total \in Nat /\ mmc_blocks_issued \in Nat /\ mmc_blocks_consumed \in Nat
      /\ mmc_blocks_issued <= mmc_blocks_total
  BY PipeTypes DEF TypeInv, PipeInv, Books, InRequest
<1>2. NothingReady
  BY <1>1, ReadyNotConsumed DEF TypeInv
<1>3. mmc_blocks_issued = mmc_blocks_total
  BY <1>2, NothingUnsent DEF TypeInv
<1>4. ~Polled
  BY <1>1, <1>3, PipeTypes DEF TypeInv, PipeInv, Books, ChunkFits
<1> QED
  BY <1>2, <1>3, <1>4

\* Of a fresh request the host has everything when every block is consumed and sent.
LEMMA CompleteConsumed ==
  ASSUME TypeInv, FirstParts, Fresh, host = "data", Complete
  PROVE  mmc_blocks_consumed = Count /\ mmc_blocks_total = Count
<1>1. /\ mmc_blocks_total \in Nat /\ mmc_blocks_issued \in Nat /\ mmc_blocks_consumed \in Nat
      /\ mmc_blocks_issued <= mmc_blocks_total /\ mmc_blocks_consumed <= mmc_blocks_issued
  <2>1. Unsent[0] \in Nat /\ Unsent[1] \in Nat
    BY PipeUnsent DEF TypeInv, Bufs
  <2> QED
    BY <2>1, PipeTypes DEF TypeInv, PipeInv, Books, InRequest, Accounted
<1>2. mmc_blocks_total = Count
  BY DEF FirstParts, ReadInv
<1>3. Count * Chunks + Len(tx) = mmc_blocks_consumed * Chunks + usb_sent
  BY DEF FirstParts, DataInv, ExactLength, Complete
<1>4. Len(tx) \in Nat /\ usb_sent \in 0 .. Chunks - 1 /\ Chunks \in Nat \ {0} /\ Count \in Nat
  BY SessionBounds, Bounds DEF TypeInv, PipeInv, PipeTypeOK
<1> QED
  BY <1>1, <1>2, <1>3, <1>4, AllConsumed

\* The next request finds the pipeline at rest.
LEMMA DataCompleteRests ==
  ASSUME TypeInv, FirstParts, Fresh, DataComplete
  PROVE  Stalled /\ usb_block = NoBlock /\ usb_sent = 0 /\ ~Failing
<1>1. host = "data" /\ Complete
  BY DEF DataComplete, Pfcli
<1>2. mmc_blocks_consumed = Count /\ mmc_blocks_total = Count
  BY <1>1, CompleteConsumed
<1>3. NothingReady /\ mmc_blocks_issued = mmc_blocks_total /\ ~Polled
  BY <1>2, ConsumedRests
<1>4. usb_block = NoBlock /\ usb_sent = 0
  BY <1>1, <1>3 DEF FirstParts, DataInv
<1>5. tx = << >>
  <2>1. Count * Chunks + Len(tx) = mmc_blocks_consumed * Chunks + usb_sent
    BY <1>1 DEF FirstParts, DataInv, ExactLength, Complete
  <2>2. Len(tx) \in Nat /\ Count * Chunks \in Nat
    BY SessionBounds, Bounds, ProductNat DEF TypeInv, PipeInv, PipeTypeOK
  <2>3. Len(tx) = 0
    BY <1>2, <1>4, <2>1, <2>2
  <2> QED
    BY <2>3 DEF TypeInv, PipeInv, PipeTypeOK
<1>6. ~CsdActive
  BY <1>1 DEF FirstParts, ReadInv, CsdActive
<1>7. dma = NoBuf /\ ctl = "idle"
  BY <1>3, <1>6 DEF FirstParts, UserInv
<1>8. ~Failing
  BY <1>1, <1>3, PipeTypes DEF FirstParts, FailInv, TypeInv
<1> QED
  BY <1>3, <1>4, <1>5, <1>6, <1>7, <1>8, PipeTypes DEF Stalled, TypeInv

\* pf_data_recv gives up only when nothing is on its way any more.
LEMMA DataTimeoutStalls ==
  ASSUME TypeInv, CalmInv, FirstParts, DataTimeout PROVE Stalled
<1>1. /\ host = "data" /\ ~Complete /\ tx = << >> /\ Quiet
  BY DEF DataTimeout, Pfcli
<1>2. calm = 2 /\ dma = NoBuf /\ ctl \in {"idle", "data"}
  BY <1>1, QuietIsCalm
<1>3. ReadStuck /\ StreamStuck
  BY <1>2 DEF CalmInv
<1>4. abort_status # "BUSY" /\ stream_state \in {"BLOCK_READ", "IDLE"} /\ ~CsdActive
  BY <1>1 DEF FirstParts, ReadInv, CsdActive
<1>t. /\ mmc_blocks_total \in Nat /\ mmc_blocks_issued \in Nat /\ mmc_blocks_consumed \in Nat
  BY PipeTypes DEF TypeInv
<1>5. ~Polled
  <2> SUFFICES ASSUME Polled PROVE FALSE
    OBVIOUS
  <2>1. mmc_blocks_issued < mmc_blocks_total
    BY <1>t, PipeTypes DEF TypeInv, PipeInv, Books, ChunkFits
  <2>2. /\ read_state \in PollingUnchecked \ {"READ_BULK_WAIT"}
        /\ "ERROR" \notin int_status /\ Awaited \notin int_status
    BY <1>2, <1>3, <1>t, <2>1
       DEF ReadStuck, Polled, TypeInv, PipeInv, PipeTypeOK, ReadTypeOK, PollingUnchecked
  <2> QED
    BY <1>2, <1>4, <2>2
       DEF FirstParts, PollInv, XferComing, BufComing, CmdComing, Awaited, PollingUnchecked
<1>6. stream_state = "BLOCK_READ" => usb_block = NoBlock /\ NothingReady
  <2> SUFFICES ASSUME stream_state = "BLOCK_READ" PROVE usb_block = NoBlock /\ NothingReady
    OBVIOUS
  <2>1. Block = NoBlock
    BY <1>1, <1>3 DEF StreamStuck
  <2>2. usb_block = NoBlock /\ GetBuf = NoBlock
    BY <2>1 DEF Block
  <2>3. FirstPending = NoBuf
    BY <2>2 DEF GetBuf, NoBlock, FirstPending, NoBuf, Bufs
  <2>4. ~Pending(0) /\ ~Pending(1)
    BY <2>3 DEF FirstPending, NoBuf
  <2>5. NothingReady
    BY <2>4 DEF NothingReady, Pending, TypeInv, PipeInv, Books, ReadyUnsent, Bufs
  <2> QED
    BY <2>2, <2>5
<1>7. mmc_bio_status = "BUSY" => mmc_blocks_issued >= mmc_blocks_total
  <2> SUFFICES ASSUME mmc_bio_status = "BUSY", mmc_blocks_issued < mmc_blocks_total PROVE FALSE
    BY <1>t
  <2>1. NothingReady
    BY <1>4, <1>6 DEF FirstParts, ReadInv
  <2>2. read_state = "FIND_BUF"
    BY <1>5, <1>t DEF FirstParts, ReadInv, Polled
  <2>3. \A b \in Bufs : mmc_buf_state[b] # "FREE"
    BY <1>3, <1>t, <2>2 DEF ReadStuck
  <2>4. mmc_buf_state[0] = "SPI_FILLING"
    BY <2>1, <2>3 DEF NothingReady, Bufs, TypeInv, PipeInv, PipeTypeOK, BufferTypeOK
  <2> QED
    BY <1>5, <2>4 DEF TypeInv, PipeInv, Books, FillingIsPolled, Bufs
<1>8. ctl = "idle"
  <2> SUFFICES ASSUME ctl # "idle" PROVE FALSE
    OBVIOUS
  <2>1. mmc_bio_status = "BUSY" /\ BuffersFree
    BY <1>4, <1>5 DEF FirstParts, UserInv
  <2>2. mmc_blocks_issued = mmc_blocks_consumed
    BY <2>1, NothingUnsent DEF BuffersFree, NothingReady, TypeInv
  <2> QED
    BY <1>3, <1>7, <1>t, <2>1, <2>2 DEF ReadStuck
<1> QED
  BY <1>1, <1>2, <1>4, <1>6, <1>7, <1>8 DEF Stalled

\* Of a fresh request only when an error ended it.
LEMMA DataTimeoutFails ==
  ASSUME TypeInv, CalmInv, FirstParts, DataTimeout, Fresh PROVE Failing
<1>1. /\ host = "data" /\ ~Complete /\ tx = << >> /\ Quiet
  BY DEF DataTimeout, Pfcli
<1>2. Stalled
  BY DataTimeoutStalls
<1>3. ReadStuck /\ StreamStuck
  BY <1>1, QuietIsCalm DEF CalmInv
<1> SUFFICES ASSUME mmc_bio_status # "ERROR" PROVE FALSE
  BY DEF Failing
<1>4. /\ mmc_blocks_total = Count /\ stream_state \in {"BLOCK_READ", "IDLE"}
  BY <1>1 DEF FirstParts, ReadInv
<1>t. /\ mmc_blocks_total \in Nat /\ mmc_blocks_issued \in Nat /\ mmc_blocks_consumed \in Nat
      /\ mmc_bio_status \in {"IDLE", "BUSY", "DONE", "ERROR"}
      /\ mmc_blocks_issued <= mmc_blocks_total
  BY PipeTypes DEF TypeInv, PipeInv, PipeTypeOK, ReadTypeOK, Books, InRequest
<1>5. CASE stream_state = "BLOCK_READ"
  <2>1. mmc_bio_status = "BUSY" /\ NothingReady
    BY <1>1, <1>2, <1>3, <1>5, <1>t DEF FirstParts, ReadInv, StreamStuck, Stalled
  <2>2. mmc_blocks_issued = mmc_blocks_consumed
    BY <2>1, NothingUnsent DEF TypeInv
  <2> QED
    BY <1>2, <1>3, <1>t, <2>1, <2>2 DEF Stalled, ReadStuck
<1>6. CASE stream_state = "IDLE"
  <2>1. mmc_blocks_consumed = mmc_blocks_total
    BY <1>1, <1>6 DEF FirstParts, DataInv, ReadInv
  <2>2. usb_sent = 0
    BY <1>1, <2>1, ConsumedRests DEF FirstParts, DataInv
  <2>3. Len(delivered) + Len(tx) = mmc_blocks_consumed * Chunks + usb_sent
    BY <1>1 DEF FirstParts, DataInv, ExactLength
  <2>4. Len(tx) = 0 /\ Len(delivered) \in Nat
    BY <1>1 DEF TypeInv, PipeInv, PipeTypeOK
  <2>5. Count * Chunks \in Nat
    BY SessionBounds, Bounds, ProductNat
  <2> QED
    BY <1>1, <1>4, <2>1, <2>2, <2>3, <2>4, <2>5 DEF Complete
<1> QED
  BY <1>4, <1>5, <1>6

\* So does the dump once the EXT_CSD is read.
LEMMA CsdCompleteRests ==
  ASSUME TypeInv, FirstParts, CsdComplete
  PROVE  /\ Stalled /\ usb_block = NoBlock /\ usb_sent = 0 /\ ~Failing
         /\ abort_status # "BUSY" /\ csd_left = 0
<1>1. host = "csd" /\ Len(delivered) = Chunks
  BY DEF CsdComplete, Pfcli
<1>t. /\ Chunks \in Nat \ {0} /\ csd_left \in Nat /\ tx \in Seq(Packets) /\ Len(tx) \in Nat
  BY Bounds DEF TypeInv, PipeInv, PipeTypeOK, LoopTypes
<1>2. delivered # << >>
  BY <1>1, <1>t
<1>3. ~CsdActive
  BY <1>1, <1>2 DEF FirstParts, CsdInv
<1>4. ext_csd_status = "DONE"
  <2>1. ext_csd_status \notin {"IDLE", "BUSY", "ERROR"}
    BY <1>1, <1>2, <1>3 DEF FirstParts, CsdSentInv, CsdActive
  <2> QED
    BY <2>1 DEF TypeInv, LoopTypes
<1>5. Len(delivered) + Len(tx) + csd_left = Chunks
  BY <1>1, <1>4 DEF FirstParts, CsdSentInv
<1>6. Len(tx) = 0 /\ csd_left = 0
  BY <1>1, <1>5, <1>t
<1>7. tx = << >>
  BY <1>6, <1>t
<1>8. /\ mmc_bio_status = "IDLE" /\ usb_block = NoBlock /\ usb_sent = 0 /\ dma = NoBuf
      /\ abort_status # "BUSY" /\ stream_state \in {"IDLE", "EXT_CSD_READ"}
  BY <1>1 DEF FirstParts, EarlyInv, Early
<1>9. ctl = "idle"
  BY <1>3, <1>8 DEF FirstParts, UserInv, Polled
<1>10. ~Failing
  BY <1>1, <1>4 DEF FirstParts, FailInv
<1> QED
  BY <1>3, <1>6, <1>7, <1>8, <1>9, <1>10 DEF Stalled

\* Only the controller fails.
LEMMA FailingBefore ==
  ASSUME TypeInv, FirstParts, SessionNext, trouble' = trouble PROVE Failing' => Failing
<1> USE DEF Failing
<1>1. CASE UNCHANGED <<mmc_bio_status, int_status, abort_status>>
  BY <1>1
<1>2. CASE CmdRead \/ CmdReadExtCsd \/ AbortStart
  <2>1. CmdRead => UNCHANGED <<int_status, abort_status>> /\ mmc_bio_status' = "BUSY"
    BY DEF CmdRead, StartRead, ctlVars, abortVars
  <2>2. CmdReadExtCsd => int_status' = {} /\ mmc_bio_status' = mmc_bio_status
    BY DEF CmdReadExtCsd, TaskUnchanged, readVars
  <2>3. AbortStart => int_status' = {} /\ mmc_bio_status' = mmc_bio_status
    BY DEF AbortStart, TaskUnchanged, readVars
  <2> QED
    BY <1>2, <2>1, <2>2, <2>3
<1>3. CASE Read
  <2>1. UNCHANGED abort_status /\ int_status' \subseteq int_status
    BY <1>3 DEF Read, ReadTask, ReadSkip, ReadAllIssued, ReadSendCmd, ReadNoBuf, ReadError, ReadWait,
                ReadCmdComplete, ReadBulk, ReadAdvance, abortVars, ctlVars
  <2>2. ReadError => Failing
    <3>1. ReadError => ReadError /\ Reading(Polling) /\ Failed
      BY DEF ReadError
    <3> QED
      BY <1>3, <3>1, AtReading DEF Read, Reading, Failed, WhenReading
  <2>3. ~ReadError => mmc_bio_status' \in {mmc_bio_status, "DONE", "BUSY"}
    BY <1>3 DEF Read, ReadTask, ReadSkip, ReadAllIssued, ReadSendCmd, ReadNoBuf, ReadWait,
                ReadCmdComplete, ReadBulk, ReadAdvance, readVars
  <2> QED
    BY <2>1, <2>2, <2>3
<1>4. CASE Stream
  <2>1. /\ UNCHANGED <<mmc_bio_status, abort_status>>
        /\ int_status' \subseteq int_status
    BY <1>4 DEF Stream, StreamPlain, StreamTask, StreamIdle, StreamError, StreamWait, StreamSend,
                StreamSendLast, Streaming, StreamAborting, CsdError, CsdWait, CsdNext, CsdReadData,
                CsdDone, CsdPolled, CsdTurn, readVars, ctlVars, abortVars
  <2> QED
    BY <2>1
<1>5. CASE AbortTask
  <2>1. \/ UNCHANGED <<mmc_bio_status, int_status, abort_status>>
        \/ int_status' = {} /\ mmc_bio_status' \in {mmc_bio_status, "IDLE"}
    BY <1>5 DEF AbortTask, AbortWait, AbortReset, AbortDone, abortVars
  <2> QED
    BY <2>1
<1>6. CASE Controller
  <2>1. UNCHANGED <<mmc_bio_status, abort_status>>
    BY <1>6 DEF Controller, CtlResponse, CtlBufReady, CtlComplete, CtlStep, readVars, abortVars
  <2>2. int_status' \subseteq int_status \cup {"CMD_COMPLETE", "BUF_READ_READY", "XFER_COMPLETE"}
    BY <1>6 DEF Controller, CtlResponse, CtlBufReady, CtlComplete, CtlStep
  <2> QED
    BY <2>1, <2>2
<1>7. CASE Cmd12Done
  <2>1. abort_status = "BUSY"
    BY <1>7 DEF Cmd12Done, FirstParts, AbortInv
  <2> QED
    BY <1>7, <2>1 DEF Cmd12Done, readVars
<1>8. CASE \/ Poll \/ CmdAbort \/ (\E c \in {"GET_VERSION", "GET_STATUS"} : CmdGet(c))
           \/ SendData \/ DataSent \/ Dma \/ SwResetDone
  BY <1>8, <1>1 DEF Poll, NoCommand, CmdAbort, CmdGet, TaskUnchanged, SendData, DataSent, Sending, Dma, DmaDone,
                   SwResetDone, readVars, ctlVars, abortVars
<1>9. ~ControllerFails
  BY SessionBounds DEF ControllerFails, TypeInv, HostTypes
<1>10. CASE Host \/ Interrupt
  BY <1>10, <1>1 DEF Host, SendExtCsd, SendRead, SendAbort, SendStatus, SendVersion, Send, TakeAnswer, AnswerTimeout,
              ReadCsd, CsdComplete, CsdTimeout, NoCount, ReadData, HostRead, DataComplete, DataTimeout,
              Drain, DrainTimeout, Retry, Interrupt, Pfcli, DeviceUnchanged, readVars, ctlVars, abortVars
<1> QED
  BY <1>2, <1>3, <1>4, <1>5, <1>6, <1>7, <1>8, <1>9, <1>10 DEF SessionNext, Step, DeviceLoop, CmdTask

\* Trouble is never taken back, and only Ctrl-C sets interrupted.
LEMMA TroubleBefore ==
  ASSUME TypeInv, SessionNext
  PROVE  /\ trouble \in Nat
         /\ ControllerFails \/ Interrupt \/ UNCHANGED <<trouble, interrupted>>
         /\ ControllerFails => trouble' = trouble + 1 /\ interrupted' = interrupted
         /\ Interrupt => trouble' = trouble + 1
<1>1. trouble \in Nat
  BY SessionBounds DEF TypeInv, HostTypes
<1>2. ControllerFails => trouble' = trouble + 1 /\ interrupted' = interrupted
  BY DEF ControllerFails, Beside, pfVars
<1>3. Interrupt => trouble' = trouble + 1
  BY DEF Interrupt
<1>4. CASE DeviceLoop \/ Dma \/ Controller \/ Cmd12Done \/ SwResetDone
  <2>1. UNCHANGED <<trouble, interrupted>>
    BY <1>4 DEF DeviceLoop, CmdTask, Poll, CmdRead, CmdReadExtCsd, CmdAbort, AbortStart, CmdGet,
         Read, Stream, SendData, DataSent, Sending, AbortTask, AbortWait, AbortReset, AbortDone, AbortTurn,
         Dma, Controller, Cmd12Done, SwResetDone, TaskUnchanged, Beside, pfVars
  <2> QED
    BY <1>1, <1>2, <1>3, <2>1
<1>5. CASE Host
  <2>1. UNCHANGED <<trouble, interrupted>>
    BY <1>5 DEF Host, SendExtCsd, SendRead, SendAbort, SendStatus, SendVersion, TakeAnswer, AnswerTimeout,
              ReadCsd, CsdComplete, CsdTimeout, NoCount, ReadData, HostRead, DataComplete, DataTimeout,
              Drain, DrainTimeout, Retry, Pfcli, KeepPlace, pfVars
  <2> QED
    BY <1>1, <1>2, <1>3, <2>1
<1> QED
  BY <1>1, <1>2, <1>3, <1>4, <1>5 DEF SessionNext, Step

\* Once a request has been retried the session stays so, until a second trouble.
LEMMA FreshBefore ==
  ASSUME TypeInv, FirstParts, SessionNext, trouble' <= 1 PROVE Fresh' => Fresh
<1>1. CASE trouble = 0
  BY <1>1 DEF Fresh
<1>2. CASE trouble # 0
  <2>1. trouble' = trouble /\ interrupted' = interrupted
    BY <1>2, TroubleBefore
  <2>2. Failing' => Failing
    BY <2>1, FailingBefore
  <2> QED
    BY <2>1, <2>2 DEF Fresh
<1> QED
  BY <1>1, <1>2

-----------------------------------------------------------------------------
(* Packets and blocks of a request.                                        *)

\* The packets so far, as stream_task sends one.
LEMMA SendCounts ==
  ASSUME TypeInv, FirstParts, Fresh, host = "data", StreamSend \/ StreamSendLast
  PROVE  ExactLength'
<1>t. /\ tx \in Seq(Packets) /\ Len(tx) \in Nat /\ Len(delivered) \in Nat /\ Chunks \in Nat \ {0}
      /\ mmc_blocks_consumed \in Nat
      /\ Sent \in 0 .. Chunks - 1
  BY Bounds, BlockIsRef, CountsInOrder DEF TypeInv, PipeInv, PipeTypeOK
<1>1. tx' = Append(tx, Packet(Block, Sent)) /\ delivered' = delivered
  BY DEF StreamSend, StreamSendLast, Streaming
<1>2. Len(tx') = Len(tx) + 1
  BY <1>1, <1>t
<1>3. Sent = usb_sent
  BY DEF FirstParts, DataInv, Sent
<1>4. Len(delivered) + Len(tx) = mmc_blocks_consumed * Chunks + usb_sent
  BY DEF FirstParts, DataInv, ExactLength
<1>5. CASE StreamSend
  <2>1. usb_sent' = Sent + 1 /\ mmc_blocks_consumed' = mmc_blocks_consumed
    BY <1>5 DEF StreamSend
  <2>2. mmc_blocks_consumed * Chunks \in Nat
    BY <1>t, ProductNat
  <2> QED
    BY <1>t, <1>1, <1>2, <1>3, <1>4, <2>1, <2>2 DEF ExactLength
<1>6. CASE StreamSendLast
  <2>1. Block # NoBlock
    BY <1>6 DEF StreamSendLast
  <2>2. ~NothingReady
    <3>1. CASE usb_block # NoBlock
      BY <3>1 DEF FirstParts, DataInv
    <3>2. CASE usb_block = NoBlock
      BY <2>1, <3>2 DEF Block, GetBuf, FirstPending, Pending, NothingReady, Bufs, NoBuf
    <3> QED
      BY <3>1, <3>2
  <2>3. PICK b \in Bufs : Pending(b)
    BY <2>2 DEF NothingReady, Pending, TypeInv, PipeInv, Books, ReadyUnsent
  <2>4. FirstPending # NoBuf
    BY <2>3 DEF FirstPending, Bufs, NoBuf
  <2>5. usb_sent' = 0 /\ mmc_blocks_consumed' = mmc_blocks_consumed + 1 /\ Sent + 1 = Chunks
    BY <1>6, <1>t, <2>4 DEF StreamSendLast, Consume, ReleaseBlock
  <2>6. (mmc_blocks_consumed + 1) * Chunks = mmc_blocks_consumed * Chunks + Chunks
    BY <1>t, OneMoreBlock
  <2>7. mmc_blocks_consumed * Chunks \in Nat
    BY <1>t, ProductNat
  <2> QED
    BY <1>t, <1>1, <1>2, <1>3, <1>4, <2>5, <2>6, <2>7 DEF ExactLength
<1> QED
  BY <1>5, <1>6

\* As pfcli reads one.
LEMMA ReadCounts ==
  ASSUME TypeInv, ExactLength, HostRead PROVE ExactLength'
<1>t. tx \in Seq(Packets) /\ delivered \in Seq(Packets)
  BY DEF TypeInv, PipeInv, PipeTypeOK
<1>1. Head(tx) \in Packets /\ Len(Tail(tx)) = Len(tx) - 1 /\ Len(tx) \in Nat \ {0}
  BY <1>t DEF HostRead
<1>2. delivered' = Append(delivered, Head(tx)) /\ tx' = Tail(tx)
      /\ UNCHANGED <<mmc_blocks_consumed, usb_sent>>
  BY DEF HostRead, readVars, streamVars
<1>3. Len(delivered') = Len(delivered) + 1 /\ Len(delivered) \in Nat
  BY <1>t, <1>1, <1>2
<1>4. Len(delivered') + Len(tx') = Len(delivered) + Len(tx)
  BY <1>1, <1>2, <1>3
<1> QED
  BY <1>2, <1>4 DEF ExactLength

\* And as its request is acknowledged.
LEMMA TakeCounts ==
  ASSUME TypeInv, FirstParts, Fresh, TakeAnswer, Answered("BLOCK_READ") PROVE ExactLength'
<1>1. /\ mmc_blocks_consumed = 0 /\ usb_sent = 0 /\ tx = << >>
  BY DEF FirstParts, FreshInv
<1>2. /\ delivered' = << >> /\ tx' = tx /\ UNCHANGED <<mmc_blocks_consumed, usb_sent>>
  BY DEF TakeAnswer, Answered, AnswerTo, DeviceUnchanged, readVars, streamVars
<1>3. 0 * Chunks = 0
  BY Bounds
<1> QED
  BY <1>1, <1>2, <1>3 DEF ExactLength

\* stream_task looks for a block and sends a packet of it.
WhenBlock ==
  /\ stream_state = "BLOCK_READ" /\ stream_state' \in {"IDLE", "BLOCK_READ"}
  /\ stream_state' = "IDLE" <=> mmc_bio_status = "DONE" /\ usb_block' = NoBlock
  /\ BuffersFree => BuffersFree'
  /\ NothingReady => NothingReady' /\ GetBuf = NoBlock /\ UNCHANGED mmc_blocks_consumed
  /\ mmc_bio_status = "DONE" => NothingReady
  /\ GetBuf # NoBlock => ~NothingReady
  /\ Fresh /\ host = "data" => (usb_block' # NoBlock => ~NothingReady')
  /\ Fresh /\ host = "data" => ExactLength'

\* stream_task finds a block only in a ready buffer, and counts what it sends.
LEMMA AtBlock ==
  ASSUME TypeInv, FirstParts, Stream, StreamWait \/ StreamSend \/ StreamSendLast
  PROVE  WhenBlock
<1>1. stream_state = "BLOCK_READ" /\ ~StreamFailed
  BY DEF StreamWait, StreamSend, StreamSendLast, Streaming
<1>2. stream_state' = IF mmc_bio_status = "DONE" /\ usb_block' = NoBlock THEN "IDLE" ELSE "BLOCK_READ"
  BY DEF StreamWait, StreamSend, StreamSendLast, FinishStream, ReleaseBlock
<1>3. /\ BuffersFree => BuffersFree'
      /\ NothingReady => NothingReady' /\ GetBuf = NoBlock /\ UNCHANGED mmc_blocks_consumed
      /\ GetBuf # NoBlock => ~NothingReady
  BY DEF StreamWait, StreamSend, StreamSendLast, Consume, BuffersFree, NothingReady, GetBuf, FirstPending,
         Pending, Bufs, NoBuf
<1>4. mmc_bio_status = "DONE" => NothingReady
  BY ConsumedRests DEF FirstParts, ReadInv
<1>5. Fresh /\ host = "data" => (usb_block' # NoBlock => ~NothingReady')
  BY <1>3 DEF StreamWait, StreamSend, StreamSendLast, ReleaseBlock, Block, FirstParts, DataInv, NothingReady
<1>6. Fresh /\ host = "data" => ExactLength'
  <2>1. CASE StreamWait
    BY <2>1 DEF StreamWait, Streaming, Sent, FirstParts, DataInv, ExactLength
  <2>2. CASE StreamSend \/ StreamSendLast
    BY <2>2, SendCounts
  <2> QED
    BY <2>1, <2>2
<1> QED
  BY <1>1, <1>2, <1>3, <1>4, <1>5, <1>6 DEF WhenBlock

-----------------------------------------------------------------------------
(* Every step keeps the parts.                                             *)

\* What TypeInv says of the sequences and counters.
FactsOfTypes ==
  /\ tx \in Seq(Packets) /\ delivered \in Seq(Packets) /\ commands \in Seq(Commands)
  /\ Len(tx) \in Nat /\ Len(delivered) \in Nat /\ Chunks \in Nat \ {0} /\ csd_left \in 0 .. Chunks
  /\ Count \in Nat \ {0} /\ trouble \in Nat /\ mmc_active_buf \in {0, 1}
  /\ mmc_blocks_total \in Nat /\ mmc_blocks_issued \in Nat /\ mmc_blocks_consumed \in Nat
  /\ mmc_blocks_consumed <= mmc_blocks_issued /\ mmc_blocks_issued <= mmc_blocks_total
  /\ Polled => mmc_blocks_issued < mmc_blocks_total
  /\ quitting => interrupted
  /\ interrupted => trouble > 0

\* TypeInv says so.
LEMMA TypesAre == ASSUME TypeInv PROVE FactsOfTypes
BY SessionBounds, Bounds, CountsInOrder
   DEF FactsOfTypes, Leaving, TypeInv, PipeInv, PipeTypeOK, LoopTypes, HostTypes, BufferTypeOK, Bufs

\* What depends on few variables stays with them.
SameWhere ==
  /\ UNCHANGED mmc_buf_state => (BuffersFree' <=> BuffersFree) /\ (NothingReady' <=> NothingReady)
  /\ UNCHANGED <<delivered, tx, mmc_blocks_consumed, usb_sent>> => (ExactLength' <=> ExactLength)
  /\ UNCHANGED int_status => (Cmd12Over' <=> Cmd12Over)

\* A state function of unchanged variables is unchanged.
LEMMA Frames == SameWhere
BY DEF SameWhere, BuffersFree, NothingReady, ExactLength, Cmd12Over

\* Nothing new goes wrong.
NothingNew == /\ trouble <= 1 /\ UNCHANGED <<trouble, interrupted>>
              /\ Failing' => Failing
              /\ Fresh' => Fresh

\* Each part below depends on the variables listed with it and on no others.  First the
\* commands and answers.
LEMMA PairingFrame ==
  ASSUME Pairing, UNCHANGED <<answer, commands, held, host, sent>>
  PROVE  Pairing'
BY Frames DEF SameWhere, Pairing, Asking, AnswerTo

\* The time before the first request.
LEMMA EarlyInvFrame ==
  ASSUME EarlyInv, UNCHANGED <<abort_status, answer, csd_left, ctl, delivered, dma, held, host, int_status,
                     mmc_bio_status, mmc_buf_state, sent, stream_state, tx,
                     usb_block, usb_sent>>
  PROVE  EarlyInv'
BY Frames DEF SameWhere, EarlyInv, Early, Unread, AnswerTo, Asking

\* The EXT_CSD.
LEMMA CsdInvFrame ==
  ASSUME CsdInv, UNCHANGED <<answer, csd_left, delivered, ext_csd_state, ext_csd_status, held, host,
                     interrupted, mmc_bio_status, sent, stream_state, trouble,
                     tx, usb_block, usb_sent>>
  PROVE  CsdInv'
BY Frames DEF SameWhere, CsdInv, CsdActive, Answered, AnswerTo

\* Its packets.
LEMMA CsdSentInvFrame ==
  ASSUME CsdSentInv, UNCHANGED <<csd_left, delivered, ext_csd_status, held, host, stream_state, tx>>
  PROVE  CsdSentInv'
BY Frames DEF SameWhere, CsdSentInv

\* What a chunk still waits for.
LEMMA PollInvFrame ==
  ASSUME PollInv, UNCHANGED <<abort_status, ctl, dma, int_status, mmc_bio_status, read_state>>
  PROVE  PollInv'
BY Frames DEF SameWhere, PollInv, Polled, XferComing, BufComing, CmdComing

\* What the EXT_CSD read still waits for.
LEMMA CsdPollInvFrame ==
  ASSUME CsdPollInv, UNCHANGED <<ctl, ext_csd_state, held, int_status, stream_state>>
  PROVE  CsdPollInv'
BY Frames DEF SameWhere, CsdPollInv, CsdActive, XferComing, BufComing, CmdComing

\* The users of the controller and the DMA.
LEMMA UserInvFrame ==
  ASSUME UserInv, UNCHANGED <<abort_status, ctl, dma, held, int_status, interrupted, mmc_bio_status,
                     mmc_buf_state, read_state, stream_state, trouble>>
  PROVE  UserInv'
BY Frames DEF SameWhere, UserInv, CsdActive, Polled, Fresh, Failing

\* The read and its stream.
LEMMA ReadInvFrame ==
  ASSUME ReadInv, UNCHANGED <<read_state, mmc_blocks_issued,
                     abort_status, host, mmc_bio_status, mmc_blocks_consumed, mmc_blocks_total,
                     stream_state>>
  PROVE  ReadInv'
BY Frames DEF SameWhere, ReadInv

\* The abort.
LEMMA AbortInvFrame ==
  ASSUME AbortInv, UNCHANGED <<abort_state, abort_status, answer, ctl, dma, held, host, int_status,
                     mmc_bio_status, mmc_blocks_issued, mmc_blocks_total,
                     mmc_buf_state, sent, stop, stream_state, sw_reset, tx,
                     usb_block>>
  PROVE  AbortInv'
BY Frames DEF SameWhere, AbortInv, Stalled, Answered, AnswerTo, CsdActive

\* Where nothing moves any more.
LEMMA RestInvFrame ==
  ASSUME RestInv, UNCHANGED <<abort_status, answer, ctl, dma, held, host, int_status, mmc_bio_status,
                     mmc_blocks_issued, mmc_blocks_total, mmc_buf_state, sent,
                     stream_state, tx, usb_block>>
  PROVE  RestInv'
BY Frames DEF SameWhere, RestInv, Stalled, Rest, AnswerTo, Asking, CsdActive

\* The reason of an abort.
LEMMA WhyInvFrame ==
  ASSUME WhyInv, UNCHANGED <<host, interrupted, quitting, sent, trouble>>
  PROVE  WhyInv'
BY Frames DEF SameWhere, WhyInv, AnswerTo

\* An error not recovered from.
LEMMA FailInvFrame ==
  ASSUME FailInv, UNCHANGED <<abort_status, answer, ext_csd_status, host, int_status, interrupted,
                     mmc_bio_status, mmc_blocks_issued, mmc_blocks_total, sent,
                     trouble>>
  PROVE  FailInv'
BY Frames DEF SameWhere, FailInv, Failing, AnswerTo

\* A request that is no retry.
LEMMA FreshInvFrame ==
  ASSUME FreshInv, UNCHANGED <<abort_status, answer, ctl, dma, held, host, int_status, interrupted,
                     mmc_bio_status, mmc_blocks_consumed, mmc_blocks_issued,
                     mmc_blocks_total, mmc_buf_state, read_state, sent,
                     stream_state, trouble, tx, usb_block, usb_sent>>
  PROVE  FreshInv'
BY Frames DEF SameWhere, FreshInv, Fresh, Failing, Asking, Answered, AnswerTo, Stalled, CsdActive

\* The packets of such a request.
LEMMA DataInvFrame ==
  ASSUME DataInv, UNCHANGED <<abort_status, delivered, host, int_status, interrupted, mmc_bio_status,
                     mmc_blocks_consumed, mmc_buf_state, stream_state, trouble,
                     tx, usb_block, usb_sent>>
  PROVE  DataInv'
BY Frames DEF SameWhere, DataInv, Fresh, Failing

-----------------------------------------------------------------------------
(* One lemma for every action: when it is taken with nothing new going     *)
(* wrong, or as the first thing that goes wrong, all parts hold after it.  *)
(* The first steps say where the others are, and each further one which    *)
(* parts are proved together.                                              *)

\* cmd_task starts a read: the pipeline is at rest, or still busy with a request pfcli gave up.
LEMMA AfterCmdRead ==
  ASSUME TypeInv, CalmInv, FirstParts, NothingNew, CmdRead
  PROVE  FirstParts'
<1>1. WhenCmdRead
  BY AtCmdRead
<1> USE <1>1 DEF NothingNew, CmdRead, Received, StartRead, ResetCounters, Respond, WhenCmdRead,
           CommandTaken, readVars, streamVars, ctlVars, hostVars, abortVars, csdVars, cmdVars,
           pfVars
<1>2. FactsOfTypes
  BY TypesAre
<1>3. WhyInv'
  BY WhyInvFrame DEF FirstParts
<1>4. Pairing' /\ CsdInv' /\ CsdSentInv' /\ PollInv' /\ CsdPollInv' /\ AbortInv' /\ RestInv' /\
      FailInv' /\ DataInv'
  BY SMTT(30) DEF FirstParts, Asking, AnswerTo, Pairing, Stalled, CsdActive, Answered, CsdInv,
     CsdSentInv, Polled, XferComing, BufComing, CmdComing, PollInv, CsdPollInv, AbortInv, Rest,
     RestInv, FailInv, DataInv
<1>5. EarlyInv'
  BY DEF FirstParts, Early, Unread, AnswerTo, Asking, EarlyInv, Pairing, Stalled
<1>6. UserInv'
  BY DEF FirstParts, CsdActive, Polled, UserInv, BuffersFree, Bufs, Stalled
<1>7. ReadInv'
  BY <1>2 DEF FirstParts, ReadInv, BuffersFree, Stalled, FactsOfTypes
<1>8. FreshInv'
  BY DEF FirstParts, Asking, Answered, AnswerTo, Stalled, CsdActive, FreshInv, BuffersFree, Bufs
<1> QED
  BY <1>3, <1>4, <1>5, <1>6, <1>7, <1>8 DEF FirstParts

\* It starts to read the EXT_CSD.
LEMMA AfterCmdReadExtCsd ==
  ASSUME TypeInv, CalmInv, FirstParts, NothingNew, CmdReadExtCsd
  PROVE  FirstParts'
<1>1. WhenCmdReadExtCsd
  BY AtCmdReadExtCsd
<1> USE <1>1 DEF NothingNew, CmdReadExtCsd, Received, Respond, TaskUnchanged, WhenCmdReadExtCsd,
           CommandTaken, readVars, streamVars, ctlVars, hostVars, abortVars, csdVars, cmdVars,
           pfVars
<1>2. FactsOfTypes
  BY TypesAre
<1>3. SameWhere
  BY Frames
<1>4. WhyInv'
  BY WhyInvFrame DEF FirstParts
<1>5. Pairing' /\ CsdInv' /\ CsdSentInv' /\ PollInv' /\ CsdPollInv' /\ UserInv' /\ ReadInv' /\
      AbortInv' /\ RestInv' /\ FailInv' /\ FreshInv' /\ DataInv'
  BY SMTT(30) DEF FirstParts, Asking, AnswerTo, Pairing, CsdActive, Answered, CsdInv, CsdSentInv,
     Polled, XferComing, BufComing, CmdComing, PollInv, CsdPollInv, UserInv, ReadInv, Stalled,
     AbortInv, Rest, RestInv, FailInv, FreshInv, DataInv
<1>6. EarlyInv'
  BY <1>2, <1>3 DEF FirstParts, Early, Unread, AnswerTo, Asking, EarlyInv, Pairing, FactsOfTypes,
     SameWhere
<1> QED
  BY <1>4, <1>5, <1>6 DEF FirstParts

\* It answers CMD_GET_VERSION or CMD_GET_STATUS.
LEMMA AfterCmdGet ==
  ASSUME TypeInv, CalmInv, FirstParts, NothingNew, NEW c \in {"GET_VERSION", "GET_STATUS"}, CmdGet(c)
  PROVE  FirstParts'
<1>1. CommandTaken(c) /\ Rest
  BY AtCmdGet
<1> USE <1>1 DEF NothingNew, CmdGet, Received, Respond, TaskUnchanged, CommandTaken, readVars,
           streamVars, ctlVars, hostVars, abortVars, csdVars, cmdVars, pfVars
<1>2. PollInv' /\ ReadInv' /\ WhyInv' /\ DataInv'
  BY PollInvFrame, ReadInvFrame, WhyInvFrame, DataInvFrame DEF FirstParts
<1>3. Pairing' /\ CsdInv' /\ CsdSentInv' /\ CsdPollInv' /\ UserInv' /\ AbortInv' /\ RestInv' /\
      FailInv' /\ FreshInv'
  BY SMTT(30) DEF FirstParts, Asking, AnswerTo, Pairing, Rest, CsdActive, Answered, CsdInv,
     CsdSentInv, XferComing, BufComing, CmdComing, CsdPollInv, Polled, UserInv, Stalled, AbortInv,
     RestInv, FailInv, FreshInv
<1>4. EarlyInv'
  BY DEF FirstParts, Early, Unread, AnswerTo, Asking, EarlyInv, Pairing, Rest
<1> QED
  BY <1>2, <1>3, <1>4 DEF FirstParts

\* It takes CMD_ABORT and waits for the data endpoint.
LEMMA AfterCmdAbort ==
  ASSUME TypeInv, CalmInv, FirstParts, NothingNew, CmdAbort
  PROVE  FirstParts'
<1>1. WhenCmdAbort
  BY AtCmdAbort
<1> USE <1>1 DEF NothingNew, CmdAbort, Received, TaskUnchanged, WhenCmdAbort, CommandTaken,
           readVars, streamVars, ctlVars, hostVars, abortVars, csdVars, cmdVars, pfVars
<1>2. FactsOfTypes
  BY TypesAre
<1>3. SameWhere
  BY Frames
<1>4. PollInv' /\ ReadInv' /\ WhyInv' /\ FailInv' /\ DataInv'
  BY PollInvFrame, ReadInvFrame, WhyInvFrame, FailInvFrame, DataInvFrame DEF FirstParts
<1>5. Pairing' /\ CsdInv' /\ CsdSentInv' /\ CsdPollInv' /\ UserInv' /\ AbortInv' /\ RestInv' /\
      FreshInv'
  BY <1>2, <1>3, SMTT(30) DEF FirstParts, Asking, AnswerTo, Pairing, Stalled, CsdActive, Answered,
     CsdInv, CsdSentInv, XferComing, BufComing, CmdComing, CsdPollInv, Polled, UserInv, AbortInv,
     Rest, RestInv, FreshInv, FactsOfTypes, SameWhere
<1>6. EarlyInv'
  BY DEF FirstParts, Early, Unread, AnswerTo, Asking, EarlyInv, Pairing, Stalled
<1> QED
  BY <1>4, <1>5, <1>6 DEF FirstParts

\* It starts the abort, with nothing under way.
LEMMA AfterAbortStart ==
  ASSUME TypeInv, CalmInv, FirstParts, NothingNew, AbortStart
  PROVE  FirstParts'
<1>1. WhenAbortStart
  BY AtAbortStart
<1> USE <1>1 DEF NothingNew, AbortStart, Respond, TaskUnchanged, WhenAbortStart, readVars,
           streamVars, ctlVars, hostVars, abortVars, csdVars, cmdVars, pfVars
<1>2. WhyInv'
  BY WhyInvFrame DEF FirstParts
<1>3. Pairing' /\ CsdInv' /\ CsdSentInv' /\ PollInv' /\ CsdPollInv' /\ UserInv' /\ ReadInv' /\
      AbortInv' /\ RestInv' /\ FailInv' /\ FreshInv' /\ DataInv'
  BY SMTT(30) DEF FirstParts, Asking, AnswerTo, Pairing, Stalled, CsdActive, Answered, CsdInv,
     CsdSentInv, Polled, XferComing, BufComing, CmdComing, PollInv, CsdPollInv, UserInv, ReadInv,
     AbortInv, Rest, RestInv, FailInv, FreshInv, DataInv
<1>4. EarlyInv'
  BY DEF FirstParts, Early, Unread, AnswerTo, Asking, EarlyInv, Pairing, Stalled
<1> QED
  BY <1>2, <1>3, <1>4 DEF FirstParts

\* mmc_read_task has issued all blocks.
LEMMA AfterReadAllIssued ==
  ASSUME TypeInv, CalmInv, FirstParts, NothingNew, Read, ReadAllIssued
  PROVE  FirstParts'
<1> USE DEF NothingNew, Read, Free, ReadAllIssued, readVars, streamVars, ctlVars, hostVars,
           abortVars, csdVars, cmdVars, pfVars
<1>1. FactsOfTypes
  BY TypesAre
<1>2. SameWhere
  BY Frames
<1>3. Pairing' /\ CsdSentInv' /\ CsdPollInv' /\ WhyInv'
  BY PairingFrame, CsdSentInvFrame, CsdPollInvFrame, WhyInvFrame DEF FirstParts
<1>4. PollInv' /\ ReadInv' /\ AbortInv' /\ RestInv' /\ FailInv' /\ DataInv'
  BY <1>1, <1>2, SMTT(30) DEF FirstParts, Polled, XferComing, BufComing, CmdComing, PollInv,
     ReadInv, Stalled, Answered, AnswerTo, CsdActive, AbortInv, Rest, Asking, RestInv, FailInv,
     DataInv, FactsOfTypes, SameWhere
<1>5. EarlyInv'
  BY DEF FirstParts, Early, Unread, AnswerTo, Asking, EarlyInv, Pairing
<1>6. CsdInv'
  BY DEF FirstParts, CsdActive, Answered, AnswerTo, CsdInv, ReadInv
<1>7. UserInv'
  BY DEF FirstParts, CsdActive, Polled, UserInv, ReadInv
<1>8. FreshInv'
  BY <1>1, <1>2 DEF FirstParts, Asking, Answered, AnswerTo, Stalled, CsdActive, FreshInv, Pairing,
     FactsOfTypes, SameWhere
<1> QED
  BY <1>3, <1>4, <1>5, <1>6, <1>7, <1>8 DEF FirstParts

\* It issues a chunk.
LEMMA AfterReadSendCmd ==
  ASSUME TypeInv, CalmInv, FirstParts, NothingNew, Read, ReadSendCmd
  PROVE  FirstParts'
<1>1. WhenReading /\ held = "nothing"
  BY AtReading DEF Read, Free, ReadSendCmd, Reading
<1>2. NothingReady' <=> NothingReady
  BY DEF NothingReady, TypeInv, PipeInv, PipeTypeOK, BufferTypeOK, Bufs, ReadSendCmd
<1> USE <1>1, <1>2 DEF NothingNew, Read, Free, Reading, Polling, AfterPoll, Failed, Awaited,
           ReadSendCmd, WhenReading, Asking, AnswerTo, readVars, streamVars, ctlVars, hostVars,
           abortVars, csdVars, cmdVars, pfVars
<1>3. FactsOfTypes
  BY TypesAre
<1>4. SameWhere
  BY Frames
<1>5. Pairing' /\ CsdInv' /\ CsdSentInv' /\ WhyInv'
  BY PairingFrame, CsdInvFrame, CsdSentInvFrame, WhyInvFrame DEF FirstParts
<1>6. PollInv' /\ CsdPollInv' /\ UserInv' /\ ReadInv' /\ AbortInv' /\ RestInv' /\ FailInv' /\
      FreshInv' /\ DataInv'
  BY <1>3, <1>4, SMTT(30) DEF FirstParts, Polled, XferComing, BufComing, CmdComing, PollInv,
     CsdActive, CsdPollInv, UserInv, ReadInv, Stalled, Answered, AbortInv, Rest, RestInv, FailInv,
     FreshInv, DataInv, FactsOfTypes, SameWhere
<1>7. EarlyInv'
  BY DEF FirstParts, Early, Unread, EarlyInv, Pairing
<1> QED
  BY <1>5, <1>6, <1>7 DEF FirstParts

\* It ends the read with an error.
LEMMA AfterReadError ==
  ASSUME TypeInv, CalmInv, FirstParts, NothingNew, Read, ReadError
  PROVE  FirstParts'
<1>1. WhenReading /\ held = "nothing"
  BY AtReading DEF Read, Free, ReadError, Reading
<1>2. NothingReady' <=> NothingReady
  BY DEF NothingReady, TypeInv, PipeInv, PipeTypeOK, BufferTypeOK, Books, FillingIsPolled, Polled,
         Polling, Reading, ReadError, FreeActiveBuf, Bufs
<1> USE <1>1, <1>2 DEF NothingNew, Read, Free, Reading, Polling, AfterPoll, Failed, Awaited,
           ReadError, FreeActiveBuf, WhenReading, Asking, AnswerTo, readVars, streamVars, ctlVars,
           hostVars, abortVars, csdVars, cmdVars, pfVars
<1>3. FactsOfTypes
  BY TypesAre
<1>4. SameWhere
  BY Frames
<1>5. Pairing' /\ CsdSentInv' /\ CsdPollInv' /\ WhyInv'
  BY PairingFrame, CsdSentInvFrame, CsdPollInvFrame, WhyInvFrame DEF FirstParts
<1>6. CsdInv' /\ PollInv' /\ ReadInv' /\ AbortInv' /\ RestInv' /\ FailInv' /\ FreshInv' /\ DataInv'
  BY <1>3, <1>4, SMTT(30) DEF FirstParts, CsdActive, Answered, CsdInv, Polled, XferComing,
     BufComing, CmdComing, PollInv, ReadInv, Stalled, AbortInv, Rest, RestInv, FailInv, FreshInv,
     DataInv, FactsOfTypes, SameWhere
<1>7. EarlyInv'
  BY DEF FirstParts, Early, Unread, EarlyInv, Pairing
<1>8. UserInv'
  BY <1>3, <1>4, SMTT(30) DEF FirstParts, CsdActive, Polled, Fresh, Failing, UserInv, FactsOfTypes,
     SameWhere
<1> QED
  BY <1>5, <1>6, <1>7, <1>8 DEF FirstParts

\* It polls the controller.
LEMMA AfterReadPolls ==
  ASSUME TypeInv, CalmInv, FirstParts, NothingNew, Read, ReadWait \/ ReadCmdComplete \/ ReadBulk
  PROVE  FirstParts'
<1>1. WhenReading /\ held = "nothing"
  BY AtReading DEF Read, Free, ReadWait, ReadCmdComplete, ReadBulk, Reading
<1> USE <1>1 DEF NothingNew, Read, Free, Reading, Polling, AfterPoll, Failed, Awaited, ReadWait,
           ReadCmdComplete, ReadBulk, WhenReading, Asking, AnswerTo, readVars, streamVars, ctlVars,
           hostVars, abortVars, csdVars, cmdVars, pfVars
<1>2. FactsOfTypes
  BY TypesAre
<1>3. SameWhere
  BY Frames
<1>4. Pairing' /\ CsdInv' /\ CsdSentInv' /\ WhyInv'
  BY PairingFrame, CsdInvFrame, CsdSentInvFrame, WhyInvFrame DEF FirstParts
<1>5. CsdPollInv' /\ UserInv' /\ ReadInv' /\ AbortInv' /\ RestInv' /\ FailInv' /\ FreshInv' /\
      DataInv'
  BY <1>2, <1>3, SMTT(30) DEF FirstParts, CsdActive, XferComing, BufComing, CmdComing, CsdPollInv,
     Polled, UserInv, ReadInv, Stalled, Answered, AbortInv, Rest, RestInv, FailInv, FreshInv,
     DataInv, FactsOfTypes, SameWhere
<1>6. EarlyInv'
  BY DEF FirstParts, Early, Unread, EarlyInv, Pairing
<1>7. PollInv'
  BY <1>2 DEF FirstParts, Polled, XferComing, BufComing, CmdComing, PollInv, NoBuf, Bufs,
     FactsOfTypes
<1> QED
  BY <1>4, <1>5, <1>6, <1>7 DEF FirstParts

\* It hands a filled buffer over.
LEMMA AfterReadAdvance ==
  ASSUME TypeInv, CalmInv, FirstParts, NothingNew, Read, ReadAdvance
  PROVE  FirstParts'
<1>1. WhenReading /\ held = "nothing"
  BY AtReading DEF Read, Free, ReadAdvance, Reading
<1>2. ~NothingReady'
  BY DEF NothingReady, TypeInv, PipeInv, PipeTypeOK, BufferTypeOK, Bufs, ReadAdvance
<1> USE <1>1, <1>2 DEF NothingNew, Read, Free, Reading, Polling, AfterPoll, Failed, Awaited,
           ReadAdvance, WhenReading, Asking, AnswerTo, readVars, streamVars, ctlVars, hostVars,
           abortVars, csdVars, cmdVars, pfVars
<1>3. FactsOfTypes
  BY TypesAre
<1>4. SameWhere
  BY Frames
<1>5. Pairing' /\ CsdInv' /\ CsdSentInv' /\ WhyInv'
  BY PairingFrame, CsdInvFrame, CsdSentInvFrame, WhyInvFrame DEF FirstParts
<1>6. PollInv' /\ CsdPollInv' /\ ReadInv' /\ AbortInv' /\ RestInv' /\ FreshInv' /\ DataInv'
  BY <1>3, <1>4, SMTT(30) DEF FirstParts, Polled, XferComing, BufComing, CmdComing, PollInv,
     CsdActive, CsdPollInv, ReadInv, Stalled, Answered, AbortInv, Rest, RestInv, FreshInv, DataInv,
     FactsOfTypes, SameWhere
<1>7. EarlyInv'
  BY DEF FirstParts, Early, Unread, EarlyInv, Pairing
<1>8. UserInv'
  BY DEF FirstParts, CsdActive, Polled, XferComing, BufComing, CmdComing, UserInv, PollInv
<1>9. FailInv'
  BY DEF FirstParts, Failing, FailInv
<1> QED
  BY <1>5, <1>6, <1>7, <1>8, <1>9 DEF FirstParts

\* stream_task ends a stream that failed.
LEMMA AfterStreamError ==
  ASSUME TypeInv, CalmInv, FirstParts, NothingNew, Stream, StreamPlain, StreamError
  PROVE  FirstParts'
<1>1. WhenStreaming /\ held = "nothing"
  BY AtStreaming DEF Stream, Free, Streaming, StreamError, StreamWait, StreamSend, StreamSendLast
<1> USE <1>1 DEF NothingNew, Stream, Free, StreamPlain, StreamTurn, StreamError, StreamFailed,
           WhenStreaming, Asking, AnswerTo, readVars, streamVars, ctlVars, hostVars, abortVars,
           csdVars, cmdVars, pfVars
<1>2. FactsOfTypes
  BY TypesAre
<1>3. SameWhere
  BY Frames
<1>4. Pairing' /\ PollInv' /\ WhyInv' /\ FailInv'
  BY PairingFrame, PollInvFrame, WhyInvFrame, FailInvFrame DEF FirstParts
<1>5. CsdInv' /\ CsdSentInv' /\ CsdPollInv' /\ UserInv' /\ ReadInv' /\ AbortInv' /\ RestInv' /\
      FreshInv' /\ DataInv'
  BY <1>2, <1>3, SMTT(30) DEF FirstParts, CsdActive, Answered, CsdInv, CsdSentInv, XferComing,
     BufComing, CmdComing, CsdPollInv, Polled, UserInv, ReadInv, Stalled, AbortInv, Rest, RestInv,
     FreshInv, DataInv, FactsOfTypes, SameWhere
<1>6. EarlyInv'
  BY DEF FirstParts, Early, Unread, EarlyInv, Pairing
<1> QED
  BY <1>4, <1>5, <1>6 DEF FirstParts

\* It sends a packet of a block, or waits for one.
LEMMA AfterStreamBlock ==
  ASSUME TypeInv, CalmInv, FirstParts, NothingNew, Stream, StreamPlain, StreamWait \/ StreamSend \/ StreamSendLast
  PROVE  FirstParts'
<1>1. WhenStreaming /\ held = "nothing"
  BY AtStreaming DEF Stream, Free, Streaming, StreamError, StreamWait, StreamSend, StreamSendLast
<1>2. WhenBlock
  BY AtBlock
<1> USE <1>1, <1>2 DEF NothingNew, Stream, Free, StreamPlain, StreamTurn, Streaming, StreamWait,
           StreamSend, StreamSendLast, ReleaseBlock, StreamFailed, WhenStreaming, Asking, AnswerTo,
           WhenBlock, readVars, streamVars, ctlVars, hostVars, abortVars, csdVars, cmdVars, pfVars
<1>3. Pairing' /\ PollInv' /\ WhyInv' /\ FailInv'
  BY PairingFrame, PollInvFrame, WhyInvFrame, FailInvFrame DEF FirstParts
<1>4. CsdInv' /\ CsdSentInv' /\ CsdPollInv' /\ UserInv' /\ ReadInv' /\ AbortInv'
  BY SMTT(30) DEF FirstParts, CsdActive, Answered, CsdInv, CsdSentInv, XferComing, BufComing,
     CmdComing, CsdPollInv, Polled, UserInv, ReadInv, Stalled, AbortInv
<1>5. EarlyInv'
  BY DEF FirstParts, Early, Unread, EarlyInv, Pairing
<1>6. RestInv'
  BY DEF FirstParts, Stalled, Rest, CsdActive, RestInv, Block
<1>7. FreshInv'
  BY DEF FirstParts, Answered, Stalled, CsdActive, FreshInv, Pairing, Block, Sent
<1>8. DataInv'
  BY DEF FirstParts, DataInv, Block, Sent
<1> QED
  BY <1>3, <1>4, <1>5, <1>6, <1>7, <1>8 DEF FirstParts

\* It waits for the abort.
LEMMA AfterStreamAborting ==
  ASSUME TypeInv, CalmInv, FirstParts, NothingNew, Stream, StreamPlain, StreamAborting
  PROVE  FirstParts'
<1>1. WhenAborting /\ held = "nothing"
  BY AtAborting DEF Stream, Free, StreamAborting
<1> USE <1>1 DEF NothingNew, Stream, Free, StreamPlain, StreamTurn, StreamAborting, WhenAborting,
           readVars, streamVars, ctlVars, hostVars, abortVars, csdVars, cmdVars, pfVars
<1>2. FactsOfTypes
  BY TypesAre
<1>3. SameWhere
  BY Frames
<1>4. Pairing' /\ PollInv' /\ WhyInv' /\ FailInv'
  BY PairingFrame, PollInvFrame, WhyInvFrame, FailInvFrame DEF FirstParts
<1>5. CsdInv' /\ CsdSentInv' /\ CsdPollInv' /\ UserInv' /\ ReadInv' /\ AbortInv' /\ RestInv' /\
      FreshInv' /\ DataInv'
  BY <1>2, <1>3, SMTT(30) DEF FirstParts, CsdActive, Answered, AnswerTo, CsdInv, Stalled, Rest,
     CsdSentInv, XferComing, BufComing, CmdComing, CsdPollInv, Polled, UserInv, ReadInv, AbortInv,
     Asking, RestInv, FreshInv, DataInv, FactsOfTypes, SameWhere
<1>6. EarlyInv'
  BY DEF FirstParts, Early, Unread, AnswerTo, Asking, EarlyInv, Pairing, Stalled, Rest
<1> QED
  BY <1>4, <1>5, <1>6 DEF FirstParts

\* The read of the EXT_CSD fails.
LEMMA AfterCsdError ==
  ASSUME TypeInv, CalmInv, FirstParts, NothingNew, Stream, CsdError
  PROVE  FirstParts'
<1>1. WhenCsd /\ held = "nothing"
  BY AtCsd DEF Stream, Free, CsdError, CsdPolled, CsdTurn
<1> USE <1>1 DEF NothingNew, Stream, Free, CsdTurn, CsdError, WhenCsd, readVars, streamVars,
           ctlVars, hostVars, abortVars, csdVars, cmdVars, pfVars
<1>2. FactsOfTypes
  BY TypesAre
<1>3. SameWhere
  BY Frames
<1>4. Pairing' /\ PollInv' /\ WhyInv'
  BY PairingFrame, PollInvFrame, WhyInvFrame DEF FirstParts
<1>5. CsdSentInv' /\ CsdPollInv' /\ UserInv' /\ ReadInv' /\ AbortInv' /\ RestInv' /\ FailInv' /\
      FreshInv' /\ DataInv'
  BY SMTT(30) DEF FirstParts, CsdSentInv, CsdActive, XferComing, BufComing, CmdComing, CsdPollInv,
     Polled, UserInv, ReadInv, Stalled, Answered, AnswerTo, AbortInv, Rest, Asking, RestInv,
     FailInv, FreshInv, DataInv
<1>6. EarlyInv'
  BY <1>2, <1>3 DEF FirstParts, Early, Unread, AnswerTo, Asking, EarlyInv, Pairing, CsdActive,
     FactsOfTypes, SameWhere
<1>7. CsdInv'
  BY DEF FirstParts, CsdActive, Answered, AnswerTo, Failing, CsdInv, FailInv
<1> QED
  BY <1>4, <1>5, <1>6, <1>7 DEF FirstParts

\* It moves on.
LEMMA AfterCsdNext ==
  ASSUME TypeInv, CalmInv, FirstParts, NothingNew, Stream, CsdNext
  PROVE  FirstParts'
<1>1. WhenCsd /\ held = "nothing"
  BY AtCsd DEF Stream, Free, CsdNext, CsdPolled, CsdTurn
<1> USE <1>1 DEF NothingNew, Stream, Free, CsdTurn, CsdNext, CsdPolled, WhenCsd, readVars,
           streamVars, ctlVars, hostVars, abortVars, csdVars, cmdVars, pfVars
<1>2. FactsOfTypes
  BY TypesAre
<1>3. SameWhere
  BY Frames
<1>4. Pairing' /\ CsdSentInv' /\ ReadInv' /\ WhyInv'
  BY PairingFrame, CsdSentInvFrame, ReadInvFrame, WhyInvFrame DEF FirstParts
<1>5. CsdInv' /\ PollInv' /\ UserInv' /\ AbortInv' /\ RestInv' /\ FailInv' /\ FreshInv' /\ DataInv'
  BY SMTT(30) DEF FirstParts, CsdActive, Answered, AnswerTo, CsdInv, Polled, XferComing, BufComing,
     CmdComing, PollInv, UserInv, Stalled, AbortInv, Rest, Asking, RestInv, FailInv, FreshInv,
     DataInv
<1>6. EarlyInv'
  BY <1>2, <1>3 DEF FirstParts, Early, Unread, AnswerTo, Asking, EarlyInv, Pairing, CsdActive,
     FactsOfTypes, SameWhere
<1>7. CsdPollInv'
  BY DEF FirstParts, CsdActive, XferComing, BufComing, CmdComing, Answered, AnswerTo, CsdPollInv,
     CsdInv, CsdPolls, CsdAwaited
<1> QED
  BY <1>4, <1>5, <1>6, <1>7 DEF FirstParts

\* It fetches the data.
LEMMA AfterCsdReadData ==
  ASSUME TypeInv, CalmInv, FirstParts, NothingNew, Stream, CsdReadData
  PROVE  FirstParts'
<1>1. WhenCsd /\ held = "nothing"
  BY AtCsd DEF Stream, Free, CsdReadData, CsdPolled, CsdTurn
<1> USE <1>1 DEF NothingNew, Stream, Free, CsdTurn, CsdReadData, WhenCsd, readVars, streamVars,
           ctlVars, hostVars, abortVars, csdVars, cmdVars, pfVars
<1>2. FactsOfTypes
  BY TypesAre
<1>3. SameWhere
  BY Frames
<1>4. Pairing' /\ CsdSentInv' /\ ReadInv' /\ WhyInv' /\ FailInv' /\ DataInv'
  BY PairingFrame, CsdSentInvFrame, ReadInvFrame, WhyInvFrame, FailInvFrame, DataInvFrame DEF FirstParts
<1>5. CsdInv' /\ PollInv' /\ CsdPollInv' /\ UserInv' /\ AbortInv' /\ RestInv' /\ FreshInv'
  BY SMTT(30) DEF FirstParts, CsdActive, Answered, AnswerTo, CsdInv, Polled, XferComing, BufComing,
     CmdComing, PollInv, CsdPollInv, UserInv, Stalled, AbortInv, Rest, Asking, RestInv, FreshInv
<1>6. EarlyInv'
  BY <1>2, <1>3 DEF FirstParts, Early, Unread, AnswerTo, Asking, EarlyInv, Pairing, CsdActive,
     FactsOfTypes, SameWhere
<1> QED
  BY <1>4, <1>5, <1>6 DEF FirstParts

\* It is complete, and send_data begins.
LEMMA AfterCsdDone ==
  ASSUME TypeInv, CalmInv, FirstParts, NothingNew, Stream, CsdDone
  PROVE  FirstParts'
<1>1. WhenCsd /\ held = "nothing"
  BY AtCsd DEF Stream, Free, CsdDone, CsdPolled, CsdTurn
<1> USE <1>1 DEF NothingNew, Stream, Free, CsdTurn, CsdDone, CsdPolled, WhenCsd, readVars,
           streamVars, ctlVars, hostVars, abortVars, csdVars, cmdVars, pfVars
<1>2. FactsOfTypes
  BY TypesAre
<1>3. SameWhere
  BY Frames
<1>4. ReadInv' /\ WhyInv'
  BY ReadInvFrame, WhyInvFrame DEF FirstParts
<1>5. Pairing' /\ CsdSentInv' /\ PollInv' /\ CsdPollInv' /\ AbortInv' /\ RestInv' /\ FreshInv' /\
      DataInv'
  BY <1>2, SMTT(30) DEF FirstParts, Asking, AnswerTo, Pairing, CsdActive, CsdSentInv, Polled,
     XferComing, BufComing, CmdComing, PollInv, CsdPollInv, Stalled, Answered, AbortInv, Rest,
     RestInv, FreshInv, DataInv, FactsOfTypes
<1>6. EarlyInv'
  BY <1>2, <1>3 DEF FirstParts, Early, Unread, AnswerTo, Asking, EarlyInv, Pairing, CsdActive,
     FactsOfTypes, SameWhere
<1>7. CsdInv'
  BY DEF FirstParts, CsdActive, Answered, AnswerTo, CsdInv, CsdPolls, CsdAwaited
<1>8. UserInv'
  BY DEF FirstParts, CsdActive, Polled, XferComing, BufComing, CmdComing, UserInv, CsdPollInv,
     CsdPolls, CsdAwaited
<1>9. FailInv'
  BY DEF FirstParts, Failing, AnswerTo, FailInv, CsdAwaited, CsdActive
<1> QED
  BY <1>4, <1>5, <1>6, <1>7, <1>8, <1>9 DEF FirstParts

\* send_data submits a packet of the EXT_CSD.
LEMMA AfterSendData ==
  ASSUME TypeInv, CalmInv, FirstParts, NothingNew, SendData
  PROVE  FirstParts'
<1>1. WhenSending
  BY AtSending DEF SendData, Sending
<1>2. tx' # << >> /\ Len(tx') = Len(tx) + 1
  BY DEF SendData, TypeInv, PipeInv, PipeTypeOK
<1>3. csd_left > 0 /\ csd_left' = csd_left - 1 /\ host' = host /\ stream_state' = stream_state /\ held' = held
       /\ UNCHANGED <<readVars, usb_block, usb_sent, dma, ctlVars, delivered, abortVars, ext_csd_status, ext_csd_state,
                      commands, answer, pfVars>>
  BY DEF SendData, Sending, pfVars, streamVars
<1> USE <1>1, <1>2, <1>3 DEF NothingNew, WhenSending, Asking, AnswerTo, readVars, streamVars,
           ctlVars, hostVars, abortVars, csdVars, cmdVars, pfVars
<1>4. FactsOfTypes
  BY TypesAre
<1>5. SameWhere
  BY Frames
<1>6. Pairing' /\ PollInv' /\ CsdPollInv' /\ UserInv' /\ ReadInv' /\ WhyInv' /\ FailInv'
  BY PairingFrame, PollInvFrame, CsdPollInvFrame, UserInvFrame, ReadInvFrame, WhyInvFrame,
     FailInvFrame DEF FirstParts
<1>7. CsdInv' /\ CsdSentInv' /\ AbortInv' /\ RestInv' /\ FreshInv' /\ DataInv'
  BY <1>4, <1>5, SMTT(30) DEF FirstParts, CsdActive, Answered, CsdInv, CsdSentInv, Stalled,
     AbortInv, Rest, RestInv, FreshInv, DataInv, FactsOfTypes, SameWhere
<1>8. EarlyInv'
  BY <1>4, <1>5 DEF FirstParts, Early, Unread, EarlyInv, Pairing, FactsOfTypes, SameWhere
<1> QED
  BY <1>6, <1>7, <1>8 DEF FirstParts

\* send_data has sent the last of them.
LEMMA AfterDataSent ==
  ASSUME TypeInv, CalmInv, FirstParts, NothingNew, DataSent
  PROVE  FirstParts'
<1>1. WhenSending
  BY AtSending DEF DataSent, Sending
<1> USE <1>1 DEF NothingNew, DataSent, Sending, WhenSending, Asking, AnswerTo, readVars, streamVars,
           ctlVars, hostVars, abortVars, csdVars, cmdVars, pfVars
<1>2. FactsOfTypes
  BY TypesAre
<1>3. SameWhere
  BY Frames
<1>4. PollInv' /\ WhyInv' /\ FailInv'
  BY PollInvFrame, WhyInvFrame, FailInvFrame DEF FirstParts
<1>5. Pairing' /\ CsdInv' /\ CsdSentInv' /\ CsdPollInv' /\ UserInv' /\ ReadInv' /\ AbortInv' /\
      RestInv' /\ FreshInv' /\ DataInv'
  BY SMTT(30) DEF FirstParts, Pairing, CsdActive, Answered, CsdInv, CsdSentInv, XferComing,
     BufComing, CmdComing, CsdPollInv, Polled, UserInv, ReadInv, Stalled, AbortInv, Rest, RestInv,
     FreshInv, DataInv
<1>6. EarlyInv'
  BY <1>2, <1>3 DEF FirstParts, Early, Unread, EarlyInv, Pairing, FactsOfTypes, SameWhere
<1> QED
  BY <1>4, <1>5, <1>6 DEF FirstParts

\* mmc_abort_task resets the controller.
LEMMA AfterAbortReset ==
  ASSUME TypeInv, CalmInv, FirstParts, NothingNew, AbortReset
  PROVE  FirstParts'
<1>1. WhenAborting /\ held = "nothing"
  BY AtAborting DEF AbortReset, AbortTurn
<1> USE <1>1 DEF NothingNew, AbortReset, AbortTurn, Cmd12Over, WhenAborting, readVars, streamVars,
           ctlVars, hostVars, abortVars, csdVars, cmdVars, pfVars
<1>2. Pairing' /\ CsdInv' /\ CsdSentInv' /\ ReadInv' /\ WhyInv'
  BY PairingFrame, CsdInvFrame, CsdSentInvFrame, ReadInvFrame, WhyInvFrame DEF FirstParts
<1>3. PollInv' /\ CsdPollInv' /\ UserInv' /\ AbortInv' /\ RestInv' /\ FailInv' /\ FreshInv' /\
      DataInv'
  BY SMTT(30) DEF FirstParts, Polled, XferComing, BufComing, CmdComing, PollInv, Stalled, Rest,
     CsdActive, CsdPollInv, UserInv, Answered, AnswerTo, AbortInv, Asking, RestInv, FailInv,
     FreshInv, DataInv
<1>4. EarlyInv'
  BY DEF FirstParts, Early, Unread, AnswerTo, Asking, EarlyInv, Pairing, Stalled, Rest
<1> QED
  BY <1>2, <1>3, <1>4 DEF FirstParts

\* It ends the abort.
LEMMA AfterAbortDone ==
  ASSUME TypeInv, CalmInv, FirstParts, NothingNew, AbortDone
  PROVE  FirstParts'
<1>1. WhenAborting /\ held = "nothing"
  BY AtAborting DEF AbortDone, AbortTurn
<1> USE <1>1 DEF NothingNew, AbortDone, AbortTurn, Cmd12Over, WhenAborting, readVars, streamVars,
           ctlVars, hostVars, abortVars, csdVars, cmdVars, pfVars
<1>2. Pairing' /\ CsdSentInv' /\ WhyInv'
  BY PairingFrame, CsdSentInvFrame, WhyInvFrame DEF FirstParts
<1>3. CsdInv' /\ PollInv' /\ CsdPollInv' /\ UserInv' /\ ReadInv' /\ AbortInv' /\ RestInv' /\
      FailInv' /\ FreshInv' /\ DataInv'
  BY SMTT(30) DEF FirstParts, CsdActive, Answered, AnswerTo, CsdInv, Stalled, Rest, Polled,
     XferComing, BufComing, CmdComing, PollInv, CsdPollInv, UserInv, ReadInv, AbortInv, Asking,
     RestInv, FailInv, FreshInv, DataInv
<1>4. EarlyInv'
  BY DEF FirstParts, Early, Unread, AnswerTo, Asking, EarlyInv, Pairing, Stalled, Rest
<1> QED
  BY <1>2, <1>3, <1>4 DEF FirstParts

\* A DMA transfer ends.
LEMMA AfterDma ==
  ASSUME TypeInv, CalmInv, FirstParts, NothingNew, Dma
  PROVE  FirstParts'
<1> USE DEF NothingNew, Dma, DmaDone, Beside, readVars, streamVars, ctlVars, hostVars, abortVars,
           csdVars, cmdVars, pfVars
<1>1. FactsOfTypes
  BY TypesAre
<1>2. SameWhere
  BY Frames
<1>3. Pairing' /\ CsdInv' /\ CsdSentInv' /\ ReadInv' /\ WhyInv' /\ FailInv' /\ DataInv'
  BY PairingFrame, CsdInvFrame, CsdSentInvFrame, ReadInvFrame, WhyInvFrame, FailInvFrame,
     DataInvFrame DEF FirstParts
<1>4. PollInv' /\ CsdPollInv' /\ UserInv' /\ AbortInv' /\ RestInv' /\ FreshInv'
  BY <1>1, <1>2, SMTT(30) DEF FirstParts, Polled, XferComing, BufComing, CmdComing, PollInv,
     CsdActive, CsdPollInv, UserInv, Stalled, Answered, AnswerTo, AbortInv, Rest, Asking, RestInv,
     FreshInv, FactsOfTypes, SameWhere
<1>5. EarlyInv'
  BY DEF FirstParts, Early, Unread, AnswerTo, Asking, EarlyInv, Pairing
<1> QED
  BY <1>3, <1>4, <1>5 DEF FirstParts

\* The controller and the card make a step of a command.
LEMMA AfterController ==
  ASSUME TypeInv, CalmInv, FirstParts, NothingNew, Controller
  PROVE  FirstParts'
<1> USE DEF NothingNew, Controller, Beside, CtlStep, CtlResponse, CtlBufReady, CtlComplete,
           readVars, streamVars, ctlVars, hostVars, abortVars, csdVars, cmdVars, pfVars
<1>1. FactsOfTypes
  BY TypesAre
<1>2. SameWhere
  BY Frames
<1>3. Pairing' /\ CsdInv' /\ CsdSentInv' /\ ReadInv' /\ WhyInv'
  BY PairingFrame, CsdInvFrame, CsdSentInvFrame, ReadInvFrame, WhyInvFrame DEF FirstParts
<1>4. PollInv' /\ CsdPollInv' /\ UserInv' /\ AbortInv' /\ RestInv' /\ FailInv' /\ FreshInv' /\
      DataInv'
  BY <1>1, <1>2, SMTT(30) DEF FirstParts, Polled, XferComing, BufComing, CmdComing, PollInv,
     CsdActive, CsdPollInv, UserInv, Stalled, Answered, AnswerTo, AbortInv, Rest, Asking, RestInv,
     FailInv, FreshInv, DataInv, FactsOfTypes, SameWhere
<1>5. EarlyInv'
  BY <1>1, <1>2 DEF FirstParts, Early, Unread, AnswerTo, Asking, EarlyInv, Pairing, FactsOfTypes,
     SameWhere
<1> QED
  BY <1>3, <1>4, <1>5 DEF FirstParts

\* CMD12 ends.
LEMMA AfterCmd12Done ==
  ASSUME TypeInv, CalmInv, FirstParts, NothingNew, Cmd12Done
  PROVE  FirstParts'
<1>1. WhenStopping
  BY AtCmd12Done
<1> USE <1>1 DEF NothingNew, Cmd12Done, Beside, WhenStopping, readVars, streamVars, ctlVars,
           hostVars, abortVars, csdVars, cmdVars, pfVars
<1>2. FactsOfTypes
  BY TypesAre
<1>3. SameWhere
  BY Frames
<1>4. Pairing' /\ CsdInv' /\ CsdSentInv' /\ ReadInv' /\ WhyInv'
  BY PairingFrame, CsdInvFrame, CsdSentInvFrame, ReadInvFrame, WhyInvFrame DEF FirstParts
<1>5. PollInv' /\ CsdPollInv' /\ UserInv' /\ RestInv' /\ FailInv' /\ FreshInv' /\ DataInv'
  BY <1>2, <1>3, SMTT(30) DEF FirstParts, Polled, XferComing, BufComing, CmdComing, PollInv,
     Stalled, CsdActive, CsdPollInv, UserInv, Rest, AnswerTo, Asking, RestInv, FailInv, Answered,
     FreshInv, DataInv, FactsOfTypes, SameWhere
<1>6. EarlyInv'
  BY DEF FirstParts, Early, Unread, AnswerTo, Asking, EarlyInv, Pairing, Stalled
<1>7. AbortInv'
  BY DEF FirstParts, Stalled, Answered, AnswerTo, CsdActive, AbortInv, Cmd12Over
<1> QED
  BY <1>4, <1>5, <1>6, <1>7 DEF FirstParts

\* The software reset ends.
LEMMA AfterSwResetDone ==
  ASSUME TypeInv, CalmInv, FirstParts, NothingNew, SwResetDone
  PROVE  FirstParts'
<1> USE DEF NothingNew, SwResetDone, Beside, readVars, streamVars, ctlVars, hostVars, abortVars,
           csdVars, cmdVars, pfVars
<1>1. Pairing' /\ EarlyInv' /\ CsdInv' /\ CsdSentInv' /\ PollInv' /\ CsdPollInv' /\ UserInv' /\
      ReadInv' /\ RestInv' /\ WhyInv' /\ FailInv' /\ FreshInv' /\ DataInv'
  BY PairingFrame, EarlyInvFrame, CsdInvFrame, CsdSentInvFrame, PollInvFrame, CsdPollInvFrame,
     UserInvFrame, ReadInvFrame, RestInvFrame, WhyInvFrame, FailInvFrame, FreshInvFrame,
     DataInvFrame DEF FirstParts
<1>2. AbortInv'
  BY DEF FirstParts, Stalled, Answered, AnswerTo, CsdActive, AbortInv
<1> QED
  BY <1>1, <1>2 DEF FirstParts

\* pfcli asks for the EXT_CSD.
LEMMA AfterSendExtCsd ==
  ASSUME TypeInv, CalmInv, FirstParts, NothingNew, SendExtCsd
  PROVE  FirstParts'
<1>1. commands' = <<"READ_EXT_CSD">> /\ answer = "none" /\ held \notin {"data", "answer"}
  BY AtSend DEF SendExtCsd
<1> USE <1>1 DEF NothingNew, SendExtCsd, Send, DeviceUnchanged, KeepPlace, readVars, streamVars,
           ctlVars, hostVars, abortVars, csdVars, cmdVars, pfVars
<1>2. FactsOfTypes
  BY TypesAre
<1>3. SameWhere
  BY Frames
<1>4. PollInv' /\ CsdPollInv' /\ UserInv'
  BY PollInvFrame, CsdPollInvFrame, UserInvFrame DEF FirstParts
<1>5. Pairing' /\ CsdInv' /\ CsdSentInv' /\ ReadInv' /\ AbortInv' /\ RestInv' /\ WhyInv' /\ FailInv'
      /\ FreshInv' /\ DataInv'
  BY SMTT(30) DEF FirstParts, Asking, AnswerTo, Pairing, CsdActive, Answered, CsdInv, CsdSentInv,
     ReadInv, Stalled, AbortInv, Rest, RestInv, WhyInv, FailInv, FreshInv, DataInv
<1>6. EarlyInv'
  BY <1>2, <1>3 DEF FirstParts, Early, Unread, AnswerTo, Asking, EarlyInv, Pairing, FactsOfTypes,
     SameWhere
<1> QED
  BY <1>4, <1>5, <1>6 DEF FirstParts

\* It asks for blocks.
LEMMA AfterSendRead ==
  ASSUME TypeInv, CalmInv, FirstParts, NothingNew, SendRead
  PROVE  FirstParts'
<1>1. commands' = <<"BLOCK_READ">> /\ answer = "none" /\ held \notin {"data", "answer"}
  BY AtSend DEF SendRead
<1> USE <1>1 DEF NothingNew, SendRead, Send, DeviceUnchanged, KeepPlace, readVars, streamVars,
           ctlVars, hostVars, abortVars, csdVars, cmdVars, pfVars
<1>2. FactsOfTypes
  BY TypesAre
<1>3. SameWhere
  BY Frames
<1>4. PollInv' /\ CsdPollInv' /\ UserInv'
  BY PollInvFrame, CsdPollInvFrame, UserInvFrame DEF FirstParts
<1>5. Pairing' /\ CsdSentInv' /\ ReadInv' /\ AbortInv' /\ RestInv' /\ WhyInv' /\ FailInv' /\
      FreshInv' /\ DataInv'
  BY <1>2, <1>3, SMTT(30) DEF FirstParts, Asking, AnswerTo, Pairing, CsdSentInv, ReadInv, Stalled,
     Answered, CsdActive, AbortInv, Rest, RestInv, WhyInv, FailInv, FreshInv, DataInv, FactsOfTypes,
     SameWhere
<1>6. EarlyInv'
  BY DEF FirstParts, Early, Unread, AnswerTo, Asking, EarlyInv, Pairing
<1>7. CsdInv'
  BY DEF FirstParts, CsdActive, Answered, AnswerTo, Asking, CsdInv, Pairing
<1> QED
  BY <1>4, <1>5, <1>6, <1>7 DEF FirstParts

\* It asks for an abort, after a failed request or in cleanup.
LEMMA AfterSendAbort ==
  ASSUME TypeInv, CalmInv, FirstParts, NothingNew, SendAbort
  PROVE  FirstParts'
<1>1. commands' = <<"ABORT">> /\ answer = "none" /\ held \notin {"data", "answer"}
  BY AtSend DEF SendAbort
<1> USE <1>1 DEF NothingNew, SendAbort, Send, DeviceUnchanged, KeepPlace, readVars, streamVars,
           ctlVars, hostVars, abortVars, csdVars, cmdVars, pfVars
<1>2. FactsOfTypes
  BY TypesAre
<1>3. SameWhere
  BY Frames
<1>4. PollInv' /\ CsdPollInv' /\ UserInv'
  BY PollInvFrame, CsdPollInvFrame, UserInvFrame DEF FirstParts
<1>5. CsdSentInv' /\ ReadInv' /\ WhyInv' /\ FailInv' /\ FreshInv' /\ DataInv'
  BY SMTT(30) DEF FirstParts, CsdSentInv, ReadInv, AnswerTo, WhyInv, FailInv, Asking, Answered,
     Stalled, CsdActive, FreshInv, DataInv
<1>6. Pairing'
  BY DEF FirstParts, Asking, AnswerTo, Stalled, Rest, CsdActive, Pairing, RestInv
<1>7. EarlyInv'
  BY DEF FirstParts, Early, Unread, AnswerTo, Asking, EarlyInv, Pairing
<1>8. CsdInv'
  BY DEF FirstParts, CsdActive, Answered, AnswerTo, Asking, CsdInv, Pairing
<1>9. AbortInv'
  BY DEF FirstParts, Stalled, Answered, AnswerTo, CsdActive, Rest, Asking, AbortInv, RestInv
<1>10. RestInv'
  BY <1>2, <1>3 DEF FirstParts, Stalled, Rest, AnswerTo, Asking, CsdActive, Fresh, Failing,
     Answered, RestInv, FreshInv, FactsOfTypes, SameWhere
<1> QED
  BY <1>4, <1>5, <1>6, <1>7, <1>8, <1>9, <1>10 DEF FirstParts

\* It asks for the status.
LEMMA AfterSendStatus ==
  ASSUME TypeInv, CalmInv, FirstParts, NothingNew, SendStatus
  PROVE  FirstParts'
<1>1. commands' = <<"GET_STATUS">> /\ answer = "none" /\ held \notin {"data", "answer"}
  BY AtSend DEF SendStatus
<1> USE <1>1 DEF NothingNew, SendStatus, Send, DeviceUnchanged, KeepPlace, readVars, streamVars,
           ctlVars, hostVars, abortVars, csdVars, cmdVars, pfVars
<1>2. PollInv' /\ CsdPollInv' /\ UserInv'
  BY PollInvFrame, CsdPollInvFrame, UserInvFrame DEF FirstParts
<1>3. Pairing' /\ CsdInv' /\ CsdSentInv' /\ ReadInv' /\ AbortInv' /\ RestInv' /\ WhyInv' /\ FailInv'
      /\ FreshInv' /\ DataInv'
  BY SMTT(30) DEF FirstParts, Asking, AnswerTo, Pairing, CsdActive, Answered, CsdInv, CsdSentInv,
     ReadInv, Stalled, AbortInv, Rest, RestInv, WhyInv, FailInv, FreshInv, DataInv
<1>4. EarlyInv'
  BY DEF FirstParts, Early, Unread, AnswerTo, Asking, EarlyInv, Pairing
<1> QED
  BY <1>2, <1>3, <1>4 DEF FirstParts

\* The next pfcli asks for the version.
LEMMA AfterSendVersion ==
  ASSUME TypeInv, CalmInv, FirstParts, NothingNew, SendVersion
  PROVE  FirstParts'
<1>1. commands' = <<"GET_VERSION">> /\ answer = "none" /\ held \notin {"data", "answer"}
  BY AtSend DEF SendVersion
<1> USE <1>1 DEF NothingNew, SendVersion, Send, DeviceUnchanged, KeepPlace, readVars, streamVars,
           ctlVars, hostVars, abortVars, csdVars, cmdVars, pfVars
<1>2. PollInv' /\ CsdPollInv' /\ UserInv'
  BY PollInvFrame, CsdPollInvFrame, UserInvFrame DEF FirstParts
<1>3. Pairing' /\ CsdInv' /\ CsdSentInv' /\ ReadInv' /\ AbortInv' /\ RestInv' /\ WhyInv' /\ FailInv'
      /\ FreshInv' /\ DataInv'
  BY SMTT(30) DEF FirstParts, Asking, AnswerTo, Pairing, CsdActive, Answered, CsdInv, CsdSentInv,
     ReadInv, Stalled, AbortInv, Rest, RestInv, WhyInv, FailInv, FreshInv, DataInv
<1>4. EarlyInv'
  BY DEF FirstParts, Early, Unread, AnswerTo, Asking, EarlyInv, Pairing
<1> QED
  BY <1>2, <1>3, <1>4 DEF FirstParts

\* pfcli reads an answer.
LEMMA AfterTakeAnswer ==
  ASSUME TypeInv, CalmInv, FirstParts, NothingNew, TakeAnswer
  PROVE  FirstParts'
<1>1. answer = sent /\ held = "answer" /\ Answered(sent)
  BY DEF TakeAnswer, FirstParts, Pairing, Answered, AnswerTo
<1>2. Fresh /\ sent = "BLOCK_READ" => ExactLength'
  BY <1>1, TakeCounts DEF Answered, AnswerTo
<1> USE <1>1, <1>2 DEF NothingNew, TakeAnswer, After, KeepPlace, DeviceUnchanged, Answered,
           AnswerTo, readVars, streamVars, ctlVars, hostVars, abortVars, csdVars, cmdVars, pfVars
<1>3. FactsOfTypes
  BY TypesAre
<1>4. SameWhere
  BY Frames
<1>5. PollInv'
  BY PollInvFrame DEF FirstParts
<1>6. Pairing' /\ CsdPollInv' /\ UserInv' /\ AbortInv' /\ WhyInv' /\ FreshInv'
  BY <1>3, <1>4, SMTT(30) DEF FirstParts, Asking, Pairing, CsdActive, XferComing, BufComing,
     CmdComing, CsdPollInv, Polled, UserInv, Stalled, AbortInv, WhyInv, FreshInv, FactsOfTypes,
     SameWhere
<1>7. EarlyInv'
  BY <1>3, <1>4 DEF FirstParts, Early, Unread, Asking, EarlyInv, Pairing, FactsOfTypes, SameWhere
<1>8. CsdInv'
  BY DEF FirstParts, CsdActive, Asking, CsdInv, Pairing
<1>9. CsdSentInv'
  BY DEF FirstParts, CsdActive, Asking, Early, Unread, CsdSentInv, CsdInv, Pairing, EarlyInv
<1>10. ReadInv'
  BY DEF FirstParts, Fresh, Failing, Asking, Stalled, CsdActive, Rest, ReadInv, FreshInv, RestInv
<1>11. RestInv'
  BY DEF FirstParts, Stalled, Rest, Asking, CsdActive, RestInv, AbortInv
<1>12. FailInv'
  BY DEF FirstParts, CsdActive, FailInv, CsdInv
<1>13. DataInv'
  BY DEF FirstParts, Asking, Stalled, CsdActive, DataInv, FreshInv
<1> QED
  BY <1>5, <1>6, <1>7, <1>8, <1>9, <1>10, <1>11, <1>12, <1>13 DEF FirstParts

\* It reads a packet of the EXT_CSD.
LEMMA AfterReadCsd ==
  ASSUME TypeInv, CalmInv, FirstParts, NothingNew, ReadCsd
  PROVE  FirstParts'
<1> USE DEF NothingNew, ReadCsd, DeviceUnchanged, readVars, streamVars, ctlVars, hostVars,
           abortVars, csdVars, cmdVars, pfVars
<1>1. FactsOfTypes
  BY TypesAre
<1>2. SameWhere
  BY Frames
<1>3. Pairing' /\ PollInv' /\ CsdPollInv' /\ UserInv' /\ ReadInv' /\ WhyInv' /\ FailInv'
  BY PairingFrame, PollInvFrame, CsdPollInvFrame, UserInvFrame, ReadInvFrame, WhyInvFrame,
     FailInvFrame DEF FirstParts
<1>4. CsdInv' /\ CsdSentInv' /\ AbortInv' /\ RestInv' /\ FreshInv' /\ DataInv'
  BY SMTT(30) DEF FirstParts, CsdActive, Answered, AnswerTo, CsdInv, CsdSentInv, Stalled, AbortInv,
     Rest, Asking, RestInv, FreshInv, DataInv
<1>5. EarlyInv'
  BY <1>1, <1>2 DEF FirstParts, Early, Unread, AnswerTo, Asking, EarlyInv, Pairing, FactsOfTypes,
     SameWhere
<1> QED
  BY <1>3, <1>4, <1>5 DEF FirstParts

\* It reads a packet of a block.
LEMMA AfterReadData ==
  ASSUME TypeInv, CalmInv, FirstParts, NothingNew, ReadData
  PROVE  FirstParts'
<1>1. ExactLength => ExactLength'
  BY ReadCounts DEF ReadData
<1> USE <1>1 DEF NothingNew, ReadData, HostRead, readVars, streamVars, ctlVars, hostVars, abortVars,
           csdVars, cmdVars, pfVars
<1>2. FactsOfTypes
  BY TypesAre
<1>3. SameWhere
  BY Frames
<1>4. Pairing' /\ PollInv' /\ CsdPollInv' /\ UserInv' /\ ReadInv' /\ WhyInv' /\ FailInv'
  BY PairingFrame, PollInvFrame, CsdPollInvFrame, UserInvFrame, ReadInvFrame, WhyInvFrame,
     FailInvFrame DEF FirstParts
<1>5. CsdInv' /\ CsdSentInv' /\ AbortInv' /\ RestInv' /\ FreshInv' /\ DataInv'
  BY <1>2, <1>3, SMTT(30) DEF FirstParts, CsdActive, Answered, AnswerTo, CsdInv, CsdSentInv,
     Stalled, AbortInv, Rest, Asking, RestInv, FreshInv, DataInv, FactsOfTypes, SameWhere
<1>6. EarlyInv'
  BY DEF FirstParts, Early, Unread, AnswerTo, Asking, EarlyInv, Pairing
<1> QED
  BY <1>4, <1>5, <1>6 DEF FirstParts

\* It throws a packet away.
LEMMA AfterDrain ==
  ASSUME TypeInv, CalmInv, FirstParts, NothingNew, Drain
  PROVE  FirstParts'
<1> USE DEF NothingNew, Drain, DeviceUnchanged, readVars, streamVars, ctlVars, hostVars, abortVars,
           csdVars, cmdVars, pfVars
<1>1. Pairing' /\ PollInv' /\ CsdPollInv' /\ UserInv' /\ ReadInv' /\ WhyInv' /\ FailInv'
  BY PairingFrame, PollInvFrame, CsdPollInvFrame, UserInvFrame, ReadInvFrame, WhyInvFrame,
     FailInvFrame DEF FirstParts
<1>2. CsdInv' /\ CsdSentInv' /\ AbortInv' /\ RestInv' /\ FreshInv' /\ DataInv'
  BY SMTT(30) DEF FirstParts, CsdActive, Answered, AnswerTo, CsdInv, CsdSentInv, Stalled, AbortInv,
     Rest, Asking, RestInv, FreshInv, DataInv
<1>3. EarlyInv'
  BY DEF FirstParts, Early, Unread, AnswerTo, Asking, EarlyInv, Pairing
<1> QED
  BY <1>1, <1>2, <1>3 DEF FirstParts

\* It has the sector count.
LEMMA AfterCsdComplete ==
  ASSUME TypeInv, CalmInv, FirstParts, NothingNew, CsdComplete
  PROVE  FirstParts'
<1>1. Stalled /\ usb_block = NoBlock /\ usb_sent = 0 /\ ~Failing /\ abort_status # "BUSY" /\ csd_left = 0
  BY CsdCompleteRests
<1> USE <1>1 DEF NothingNew, CsdComplete, Pfcli, DeviceUnchanged, readVars, streamVars, ctlVars,
           hostVars, abortVars, csdVars, cmdVars, pfVars
<1>2. FactsOfTypes
  BY TypesAre
<1>3. SameWhere
  BY Frames
<1>4. PollInv' /\ CsdPollInv' /\ UserInv'
  BY PollInvFrame, CsdPollInvFrame, UserInvFrame DEF FirstParts
<1>5. Pairing' /\ CsdSentInv' /\ ReadInv' /\ AbortInv' /\ WhyInv' /\ FailInv' /\ FreshInv' /\
      DataInv'
  BY <1>2, <1>3, SMTT(30) DEF FirstParts, Asking, AnswerTo, Pairing, Stalled, CsdSentInv, ReadInv,
     Answered, CsdActive, AbortInv, WhyInv, FailInv, FreshInv, DataInv, FactsOfTypes, SameWhere
<1>6. EarlyInv'
  BY DEF FirstParts, Early, Unread, AnswerTo, Asking, EarlyInv, Pairing, Stalled
<1>7. CsdInv'
  BY DEF FirstParts, CsdActive, Answered, AnswerTo, CsdInv, CsdSentInv, Stalled
<1>8. RestInv'
  BY DEF FirstParts, Stalled, Rest, AnswerTo, Asking, CsdActive, Early, Unread, RestInv, EarlyInv
<1> QED
  BY <1>4, <1>5, <1>6, <1>7, <1>8 DEF FirstParts

\* It has no sector count.
LEMMA AfterCsdTimeout ==
  ASSUME TypeInv, CalmInv, FirstParts, NothingNew, CsdTimeout
  PROVE  FirstParts'
<1>1. ext_csd_status = "ERROR"
  BY CsdTimeoutFails
<1> USE <1>1 DEF NothingNew, CsdTimeout, Pfcli, DeviceUnchanged, readVars, streamVars, ctlVars,
           hostVars, abortVars, csdVars, cmdVars, pfVars
<1>2. FactsOfTypes
  BY TypesAre
<1>3. SameWhere
  BY Frames
<1>4. PollInv' /\ CsdPollInv' /\ UserInv'
  BY PollInvFrame, CsdPollInvFrame, UserInvFrame DEF FirstParts
<1>5. Pairing' /\ CsdInv' /\ CsdSentInv' /\ ReadInv' /\ AbortInv' /\ RestInv' /\ WhyInv' /\ FailInv'
      /\ FreshInv' /\ DataInv'
  BY SMTT(30) DEF FirstParts, Asking, AnswerTo, Pairing, CsdActive, Answered, CsdInv, CsdSentInv,
     ReadInv, Stalled, AbortInv, Rest, RestInv, WhyInv, FailInv, FreshInv, DataInv
<1>6. EarlyInv'
  BY <1>2, <1>3 DEF FirstParts, Early, Unread, AnswerTo, Asking, EarlyInv, Pairing, FactsOfTypes,
     SameWhere
<1> QED
  BY <1>4, <1>5, <1>6 DEF FirstParts

\* Without one the dump fails.
LEMMA AfterNoCount ==
  ASSUME TypeInv, CalmInv, FirstParts, NothingNew, NoCount
  PROVE  FirstParts'
<1> USE DEF NothingNew, NoCount, Pfcli, DeviceUnchanged, readVars, streamVars, ctlVars, hostVars,
           abortVars, csdVars, cmdVars, pfVars
<1>1. PollInv' /\ CsdPollInv' /\ UserInv'
  BY PollInvFrame, CsdPollInvFrame, UserInvFrame DEF FirstParts
<1>2. Pairing' /\ CsdInv' /\ CsdSentInv' /\ ReadInv' /\ AbortInv' /\ WhyInv' /\ FailInv' /\ DataInv'
  BY SMTT(30) DEF FirstParts, Asking, AnswerTo, Pairing, CsdActive, Answered, CsdInv, CsdSentInv,
     ReadInv, Stalled, AbortInv, WhyInv, FailInv, DataInv
<1>3. EarlyInv'
  BY DEF FirstParts, Early, Unread, AnswerTo, Asking, EarlyInv, Pairing
<1>4. RestInv'
  BY DEF FirstParts, Stalled, Rest, AnswerTo, Asking, CsdActive, Early, Unread, RestInv, EarlyInv
<1>5. FreshInv'
  BY DEF FirstParts, Asking, Answered, AnswerTo, Stalled, CsdActive, FreshInv, CsdInv
<1> QED
  BY <1>1, <1>2, <1>3, <1>4, <1>5 DEF FirstParts

\* A request is complete.
LEMMA AfterDataComplete ==
  ASSUME TypeInv, CalmInv, FirstParts, NothingNew, DataComplete
  PROVE  FirstParts'
<1>1. Fresh => Stalled /\ usb_block = NoBlock /\ usb_sent = 0 /\ ~Failing
  BY DataCompleteRests
<1> USE <1>1 DEF NothingNew, DataComplete, Pfcli, DeviceUnchanged, readVars, streamVars, ctlVars,
           hostVars, abortVars, csdVars, cmdVars, pfVars
<1>2. FactsOfTypes
  BY TypesAre
<1>3. SameWhere
  BY Frames
<1>4. PollInv' /\ CsdPollInv' /\ UserInv'
  BY PollInvFrame, CsdPollInvFrame, UserInvFrame DEF FirstParts
<1>5. Pairing' /\ CsdInv' /\ CsdSentInv' /\ ReadInv' /\ AbortInv' /\ RestInv' /\ WhyInv' /\
      FreshInv' /\ DataInv'
  BY <1>2, <1>3, SMTT(30) DEF FirstParts, Asking, AnswerTo, Pairing, Stalled, CsdActive, Answered,
     CsdInv, CsdSentInv, ReadInv, AbortInv, Rest, RestInv, WhyInv, FreshInv, DataInv, FactsOfTypes,
     SameWhere
<1>6. EarlyInv'
  BY DEF FirstParts, Early, Unread, AnswerTo, Asking, EarlyInv, Pairing, Stalled
<1>7. FailInv'
  BY <1>2, <1>3, SMTT(30) DEF FirstParts, AnswerTo, FailInv, Fresh, Stalled, FactsOfTypes, SameWhere
<1> QED
  BY <1>4, <1>5, <1>6, <1>7 DEF FirstParts

\* A request has failed.
LEMMA AfterDataTimeout ==
  ASSUME TypeInv, CalmInv, FirstParts, NothingNew, DataTimeout
  PROVE  FirstParts'
<1>1. Stalled /\ (Fresh => Failing)
  BY DataTimeoutStalls, DataTimeoutFails
<1> USE <1>1 DEF NothingNew, DataTimeout, Pfcli, DeviceUnchanged, readVars, streamVars, ctlVars,
           hostVars, abortVars, csdVars, cmdVars, pfVars
<1>2. FactsOfTypes
  BY TypesAre
<1>3. SameWhere
  BY Frames
<1>4. PollInv' /\ CsdPollInv' /\ UserInv'
  BY PollInvFrame, CsdPollInvFrame, UserInvFrame DEF FirstParts
<1>5. Pairing' /\ CsdInv' /\ CsdSentInv' /\ ReadInv' /\ AbortInv' /\ RestInv' /\ FailInv' /\
      FreshInv' /\ DataInv'
  BY <1>2, <1>3, SMTT(30) DEF FirstParts, Asking, AnswerTo, Pairing, Stalled, CsdActive, Answered,
     CsdInv, CsdSentInv, ReadInv, AbortInv, Rest, RestInv, FailInv, FreshInv, DataInv, FactsOfTypes,
     SameWhere
<1>6. EarlyInv'
  BY DEF FirstParts, Early, Unread, AnswerTo, Asking, EarlyInv, Pairing, Stalled
<1>7. WhyInv'
  BY <1>2, <1>3, SMTT(30) DEF FirstParts, AnswerTo, Failing, WhyInv, FailInv, Fresh, Stalled,
     FactsOfTypes, SameWhere
<1> QED
  BY <1>4, <1>5, <1>6, <1>7 DEF FirstParts

\* pf_data_drain has found nothing more.
LEMMA AfterDrainTimeout ==
  ASSUME TypeInv, CalmInv, FirstParts, NothingNew, DrainTimeout
  PROVE  FirstParts'
<1>1. Rest /\ stream_state = "IDLE"
  BY DrainTimeoutRests
<1> USE <1>1 DEF NothingNew, DrainTimeout, Pfcli, DeviceUnchanged, readVars, streamVars, ctlVars,
           hostVars, abortVars, csdVars, cmdVars, pfVars
<1>2. PollInv' /\ CsdPollInv' /\ UserInv'
  BY PollInvFrame, CsdPollInvFrame, UserInvFrame DEF FirstParts
<1>3. Pairing' /\ CsdInv' /\ CsdSentInv' /\ ReadInv' /\ AbortInv' /\ RestInv' /\ WhyInv' /\
      FreshInv' /\ DataInv'
  BY SMTT(30) DEF FirstParts, Asking, AnswerTo, Pairing, Rest, CsdActive, Answered, CsdInv,
     CsdSentInv, ReadInv, Stalled, AbortInv, RestInv, WhyInv, FreshInv, DataInv
<1>4. EarlyInv'
  BY DEF FirstParts, Early, Unread, AnswerTo, Asking, EarlyInv, Pairing, Rest
<1>5. FailInv'
  BY DEF FirstParts, Failing, AnswerTo, FailInv, Rest
<1> QED
  BY <1>2, <1>3, <1>4, <1>5 DEF FirstParts

\* pfcli goes back to its loop.
LEMMA AfterRetry ==
  ASSUME TypeInv, CalmInv, FirstParts, NothingNew, Retry
  PROVE  FirstParts'
<1> USE DEF NothingNew, Retry, Pfcli, DeviceUnchanged, readVars, streamVars, ctlVars, hostVars,
           abortVars, csdVars, cmdVars, pfVars
<1>1. PollInv' /\ CsdPollInv' /\ UserInv'
  BY PollInvFrame, CsdPollInvFrame, UserInvFrame DEF FirstParts
<1>2. Pairing' /\ CsdInv' /\ CsdSentInv' /\ ReadInv' /\ AbortInv' /\ RestInv' /\ WhyInv' /\ FailInv'
      /\ DataInv'
  BY SMTT(30) DEF FirstParts, Asking, AnswerTo, Pairing, CsdActive, Answered, CsdInv, CsdSentInv,
     ReadInv, Stalled, AbortInv, Rest, RestInv, WhyInv, FailInv, DataInv
<1>3. EarlyInv'
  BY DEF FirstParts, Early, Unread, AnswerTo, Asking, EarlyInv, Pairing
<1>4. FreshInv'
  BY DEF FirstParts, Fresh, Failing, Asking, Answered, AnswerTo, Stalled, CsdActive, Rest, FreshInv,
     WhyInv, RestInv
<1> QED
  BY <1>1, <1>2, <1>3, <1>4 DEF FirstParts

\* The first error of the controller.
LEMMA AfterControllerFails ==
  ASSUME TypeInv, CalmInv, FirstParts, ControllerFails, trouble' <= 1
  PROVE  FirstParts'
<1>1. trouble = 0 /\ trouble' = 1 /\ ~interrupted /\ Fresh
  BY TypesAre DEF FactsOfTypes, ControllerFails, Fresh
<1>2. Polled => WhenReading /\ mmc_blocks_issued < mmc_blocks_total
  BY TypesAre, AtReading DEF FactsOfTypes, Polled
<1> USE <1>1, <1>2 DEF ControllerFails, CtlError, CtlStep, Beside, WhenReading, Asking, AnswerTo,
           readVars, streamVars, ctlVars, hostVars, abortVars, csdVars, cmdVars, pfVars
<1>3. FactsOfTypes
  BY TypesAre
<1>4. SameWhere
  BY Frames
<1>5. Pairing' /\ CsdSentInv' /\ ReadInv'
  BY PairingFrame, CsdSentInvFrame, ReadInvFrame DEF FirstParts
<1>6. CsdInv' /\ PollInv' /\ CsdPollInv' /\ UserInv' /\ AbortInv' /\ RestInv' /\ WhyInv' /\
      FreshInv' /\ DataInv'
  BY <1>3, <1>4, SMTT(30) DEF FirstParts, CsdActive, Answered, CsdInv, Polled, XferComing,
     BufComing, CmdComing, PollInv, CsdPollInv, UserInv, Stalled, AbortInv, Rest, RestInv, WhyInv,
     FreshInv, DataInv, FactsOfTypes, SameWhere
<1>7. EarlyInv'
  BY <1>3, <1>4 DEF FirstParts, Early, Unread, EarlyInv, Pairing, FactsOfTypes, SameWhere
<1>8. FailInv'
  BY DEF FirstParts, CsdActive, Polled, Answered, FailInv, UserInv, CsdInv
<1> QED
  BY <1>5, <1>6, <1>7, <1>8 DEF FirstParts

\* The first thing that goes wrong is Ctrl-C.
LEMMA AfterInterrupt ==
  ASSUME TypeInv, CalmInv, FirstParts, Interrupt, trouble' <= 1
  PROVE  FirstParts'
<1>1. trouble = 0 /\ trouble' = 1 /\ interrupted' = TRUE /\ Fresh /\ (Failing' <=> Failing)
  BY TypesAre DEF FactsOfTypes, Interrupt, Fresh, Failing, DeviceUnchanged, readVars, ctlVars, abortVars
<1> USE <1>1 DEF Interrupt, DeviceUnchanged, readVars, streamVars, ctlVars, hostVars, abortVars,
           csdVars, cmdVars, pfVars
<1>2. FactsOfTypes
  BY TypesAre
<1>3. SameWhere
  BY Frames
<1>4. Pairing' /\ EarlyInv' /\ CsdSentInv' /\ PollInv' /\ CsdPollInv' /\ ReadInv' /\ AbortInv' /\
      RestInv'
  BY PairingFrame, EarlyInvFrame, CsdSentInvFrame, PollInvFrame, CsdPollInvFrame, ReadInvFrame,
     AbortInvFrame, RestInvFrame DEF FirstParts
<1>5. CsdInv' /\ UserInv' /\ WhyInv' /\ FailInv' /\ FreshInv' /\ DataInv'
  BY <1>2, <1>3, SMTT(30) DEF FirstParts, CsdActive, Answered, AnswerTo, CsdInv, Polled, UserInv,
     WhyInv, FailInv, Asking, Stalled, FreshInv, DataInv, FactsOfTypes, SameWhere
<1> QED
  BY <1>4, <1>5 DEF FirstParts

-----------------------------------------------------------------------------
(* The invariant and what follows from it.                                 *)

\* A step that changes none of the variables of the session's work keeps all parts.
LEMMA WorkFrame == ASSUME FirstParts, UNCHANGED work PROVE FirstParts'
<1> USE DEF work, readVars, streamVars, ctlVars, hostVars, abortVars, csdVars, cmdVars, pfVars
<1> QED
  BY PairingFrame, EarlyInvFrame, CsdInvFrame, CsdSentInvFrame, PollInvFrame, CsdPollInvFrame,
     UserInvFrame, ReadInvFrame, AbortInvFrame, RestInvFrame, WhyInvFrame, FailInvFrame,
     FreshInvFrame, DataInvFrame DEF FirstParts

\* In an idle turn a task finds nothing to do.
Idling == \/ Poll
          \/ Read /\ (ReadSkip \/ ReadNoBuf)
          \/ Stream /\ (CsdWait \/ (StreamPlain /\ StreamIdle))
          \/ AbortWait

\* An idle turn changes none of them.
LEMMA IdlingFrame == ASSUME Idling, UNCHANGED trouble PROVE UNCHANGED work
BY DEF Idling, Poll, NoCommand, Read, ReadSkip, ReadNoBuf, Reading, Stream, StreamPlain, StreamIdle,
       CsdWait, CsdTurn, AbortWait, AbortTurn, work, readVars, streamVars, ctlVars, hostVars, abortVars, csdVars, cmdVars, pfVars

\* A step with which nothing new goes wrong keeps the parts.
LEMMA CalmStepKeeps ==
  ASSUME TypeInv, CalmInv, FirstParts, NothingNew, SessionNext, ~ControllerFails, ~Interrupt PROVE FirstParts'
<1>1. CASE Idling
  BY <1>1, IdlingFrame, WorkFrame DEF NothingNew
<1>2. CASE CmdTask
  BY <1>1, <1>2, AfterCmdRead, AfterCmdReadExtCsd, AfterCmdGet, AfterCmdAbort, AfterAbortStart DEF CmdTask, Idling
<1>3. CASE Read
  BY <1>1, <1>3, AfterReadAllIssued, AfterReadSendCmd, AfterReadError, AfterReadPolls, AfterReadAdvance
     DEF Idling, Read, ReadTask
<1>4. CASE Stream
  BY <1>1, <1>4, AfterStreamError, AfterStreamBlock, AfterStreamAborting, AfterCsdError, AfterCsdNext,
     AfterCsdReadData, AfterCsdDone DEF Idling, Stream, StreamPlain, StreamTask
<1>5. CASE SendData \/ DataSent
  BY <1>5, AfterSendData, AfterDataSent
<1>6. CASE AbortTask
  BY <1>1, <1>6, AfterAbortReset, AfterAbortDone DEF AbortTask, Idling
<1>7. CASE Dma \/ Controller \/ Cmd12Done \/ SwResetDone
  BY <1>7, AfterDma, AfterController, AfterCmd12Done, AfterSwResetDone
<1>8. CASE SendExtCsd \/ SendRead \/ SendAbort \/ SendStatus \/ SendVersion
  BY <1>8, AfterSendExtCsd, AfterSendRead, AfterSendAbort, AfterSendStatus, AfterSendVersion
<1>9. CASE TakeAnswer \/ AnswerTimeout
  BY <1>9, AfterTakeAnswer, AnswerComes
<1>10. CASE ReadCsd \/ ReadData \/ Drain
  BY <1>10, AfterReadCsd, AfterReadData, AfterDrain
<1>11. CASE CsdComplete \/ CsdTimeout \/ NoCount \/ DataComplete \/ DataTimeout \/ DrainTimeout \/ Retry
  BY <1>11, AfterCsdComplete, AfterCsdTimeout, AfterNoCount, AfterDataComplete, AfterDataTimeout,
     AfterDrainTimeout, AfterRetry
<1> QED
  BY <1>2, <1>3, <1>4, <1>5, <1>6, <1>7, <1>8, <1>9, <1>10, <1>11 DEF SessionNext, Step, DeviceLoop, Host

\* So does the first thing that goes wrong.
LEMMA FirstPartsKept ==
  ASSUME TypeInv, CalmInv, FirstParts, SessionNext, trouble' <= 1 PROVE FirstParts'
<1>1. CASE ControllerFails
  BY <1>1, AfterControllerFails
<1>2. CASE Interrupt
  BY <1>2, AfterInterrupt
<1>3. CASE ~ControllerFails /\ ~Interrupt
  <2>1. UNCHANGED <<trouble, interrupted>>
    BY <1>3, TroubleBefore
  <2>2. NothingNew
    BY <2>1, FailingBefore, FreshBefore DEF NothingNew
  <2> QED
    BY <1>3, <2>2, CalmStepKeeps
<1> QED
  BY <1>1, <1>2, <1>3

\* The parts hold as long as no more than one thing has gone wrong.
LEMMA FirstInvKept == ASSUME TypeInv, CalmInv, FirstInv, SessionNext PROVE FirstInv'
<1> SUFFICES ASSUME trouble' <= 1 PROVE FirstParts'
  BY DEF FirstInv
<1>1. trouble <= 1
  BY TroubleBefore
<1> QED
  BY <1>1, FirstPartsKept DEF FirstInv

\* At the start pfcli has sent nothing and the device is idle.
LEMMA InitFirst == ASSUME SessionInit PROVE LoopInv /\ CalmInv /\ FirstInv
<1> USE SessionBounds, Bounds DEF SessionInit, Init
<1>1. LoopInv /\ CalmInv
  BY DEF LoopInv, CalmInv
<1>2. ~Failing /\ Fresh
  BY DEF Failing, Fresh
<1>3. Pairing /\ CsdInv /\ CsdSentInv /\ PollInv /\ CsdPollInv /\ UserInv /\ ReadInv
  BY DEF Pairing, Asking, Answered, AnswerTo, CsdInv, CsdActive, CsdSentInv, PollInv, Polled, CsdPollInv, UserInv,
         ReadInv
<1>4. EarlyInv
  BY DEF EarlyInv, Early, Unread, NothingReady
<1>5. AbortInv /\ RestInv /\ WhyInv
  BY DEF AbortInv, RestInv, WhyInv, Asking, Answered, AnswerTo
<1>6. FailInv /\ FreshInv /\ DataInv
  BY <1>2 DEF FailInv, FreshInv, DataInv, Asking, Answered, AnswerTo
<1> QED
  BY <1>1, <1>3, <1>4, <1>5, <1>6 DEF FirstInv, FirstParts

\* The inductive invariant of the session.
SessionInv == TypeInv /\ LoopInv /\ CalmInv /\ FirstInv

\* A stutter changes none of its variables.
LEMMA StutterKeepsInv == ASSUME SessionInv, UNCHANGED sessionVars PROVE SessionInv'
<1>1. TypeInv'
  BY StutterKeepsTypes DEF SessionInv
<1>2. UNCHANGED work /\ UNCHANGED <<task, abort_due, calm>>
  BY DEF sessionVars
<1>3. LoopInv' /\ CalmInv'
  BY <1>2 DEF SessionInv, LoopInv, CalmInv, work, readVars, streamVars, ctlVars, hostVars, abortVars, csdVars, cmdVars,
              ReadStuck, Awaited, StreamStuck, Block, GetBuf, FirstPending, Pending, CsdPolls, AbortStuck, Cmd12Over
<1>4. FirstInv'
  <2>1. trouble' = trouble
    BY <1>2 DEF work
  <2> QED
    BY <1>2, <2>1, WorkFrame DEF SessionInv, FirstInv
<1> QED
  BY <1>1, <1>3, <1>4 DEF SessionInv

\* It is inductive.
LEMMA SessionInvKept == SessionInv /\ [SessionNext]_sessionVars => SessionInv'
BY StutterKeepsInv, TypeInvKept, LoopInvKept, CalmInvKept, FirstInvKept DEF SessionInv

\* It holds in every state of the session.
LEMMA SessionInvAlways == SessionSpec => []SessionInv
<1>1. SessionInit => SessionInv
  BY InitTypes, InitFirst DEF SessionInv
<1> QED
  BY <1>1, SessionInvKept, PTL DEF SessionSpec

\* As long as no more than one thing has gone wrong, mmc_abort_task works on a
\* controller that does nothing else: an abort begins only when nothing moves any more.
THEOREM FirstAbortCorrect == SessionSpec => []FirstAbortAlone
<1>1. SessionInv => FirstAbortAlone
  BY DEF SessionInv, FirstInv, FirstParts, AbortInv, Stalled, FirstAbortAlone, AbortAlone
<1> QED
  BY <1>1, SessionInvAlways, PTL

\* So long pf_cmd also reads the answer to the command it has sent.
THEOREM FirstAnswersCorrect == SessionSpec => FirstAnswersPaired
<1>1. SessionInv /\ TakeAnswer /\ trouble <= 1 => answer = sent
  BY DEF SessionInv, FirstInv, FirstParts, Pairing, TakeAnswer
<1>2. SessionInv /\ [SessionNext]_sessionVars => [TakeAnswer /\ trouble <= 1 => answer = sent]_sessionVars
  BY <1>1
<1> QED
  BY <1>2, SessionInvAlways, PTL DEF SessionSpec, FirstAnswersPaired

\* Nor does its timeout run out: the device answers whatever it is doing.
THEOREM FirstAnswersCome == SessionSpec => [][AnswerTimeout => trouble > 1]_sessionVars
<1>1. SessionInv /\ AnswerTimeout => trouble > 1
  <2> SUFFICES ASSUME SessionInv, AnswerTimeout, ~(trouble > 1) PROVE FALSE
    OBVIOUS
  <2>1. trouble <= 1
    BY TypesAre DEF SessionInv, FactsOfTypes
  <2> QED
    BY <2>1, AnswerComes DEF SessionInv, FirstInv
<1>2. SessionInv /\ [SessionNext]_sessionVars => [AnswerTimeout => trouble > 1]_sessionVars
  BY <1>1
<1> QED
  BY <1>2, SessionInvAlways, PTL DEF SessionSpec
=============================================================================
