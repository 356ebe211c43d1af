------------------------------- MODULE Session -------------------------------
(***************************************************************************)
(* A session of pfcli with the device: the dump loop of src/pfcli/main.c   *)
(* with its retries and its Ctrl-C, the commands and answers of pf_cmd     *)
(* (src/pfcli/usb.c) on EP1 and EP2, cmd_task (src/main.c) answering them, *)
(* and the abort state machine (src/mmc/abort.c), around the block-read    *)
(* pipeline of BlockRead.                                                  *)
(*                                                                         *)
(* cmd_task holds up the whole main loop: until the host has read the      *)
(* answer, and for CMD_ABORT first until it has read the data endpoint.    *)
(*                                                                         *)
(* The host's timeouts (5 s, 100 ms for pf_data_drain) are long against    *)
(* everything the device does: one runs out when the main loop is held up  *)
(* or has gone round twice without changing anything, and nothing else is  *)
(* under way.                                                              *)
(***************************************************************************)
EXTENDS BlockRead

CONSTANTS
  Count,         \* blocks per request: DUMP_CHUNK
  MaxLeft,       \* bound: requests of a dump
  MaxRetries,    \* consecutive retries of a request: 5
  MaxTrouble     \* bound: errors of the controller and Ctrl-C, together

ASSUME SessionAssumption ==
  /\ Count \in 1 .. MaxCount /\ 0 \in Lbas
  /\ MaxLeft \in Nat /\ MaxRetries \in Nat /\ MaxTrouble \in Nat

VARIABLES
  abort_status, abort_state,   \* abort.c
  abort_due,     \* in this turn of the main loop mmc_abort_task is still to run
  ext_csd_status, ext_csd_state,   \* init.c
  csd_left,      \* packets of the EXT_CSD that send_data has still to submit
  held,          \* what holds up the main loop: "nothing", "send" (send_data),
                 \* "data" (CMD_ABORT) or "answer" (send_response)
  commands,      \* packets in EP1
  answer,        \* the command whose answer is in EP2, or "none"
  \* the SD host controller
  stop,          \* a CMD12 is under way
  sw_reset,      \* CLK_SW_RESET_CMD_DAT
  \* pfcli
  host,          \* where it is
  sent,          \* the command it waits for the answer of
  left, retries, \* requests to go, retries of this one
  interrupted, quitting,       \* Ctrl-C, and cleanup after it
  trouble,       \* errors and Ctrl-C so far
  calm           \* turns of the main loop since something changed, up to 2

abortVars == <<abort_status, abort_state, stop, sw_reset>>
csdVars   == <<ext_csd_status, ext_csd_state, csd_left>>
cmdVars   == <<held, commands, answer>>
pfVars    == <<host, sent, left, retries, interrupted, quitting>>
work == <<readVars, read_buf, streamVars, dma, ctlVars, hostVars,
          abortVars, csdVars, cmdVars, pfVars, trouble>>
sessionVars == <<task, abort_due, calm, work>>

SessionInit ==
  /\ Init
  /\ abort_status = "IDLE" /\ abort_state = "POLL_CMD12" /\ abort_due = FALSE
  /\ ext_csd_status = "IDLE" /\ ext_csd_state = "IDLE" /\ csd_left = 0
  /\ held = "nothing" /\ commands = << >> /\ answer = "none"
  /\ stop = FALSE /\ sw_reset = FALSE
  /\ host = "start" /\ sent = "none" /\ left = MaxLeft /\ retries = 0
  /\ interrupted = FALSE /\ quitting = FALSE /\ trouble = 0 /\ calm = 0

-----------------------------------------------------------------------------
(* cmd_task.                                                               *)

Free(t) == task = t /\ ~abort_due /\ held = "nothing"

Poll == /\ Free("cmd") /\ commands = << >>
        /\ NoCommand
        /\ UNCHANGED <<abort_due, abortVars, csdVars, cmdVars, pfVars>>

Received(c) == /\ Free("cmd") /\ commands # << >> /\ Head(commands) = c
               /\ commands' = Tail(commands)                \* usb_cmd_rx_consume

\* send_response: submit, then usb_cmd_tx_drain.
Respond(c) == answer' = c /\ held' = "answer" /\ task' = "read"

TaskUnchanged == UNCHANGED <<abort_due, pfVars, readVars, read_buf, usb_block, usb_sent,
                            dma, hostVars>>

CmdRead ==
  /\ Received("BLOCK_READ")
  /\ StartRead(0, Count) /\ stream_state' = "BLOCK_READ"
  /\ Respond("BLOCK_READ")
  /\ UNCHANGED <<abort_due, pfVars, read_buf, usb_block, usb_sent, dma, hostVars,
                 ctlVars, abortVars, csdVars>>

\* With mmc_read_ext_csd_start.
CmdReadExtCsd ==
  /\ Received("READ_EXT_CSD")
  /\ ext_csd_status' = "BUSY" /\ ext_csd_state' = "CMD_POLL"
  /\ int_status' = {} /\ argument' = 0 /\ ctl' = "command"
  /\ stream_state' = "EXT_CSD_READ"
  /\ Respond("READ_EXT_CSD")
  /\ UNCHANGED <<csd_left, abortVars>>
  /\ TaskUnchanged

\* CMD_GET_VERSION and CMD_GET_STATUS change nothing.
CmdGet(c) ==
  /\ Received(c)
  /\ Respond(c)
  /\ UNCHANGED <<stream_state, ctlVars, abortVars, csdVars>>
  /\ TaskUnchanged

CmdAbort ==
  /\ Received("ABORT")
  /\ held' = "data"                                         \* usb_data_tx_drain
  /\ UNCHANGED <<task, answer, stream_state, ctlVars, abortVars, csdVars>>
  /\ TaskUnchanged

\* The rest of CMD_ABORT, with mmc_abort_start.
AbortStart ==
  /\ held = "data" /\ tx = << >>
  /\ abort_status' = "BUSY" /\ abort_state' = "POLL_CMD12"
  /\ int_status' = {} /\ argument' = 0 /\ stop' = TRUE
  /\ stream_state' = "ABORTING"
  /\ Respond("ABORT")
  /\ UNCHANGED <<commands, ctl, sw_reset, csdVars>>
  /\ TaskUnchanged

CmdTask == Poll \/ CmdRead \/ CmdReadExtCsd \/ CmdAbort \/ AbortStart
             \/ \E c \in {"GET_VERSION", "GET_STATUS"} : CmdGet(c)

-----------------------------------------------------------------------------
(* mmc_read_task, stream_task and mmc_abort_task.                          *)

Read == Free("read") /\ ReadTask /\ UNCHANGED <<abort_due, abortVars, csdVars, cmdVars, pfVars>>

\* STREAM_ABORTING
StreamAborting ==
  /\ StreamTurn /\ stream_state = "ABORTING"
  /\ stream_state' = IF abort_status # "BUSY" THEN "IDLE" ELSE "ABORTING"
  /\ UNCHANGED <<readVars, read_buf, usb_block, usb_sent, dma, ctlVars, hostVars>>

StreamPlain == /\ StreamTask \/ StreamAborting
               /\ UNCHANGED <<csdVars, held>>

\* STREAM_EXT_CSD_READ, with mmc_read_ext_csd_task.
CsdTurn == /\ StreamTurn /\ stream_state = "EXT_CSD_READ"
           /\ UNCHANGED <<readVars, read_buf, usb_block, usb_sent, dma, argument, hostVars>>

CsdAwaited == [CMD_POLL       |-> "CMD_COMPLETE",
               BUF_READY_POLL |-> "BUF_READ_READY",
               XFER_POLL      |-> "XFER_COMPLETE"]

CsdPolls == ext_csd_state \in DOMAIN CsdAwaited

CsdError ==
  /\ CsdTurn /\ CsdPolls /\ "ERROR" \in int_status
  /\ ext_csd_status' = "ERROR" /\ stream_state' = "IDLE"
  /\ UNCHANGED <<ext_csd_state, csd_left, held, int_status, ctl>>

CsdWait ==
  /\ CsdTurn /\ CsdPolls
  /\ int_status \cap {"ERROR", CsdAwaited[ext_csd_state]} = {}
  /\ UNCHANGED <<csdVars, stream_state, held, int_status, ctl>>

CsdPolled ==
  /\ CsdTurn /\ CsdPolls
  /\ "ERROR" \notin int_status /\ CsdAwaited[ext_csd_state] \in int_status
  /\ int_status' = int_status \ {CsdAwaited[ext_csd_state]}
  /\ UNCHANGED <<stream_state, ctl>>

CsdNext ==
  /\ CsdPolled /\ ext_csd_state # "XFER_POLL"
  /\ ext_csd_state' = IF ext_csd_state = "CMD_POLL" THEN "BUF_READY_POLL" ELSE "READ_DATA"
  /\ UNCHANGED <<ext_csd_status, csd_left, held>>

\* The SPI transfer is waited for.
CsdReadData ==
  /\ CsdTurn /\ ext_csd_state = "READ_DATA"
  /\ ext_csd_state' = "XFER_POLL"
  /\ ctl' = IF ctl = "data" THEN "drained" ELSE ctl
  /\ UNCHANGED <<ext_csd_status, csd_left, stream_state, held, int_status>>

CsdDone ==
  /\ CsdPolled /\ ext_csd_state = "XFER_POLL"
  /\ ext_csd_status' = "DONE" /\ csd_left' = Chunks /\ held' = "send"
  /\ UNCHANGED ext_csd_state

Stream == /\ Free("stream")
          /\ StreamPlain \/ CsdError \/ CsdWait \/ CsdNext \/ CsdReadData \/ CsdDone
          /\ abort_due' = TRUE /\ UNCHANGED <<abortVars, commands, answer, pfVars>>

\* send_data, and the end of the arm after it.  A packet of the EXT_CSD is no block.
Sending == /\ held = "send"
           /\ UNCHANGED <<task, abort_due, readVars, read_buf, usb_block, usb_sent, dma, ctlVars,
                          delivered, abortVars, ext_csd_status, ext_csd_state, commands, answer,
                          pfVars>>

SendData ==
  /\ Sending /\ csd_left > 0 /\ Len(tx) < TxSlots
  /\ tx' = Append(tx, <<Junk, Chunks - csd_left>>) /\ csd_left' = csd_left - 1
  /\ UNCHANGED <<held, stream_state>>

DataSent ==
  /\ Sending /\ csd_left = 0 /\ tx = << >>
  /\ held' = "nothing" /\ stream_state' = "IDLE" /\ UNCHANGED <<csd_left, tx>>

Cmd12Completed == "CMD_COMPLETE" \in int_status

Cmd12Over == int_status \cap {"CMD_COMPLETE", "ERROR"} # {}

AbortTurn == /\ abort_due /\ held = "nothing" /\ abort_due' = FALSE
             /\ UNCHANGED <<task, read_buf, streamVars, dma, argument, hostVars, csdVars, cmdVars, pfVars,
                            mmc_cur_lba, mmc_blocks_total, mmc_blocks_issued,
                            mmc_blocks_completed, mmc_blocks_consumed, mmc_active_buf,
                            mmc_buf_state, buf_blocks, buf_sent, read_state>>

AbortWait ==
  /\ AbortTurn
  /\ \/ abort_status # "BUSY"
     \/ abort_status = "BUSY" /\ abort_state = "POLL_CMD12" /\ ~Cmd12Over
     \/ abort_status = "BUSY" /\ abort_state = "POLL_RESET" /\ sw_reset
  /\ UNCHANGED <<mmc_bio_status, int_status, ctl, abortVars>>

\* The software reset drops whatever the controller was doing.
AbortReset ==
  /\ AbortTurn
  /\ abort_status = "BUSY" /\ abort_state = "POLL_CMD12" /\ Cmd12Over
  /\ int_status' = {} /\ sw_reset' = TRUE /\ abort_state' = "POLL_RESET"
  /\ ctl' = "idle" /\ stop' = FALSE
  /\ UNCHANGED <<mmc_bio_status, abort_status>>

AbortDone ==
  /\ AbortTurn
  /\ abort_status = "BUSY" /\ abort_state = "POLL_RESET" /\ ~sw_reset
  /\ int_status' = {} /\ mmc_bio_status' = "IDLE" /\ abort_status' = "DONE"
  /\ UNCHANGED <<ctl, abort_state, stop, sw_reset>>

AbortTask == AbortWait \/ AbortReset \/ AbortDone

DeviceLoop == /\ CmdTask \/ Read \/ Stream \/ SendData \/ DataSent \/ AbortTask
              /\ UNCHANGED trouble

-----------------------------------------------------------------------------
(* The SD host controller.                                                 *)

Beside == UNCHANGED <<abort_due, csdVars, cmdVars, pfVars>>

Dma == DmaDone /\ UNCHANGED <<abortVars, trouble>> /\ Beside

Controller == (CtlResponse \/ CtlBufReady \/ CtlComplete) /\ UNCHANGED <<abortVars, trouble>> /\ Beside

ControllerFails == /\ trouble < MaxTrouble /\ trouble' = trouble + 1
                   /\ CtlError /\ UNCHANGED abortVars /\ Beside

\* CMD12 is refused by a card that is not sending.
Cmd12Done ==
  /\ stop /\ stop' = FALSE
  /\ \E bit \in {"CMD_COMPLETE", "ERROR"} : int_status' = int_status \cup {bit}
  /\ UNCHANGED <<task, readVars, read_buf, streamVars, dma, argument, ctl, hostVars,
                 abort_status, abort_state, sw_reset, trouble>>
  /\ Beside

SwResetDone ==
  /\ sw_reset /\ sw_reset' = FALSE
  /\ UNCHANGED <<task, readVars, read_buf, streamVars, dma, ctlVars, hostVars,
                 abort_status, abort_state, stop, trouble>>
  /\ Beside

-----------------------------------------------------------------------------
(* pfcli.                                                                  *)

DeviceUnchanged == UNCHANGED <<task, abort_due, readVars, read_buf, streamVars, dma, ctlVars, abortVars,
                              csdVars>>

\* pf_cmd: the packet goes to EP1, which holds two, then the host waits.
Send(c) ==
  /\ Len(commands) < 2
  /\ commands' = Append(commands, c) /\ sent' = c /\ host' = "answer"
  /\ UNCHANGED <<held, answer, hostVars>> /\ DeviceUnchanged

KeepPlace == UNCHANGED <<left, retries, interrupted, trouble>>

\* get_sector_count
SendExtCsd ==
  /\ host = "start"
  /\ Send("READ_EXT_CSD") /\ KeepPlace /\ UNCHANGED quitting

\* The loop of cmd_dump
SendRead ==
  /\ host = "loop" /\ left > 0 /\ ~interrupted
  /\ Send("BLOCK_READ") /\ KeepPlace /\ UNCHANGED quitting

\* After a failed request, or in cleanup.
SendAbort ==
  /\ \/ host = "failed" /\ UNCHANGED quitting
     \/ host = "loop" /\ interrupted /\ quitting' = TRUE
  /\ Send("ABORT") /\ KeepPlace

SendStatus ==
  /\ host = "drained" /\ ~quitting
  /\ Send("GET_STATUS") /\ KeepPlace /\ UNCHANGED quitting

\* After pf_usb_close the next pfcli begins with CMD_GET_VERSION.
SendVersion ==
  /\ host = "drained" /\ quitting
  /\ Send("GET_VERSION") /\ KeepPlace /\ UNCHANGED quitting

After(ok) ==
  CASE sent = "READ_EXT_CSD" -> IF ok THEN "csd" ELSE "no_count"
    [] sent = "BLOCK_READ" -> IF ok THEN "data" ELSE "failed"
    [] sent = "ABORT"      -> "drain"
    [] sent = "GET_STATUS" -> "retry"
    [] OTHER               -> "closed"

TakeAnswer ==
  /\ host = "answer" /\ answer # "none"
  /\ answer' = "none" /\ held' = "nothing"
  /\ host' = After(TRUE) /\ sent' = "none"
  /\ delivered' = IF sent \in {"BLOCK_READ", "READ_EXT_CSD"} THEN << >> ELSE delivered
  /\ KeepPlace /\ UNCHANGED <<commands, tx, quitting>> /\ DeviceUnchanged

\* Nothing more will happen before a timeout.
Quiet ==
  /\ dma = NoBuf /\ ctl \in {"idle", "data"} /\ ~stop /\ ~sw_reset
  /\ \/ held = "data" /\ tx # << >>
     \/ held = "answer"
     \/ held = "send" /\ tx # << >> /\ (csd_left = 0 \/ Len(tx) = TxSlots)
     \/ task = "stream" /\ stream_state = "BLOCK_READ" /\ StreamFailed /\ tx # << >>
     \/ calm = 2

Pfcli(state) == /\ host = state
                /\ UNCHANGED <<cmdVars, tx, delivered, interrupted, quitting, trouble>> /\ DeviceUnchanged

AnswerTimeout ==
  /\ Pfcli("answer") /\ answer = "none" /\ Quiet
  /\ host' = After(FALSE) /\ sent' = "none" /\ UNCHANGED <<left, retries>>

\* The second half of get_sector_count: without a count the dump fails.
ReadCsd ==
  /\ host = "csd" /\ tx # << >> /\ Len(delivered) < Chunks
  /\ delivered' = Append(delivered, Head(tx)) /\ tx' = Tail(tx)
  /\ UNCHANGED <<cmdVars, pfVars, trouble>> /\ DeviceUnchanged

CsdComplete ==
  /\ Pfcli("csd") /\ Len(delivered) = Chunks
  /\ host' = "loop" /\ UNCHANGED <<sent, left, retries>>

CsdTimeout ==
  /\ Pfcli("csd") /\ Len(delivered) < Chunks /\ tx = << >> /\ Quiet
  /\ host' = "no_count" /\ UNCHANGED <<sent, left, retries>>

NoCount ==
  /\ Pfcli("no_count")
  /\ host' = (IF interrupted THEN "loop" ELSE "closed") /\ UNCHANGED <<sent, left, retries>>

Complete == Len(delivered) = Count * Chunks

ReadData == /\ host = "data" /\ HostRead
            /\ UNCHANGED <<abort_due, abortVars, csdVars, cmdVars, pfVars, trouble>>

DataComplete ==
  /\ Pfcli("data") /\ Complete
  /\ host' = "loop" /\ left' = left - 1 /\ retries' = 0 /\ UNCHANGED sent

DataTimeout ==
  /\ Pfcli("data") /\ ~Complete /\ tx = << >> /\ Quiet
  /\ host' = "failed" /\ UNCHANGED <<sent, left, retries>>

\* pf_data_drain
Drain ==
  /\ host = "drain" /\ tx # << >> /\ tx' = Tail(tx)
  /\ UNCHANGED <<delivered, cmdVars, pfVars, trouble>> /\ DeviceUnchanged

DrainTimeout ==
  /\ Pfcli("drain") /\ tx = << >> /\ Quiet
  /\ host' = "drained" /\ UNCHANGED <<sent, left, retries>>

Retry ==
  /\ Pfcli("retry")
  /\ retries' = retries + 1
  /\ host' = IF retries' > MaxRetries /\ ~interrupted THEN "closed" ELSE "loop"
  /\ UNCHANGED <<sent, left>>

\* sigint_handler; the flag is only looked at between requests.
Interrupt ==
  /\ trouble < MaxTrouble /\ trouble' = trouble + 1
  /\ ~interrupted /\ interrupted' = TRUE
  /\ host \notin {"closed"} /\ left > 0
  /\ UNCHANGED <<host, sent, left, retries, quitting, cmdVars, hostVars>> /\ DeviceUnchanged

Host == SendExtCsd \/ ReadCsd \/ CsdComplete \/ CsdTimeout \/ NoCount \/ SendRead \/ SendAbort \/ SendStatus \/ SendVersion \/ TakeAnswer \/ AnswerTimeout
          \/ ReadData \/ DataComplete \/ DataTimeout \/ Drain \/ DrainTimeout \/ Retry

Calm == calm' = IF work' # work THEN 0
                ELSE IF Free("cmd") /\ calm < 2 THEN calm + 1 ELSE calm

Step == DeviceLoop \/ Dma \/ Controller \/ ControllerFails \/ Cmd12Done \/ SwResetDone
          \/ Host \/ Interrupt

SessionNext == Step /\ Calm

SessionSpec == SessionInit /\ [][SessionNext]_sessionVars

\* The main loop keeps turning, DMA, card and controller come to an end, and
\* pfcli keeps reading and times out; errors and Ctrl-C are up to chance.
SessionFairness ==
  /\ WF_sessionVars(DeviceLoop /\ Calm)
  /\ WF_sessionVars(Dma /\ Calm)
  /\ WF_sessionVars(Controller /\ Calm)
  /\ WF_sessionVars(Cmd12Done /\ Calm) /\ WF_sessionVars(SwResetDone /\ Calm)
  /\ WF_sessionVars(Host /\ Calm)

SessionFairSpec == SessionSpec /\ SessionFairness

-----------------------------------------------------------------------------
(* Properties.                                                             *)

Commands == {"READ_EXT_CSD", "BLOCK_READ", "ABORT", "GET_STATUS", "GET_VERSION"}

\* Every variable keeps to its range; the counters of read.c do so through the
\* aborts and retries as well.
SessionTypeOK ==
  /\ BufferTypeOK /\ ReadTypeOK /\ SpiTypeOK
  /\ stream_state \in {"IDLE", "BLOCK_READ", "EXT_CSD_READ", "ABORTING"}
  /\ usb_block \in BlockRefs /\ usb_sent \in 0 .. Chunks - 1
  /\ abort_status \in {"IDLE", "BUSY", "DONE"}
  /\ abort_state \in {"POLL_CMD12", "POLL_RESET"}
  /\ ext_csd_status \in {"IDLE", "BUSY", "DONE", "ERROR"} /\ csd_left \in 0 .. Chunks
  /\ ext_csd_state \in {"IDLE", "READ_DATA"} \cup DOMAIN CsdAwaited
  /\ abort_due \in BOOLEAN /\ stop \in BOOLEAN /\ sw_reset \in BOOLEAN
  /\ held \in {"nothing", "send", "data", "answer"}
  /\ commands \in Seq(Commands) /\ Len(commands) <= 2
  /\ answer \in Commands \cup {"none"} /\ sent \in Commands \cup {"none"}
  /\ host \in {"start", "csd", "no_count", "loop", "answer", "data", "failed", "drain", "drained", "retry", "closed"}
  /\ left \in 0 .. MaxLeft /\ retries \in 0 .. MaxRetries + 1
  /\ interrupted \in BOOLEAN /\ quitting \in BOOLEAN /\ trouble \in 0 .. MaxTrouble /\ calm \in 0 .. 2

\* "Send a command packet and read one response packet" (pfcli/usb.h): what
\* pf_cmd reads from EP2 is the answer to the command it has just sent.  The code
\* does not keep this, see README.
AnswersPaired == [][TakeAnswer => answer = sent]_sessionVars

\* It does as long as no more than one thing has gone wrong.
FirstAnswersPaired == [][TakeAnswer /\ trouble <= 1 => answer = sent]_sessionVars

\* "stop active stream" (protocol.h): an abort comes to its end whatever the card
\* and the controller were doing, unless pfcli has gone with an answer unread and
\* left the main loop held up.  The code does not keep this, see README.
AbortEnds == abort_status = "BUSY" ~>
               abort_status # "BUSY" \/ (host = "closed" /\ held = "answer")

\* It does unless a second thing goes wrong.
FirstAbortEnds == abort_status = "BUSY" ~>
                    abort_status # "BUSY" \/ (host = "closed" /\ held = "answer") \/ trouble > 1

\* While mmc_abort_task works on the controller no DMA runs on the SPI bus and
\* the read task issues nothing: the two never drive the controller together.
\* The code does not keep this either, since a request that was retried may be
\* complete for pfcli before it is for the device.
AbortAlone == abort_status = "BUSY" => dma = NoBuf /\ ctl = "idle"

\* It does as long as no more than one thing has gone wrong.
FirstAbortAlone == trouble <= 1 => AbortAlone

\* "Dump complete (n recovered errors)": fewer errors in a row than pfcli has
\* retries for never keep it from getting all its requests, once it has read the
\* sector count.
DumpCompletes ==
  <>(left = 0 \/ (host = "closed" /\ (interrupted \/ trouble > MaxRetries \/ ext_csd_status = "ERROR")))

\* The blocks a request is completed with are the ones it asked for, also after
\* errors pfcli reports as recovered.  The code does not keep this, see README.
BlocksAsAsked ==
  [][DataComplete =>
       \A i \in 1 .. Len(delivered) :
         delivered[i] = <<mmc_cur_lba + (i - 1) \div Chunks, (i - 1) % Chunks>>]_sessionVars
=============================================================================
