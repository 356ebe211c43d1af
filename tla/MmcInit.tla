------------------------------ MODULE MmcInit -------------------------------
(***************************************************************************)
(* The initialization of the eMMC (src/mmc/init.c): CMD_INIT_MMC starts    *)
(* three phases, the SMC reset, the opening of the SD host controller and  *)
(* the command sequence that brings the card to the transfer state.  One   *)
(* step per turn of the main loop, with the SMC reset of SmcReset as one   *)
(* of the other tasks.                                                     *)
(*                                                                         *)
(* The code lets two things get in the way.  CMD_RELEASE_MMC and           *)
(* CMD_RESET_SMC reset the SMC in any phase and after it, and the status   *)
(* stays what it was.  And CMD_INIT_MMC stops neither a block read nor an  *)
(* abort of an earlier session: mmc_read_task and mmc_abort_task go on,    *)
(* with the registers the initialization uses.  "undisturbed" says that    *)
(* since the last CMD_INIT_MMC none of this has been the case.             *)
(*                                                                         *)
(* An access to the controller goes through the SMC: while that is not up  *)
(* in debug mode, or a DMA has the bus, a register reads as anything and a *)
(* write is lost.  Assumed of the hardware: a reset of the SMC leaves the  *)
(* controller and the card as they are.                                    *)
(*                                                                         *)
(* Beside the main loop run the timer, the controller's clock and the card.*)
(***************************************************************************)
EXTENDS SmcReset

CONSTANTS
  DelayUs,       \* ticks between two sanity checks: 100000
  MaxRetries,    \* failed sanity checks that are retried: 10
  MaxInits,      \* bound: how often the host sends CMD_INIT_MMC
  MaxIntrusions, \* bound: how often something gets in the way
  MaxTroubles,   \* bound: how many commands and transfers fail and resets are requested
  LeftReads,     \* states a block read of an earlier session may have been left in
  LeftAborts,    \* states an abort of an earlier session may have been left in
  TickUnread     \* bound: whether the timer also runs while nothing reads it

ReadStates == {"FIND_BUF", "POLL_CMD_COMPLETE", "POLL_BUF_READY", "READ_BULK_WAIT",
               "POLL_XFER_COMPLETE"}

AbortStates == {"POLL_CMD12", "POLL_RESET"}

ASSUME InitAssumption ==
  /\ DelayUs \in Nat \ {0} /\ DelayUs + MaxGap < TimerMod
  /\ MaxRetries \in Nat /\ MaxInits \in Nat /\ MaxIntrusions \in Nat \ {0} /\ MaxTroubles \in Nat
  /\ LeftReads \subseteq ReadStates /\ LeftAborts \subseteq AbortStates
  /\ TickUnread \in BOOLEAN

VARIABLES
  turn,          \* whose turn it is in the main loop
  inits,         \* CMD_INIT_MMC commands so far
  intrusions,    \* what got in the way so far: CMD_RELEASE_MMC, CMD_RESET_SMC, tasks left
  undisturbed,   \* history: nothing has got in the way of the initialization
  read_state,    \* of the read left running: its read_state, or "none"
  read_free,     \* its free buffers: nobody consumes the full ones
  abort_state,   \* of the abort left running, or "none"
  status, phase, smc_state, ctrl_state, card_state,
  sanity_retries, delay_start,
  cid, csd,      \* whether stored_cid, stored_csd are of this initialization
  spi_freq,      \* "slow" (5 kHz) or "fast"
  \* the SD host controller
  int_en,        \* the status bits are enabled
  int_status,    \* REG_INT_STATUS
  clk,           \* the internal clock: "off", "starting" or "stable"
  sd_clk,        \* the clock of the card: "off", "slow" or "fast"
  host_bus,      \* HOST_CTRL1_4BIT | HOST_CTRL1_HIGH_SPEED
  running,       \* the command on its way to the card
  troubles,      \* commands and transfers failed and resets requested so far
  \* the card
  card,          \* its state in the JEDEC state diagram
  powered,       \* whether it reports ready to CMD1
  card_ready,    \* the ready bit of the last CMD1 response
  card_hs, card_wide  \* HS_TIMING and BUS_WIDTH of EXT_CSD

initVars == <<status, phase, smc_state, ctrl_state, card_state>>
openVars == <<sanity_retries, delay_start, spi_freq>>
idVars   == <<cid, csd>>
regVars  == <<int_en, clk, sd_clk, host_bus>>
cardVars == <<card, powered, card_ready, card_hs, card_wide>>
cmdVars  == <<int_status, running, troubles>>
hostVars == <<inits, intrusions, undisturbed>>
leftVars == <<read_state, read_free, abort_state>>
loopVars == <<turn, hostVars, leftVars>>
vars == <<smcVars, loopVars, initVars, openVars, idVars, regVars, cmdVars, cardVars>>

-----------------------------------------------------------------------------
(* The states of card_init_step: the command each START state begins, the  *)
(* states that poll for its two completions, and the successor of each.    *)

Begins ==
  [CARD_CMD0 |-> "CMD0", CARD_CMD1_START |-> "CMD1", CARD_CMD2_START |-> "CMD2",
   CARD_CMD3_START |-> "CMD3", CARD_CMD9_START |-> "CMD9", CARD_CMD7_START |-> "CMD7",
   CARD_SWITCH_HS_START |-> "SWITCH_HS", CARD_SWITCH_BW_START |-> "SWITCH_BW",
   CARD_CMD16_START |-> "CMD16"]

CmdPolls == {"CARD_CMD2_POLL", "CARD_CMD3_POLL", "CARD_CMD9_POLL", "CARD_CMD7_POLL",
             "CARD_SWITCH_HS_CMD_POLL", "CARD_SWITCH_BW_CMD_POLL", "CARD_CMD16_POLL"}

XferPolls == {"CARD_SWITCH_HS_XFER_POLL", "CARD_SWITCH_BW_XFER_POLL"}

Successor ==
  [CARD_CMD0 |-> "CARD_CMD0_POLL", CARD_CMD0_POLL |-> "CARD_EMMC_TIMEOUT",
   CARD_EMMC_TIMEOUT |-> "CARD_CMD1_START",
   CARD_CMD1_START |-> "CARD_CMD1_POLL", CARD_CMD1_POLL |-> "CARD_CMD1_CHECK",
   CARD_CMD1_CHECK |-> "CARD_CMD2_START",
   CARD_CMD2_START |-> "CARD_CMD2_POLL", CARD_CMD2_POLL |-> "CARD_CMD3_START",
   CARD_CMD3_START |-> "CARD_CMD3_POLL", CARD_CMD3_POLL |-> "CARD_CMD9_START",
   CARD_CMD9_START |-> "CARD_CMD9_POLL", CARD_CMD9_POLL |-> "CARD_CMD7_START",
   CARD_CMD7_START |-> "CARD_CMD7_POLL", CARD_CMD7_POLL |-> "CARD_SWITCH_HS_START",
   CARD_SWITCH_HS_START |-> "CARD_SWITCH_HS_CMD_POLL",
   CARD_SWITCH_HS_CMD_POLL |-> "CARD_SWITCH_HS_XFER_POLL",
   CARD_SWITCH_HS_XFER_POLL |-> "CARD_SWITCH_BW_START",
   CARD_SWITCH_BW_START |-> "CARD_SWITCH_BW_CMD_POLL",
   CARD_SWITCH_BW_CMD_POLL |-> "CARD_SWITCH_BW_XFER_POLL",
   CARD_SWITCH_BW_XFER_POLL |-> "CARD_HOST_CTRL1",
   CARD_HOST_CTRL1 |-> "CARD_CMD16_START",
   CARD_CMD16_START |-> "CARD_CMD16_POLL", CARD_CMD16_POLL |-> "CARD_FINAL_CLOCK_START",
   CARD_FINAL_CLOCK_START |-> "CARD_FINAL_CLOCK_POLL"]

CardStates == DOMAIN Successor \union {"CARD_FINAL_CLOCK_POLL"}

CtrlStates == {"CTRL_SPI_FREQ", "CTRL_SPI_CONFIG", "CTRL_SANITY_SLOW", "CTRL_SANITY_DELAY",
               "CTRL_SANITY_FAST", "CTRL_CLOCK_START", "CTRL_CLOCK_POLL", "CTRL_INT_ENABLE"}

NothingLeft == read_state = "none" /\ abort_state = "none"

\* What the tasks left over have on the way to the card.
OnBus == CASE abort_state = "POLL_CMD12" -> "CMD12"
           [] abort_state = "none" /\ read_state = "POLL_CMD_COMPLETE" -> "CMD18"
           [] abort_state = "none" /\ read_state = "POLL_BUF_READY" -> "data"
           [] abort_state = "none" /\ read_state \in {"READ_BULK_WAIT", "POLL_XFER_COMPLETE"} -> "stop"
           [] OTHER -> "none"

Init ==
  /\ turn = "cmd" /\ inits = 0
  /\ status = "MMC_IDLE" /\ phase = "PHASE_SMC_RESET" /\ smc_state = "SMC_START"
  /\ ctrl_state = "CTRL_SPI_FREQ" /\ card_state = "CARD_CMD0"
  /\ sanity_retries = 0 /\ delay_start = 0 /\ spi_freq = "slow"
  /\ cid = FALSE /\ csd = FALSE
  /\ troubles = 0 /\ powered = FALSE /\ card_ready = FALSE
  \* The controller and the card are fresh, or as an earlier session left them,
  \* which may also have left a read or an abort going on.
  /\ \E used \in BOOLEAN :
       /\ SmcUp(IF used THEN "debug" ELSE "normal")
       /\ read_state \in {"none"} \union (IF used THEN LeftReads ELSE {})
       /\ abort_state \in {"none"} \union (IF used THEN LeftAborts ELSE {})
       /\ read_free \in IF read_state = "none" THEN {0} ELSE 0 .. 1
       /\ undisturbed = NothingLeft /\ intrusions = (IF NothingLeft THEN 0 ELSE 1)
       /\ running = OnBus
       /\ int_en = used /\ clk = (IF used THEN "stable" ELSE "off")
       /\ sd_clk = (IF used THEN "fast" ELSE "off") /\ host_bus = used
       /\ card = (IF used THEN "tran" ELSE "idle")
       /\ card_hs = used /\ card_wide = used
       /\ int_status \in IF used THEN {{}, {"CMD_COMPLETE", "ERROR"}} ELSE {{}}

-----------------------------------------------------------------------------
(* Accesses to the controller.                                             *)

SmcAnswers == smc = "debug" /\ ~ss_sio

Answers == SmcAnswers /\ read_state # "READ_BULK_WAIT"

\* What a test of a register that holds b may see.
Seen(answers, b) == IF answers THEN {b} ELSE BOOLEAN

Reads(b) == Seen(Answers, b)

\* An access ends with cs_high.  On the RP2040 it is the PIO that drives the pin, and
\* does not reach it while the reset has taken it.
SetPin(level) ==
  /\ ss' = (IF Platform = "ch32v305" THEN level ELSE ss)
  /\ UNCHANGED <<ctrlVars, taskVars, ss_sio, smc, timeVars>>

Access == SetPin("high")

\* cmd_begin: clear the status and send the command.
Send(cmd) ==
  /\ int_status' = IF Answers THEN {} ELSE int_status
  /\ running' = IF Answers THEN cmd ELSE running

Acknowledge(bit) == int_status' = IF Answers THEN int_status \ {bit} ELSE int_status

-----------------------------------------------------------------------------
(* The main loop: cmd_task, mmc_read_task, mmc_abort_task, mmc_init_task,  *)
(* reset_smc_task.  A task that has nothing left to do is passed over.     *)

Trouble == troubles < MaxTroubles /\ troubles' = troubles + 1

Turn(task, next) == turn = task /\ turn' = next

AfterRead == IF abort_state # "none" THEN "abort" ELSE "init"

AfterCmd == IF read_state # "none" THEN "read" ELSE AfterRead

ResumeCard ==
  /\ phase' = "PHASE_SMC_RESET" /\ smc_state' = "SMC_START"
  /\ ctrl_state' = "CTRL_SPI_FREQ" /\ UNCHANGED card_state

\* The states mmc_init_start begins with.
Restart ==
  /\ phase' = "PHASE_SMC_RESET" /\ smc_state' = "SMC_START"
  /\ ctrl_state' = "CTRL_SPI_FREQ" /\ card_state' = "CARD_CMD0"

\* Nothing of an earlier session and no reset of the SMC is going on.
Quiet == NothingLeft /\ ~reset_smc_en /\ running = "none"

CmdInitMmc ==
  /\ Turn("cmd", AfterCmd)
  /\ inits < MaxInits /\ inits' = inits + 1
  /\ undisturbed' = (undisturbed \/ Quiet)
  /\ status' = "MMC_BUSY" /\ Restart
  /\ cid' = FALSE /\ csd' = FALSE
  /\ UNCHANGED <<smcVars, intrusions, leftVars, openVars, regVars, cmdVars, cardVars>>

\* CMD_RELEASE_MMC and CMD_RESET_SMC: nothing but reset_smc_request.
ResetCommand(dbg) ==
  /\ Turn("cmd", AfterCmd)
  /\ intrusions < MaxIntrusions /\ intrusions' = intrusions + 1 /\ Trouble
  /\ undisturbed' = FALSE
  /\ SetRequest(dbg)
  /\ UNCHANGED <<taskVars, pinVars, timeVars, inits, leftVars, initVars, openVars, idVars,
                 regVars, int_status, running, cardVars>>

CmdReleaseMmc == ResetCommand(FALSE)

CmdResetSmc == \E dbg \in BOOLEAN : ResetCommand(dbg)

NoCommand ==
  /\ Turn("cmd", AfterCmd)
  /\ UNCHANGED <<smcVars, hostVars, leftVars, initVars, openVars, idVars, regVars, cmdVars, cardVars>>

-----------------------------------------------------------------------------
(* mmc_read_task of a read left running.  It takes whatever completion     *)
(* there is, and an error ends it.                                         *)

ReadFindBuf ==
  /\ read_state = "FIND_BUF"
  /\ IF read_free = 0 THEN UNCHANGED <<smcVars, read_state, read_free, int_status, running>>
     ELSE /\ read_free' = read_free - 1 /\ read_state' = "POLL_CMD_COMPLETE"
          /\ Access /\ Send("CMD18")

ReadPollCmd ==
  /\ read_state = "POLL_CMD_COMPLETE" /\ Access
  /\ \E error \in Reads("ERROR" \in int_status), complete \in Reads("CMD_COMPLETE" \in int_status) :
       IF error \/ ~complete
       THEN read_state' = (IF error THEN "none" ELSE read_state) /\ UNCHANGED int_status
       ELSE read_state' = "POLL_BUF_READY" /\ Acknowledge("CMD_COMPLETE")
  /\ UNCHANGED <<read_free, running>>

\* The DMA keeps SPI_SS_N low until spi_reg_read_dma_busy finds it finished.
ReadPollBuf ==
  /\ read_state = "POLL_BUF_READY"
  /\ \E error \in Reads("ERROR" \in int_status), ready \in Reads("BUF_READ_READY" \in int_status) :
       IF error \/ ~ready
       THEN read_state' = (IF error THEN "none" ELSE read_state) /\ Access
       ELSE read_state' = "READ_BULK_WAIT" /\ SetPin("low")
  /\ UNCHANGED <<read_free, int_status, running>>

ReadDmaBusy ==
  /\ read_state = "READ_BULK_WAIT"
  /\ UNCHANGED <<smcVars, read_state, read_free, int_status, running>>

\* After the last block the read waits for the stream task, and does nothing more.
Advanced == read_state' \in {"FIND_BUF", "none"}

ReadPollXfer ==
  /\ read_state \in {"READ_BULK_WAIT", "POLL_XFER_COMPLETE"} /\ Access
  /\ \E error \in Seen(SmcAnswers, "ERROR" \in int_status),
        complete \in Seen(SmcAnswers, "XFER_COMPLETE" \in int_status) :
       IF error \/ ~complete
       THEN /\ read_state' = (IF error THEN "none" ELSE "POLL_XFER_COMPLETE")
            /\ UNCHANGED int_status
       ELSE /\ Advanced
            /\ int_status' = IF SmcAnswers THEN int_status \ {"XFER_COMPLETE"} ELSE int_status
  /\ UNCHANGED <<read_free, running>>

ReadTask ==
  /\ Turn("read", AfterRead)
  /\ ReadFindBuf \/ ReadPollCmd \/ ReadPollBuf \/ ReadDmaBusy \/ ReadPollXfer
  /\ UNCHANGED <<hostVars, abort_state, initVars, openVars, idVars, regVars, troubles, cardVars>>

-----------------------------------------------------------------------------
(* mmc_abort_task of an abort left running.                                *)

\* Any end of CMD12 will do; then the command and data lines are reset.
AbortPollCmd12 ==
  /\ abort_state = "POLL_CMD12"
  /\ \E ended \in Reads(int_status \intersect {"CMD_COMPLETE", "ERROR"} # {}) :
       IF ended THEN abort_state' = "POLL_RESET" /\ Send("none")
                ELSE UNCHANGED <<abort_state, int_status, running>>
  /\ UNCHANGED read_state

AbortPollReset ==
  /\ abort_state = "POLL_RESET"
  /\ \/ UNCHANGED <<abort_state, read_state, int_status>>
     \/ /\ abort_state' = "none" /\ read_state' = "none"
        /\ int_status' = IF Answers THEN {} ELSE int_status
  /\ UNCHANGED running

AbortTask ==
  /\ Turn("abort", "init") /\ Access
  /\ AbortPollCmd12 \/ AbortPollReset
  /\ UNCHANGED <<hostVars, read_free, initVars, openVars, idVars, regVars, troubles, cardVars>>

ResetTask ==
  /\ Turn("reset", "cmd")
  /\ ResetSmcTask
  /\ UNCHANGED <<hostVars, leftVars, initVars, openVars, idVars, regVars, cmdVars, cardVars>>

-----------------------------------------------------------------------------
(* mmc_init_task.                                                          *)

InitTurn(p) == Turn("init", "reset") /\ status = "MMC_BUSY" /\ phase = p /\ UNCHANGED <<hostVars, leftVars>>

InitIdle ==
  /\ Turn("init", "reset") /\ status # "MMC_BUSY"
  /\ UNCHANGED <<smcVars, hostVars, leftVars, initVars, openVars, idVars, regVars, cmdVars, cardVars>>

\* smc_reset_step
SmcStart ==
  /\ InitTurn("PHASE_SMC_RESET") /\ smc_state = "SMC_START"
  /\ SetRequest(TRUE)
  /\ smc_state' = "SMC_WAIT"
  /\ UNCHANGED <<taskVars, pinVars, timeVars, status, phase, ctrl_state, card_state,
                 openVars, idVars, regVars, cmdVars, cardVars>>

ResetDone == ~reset_smc_en

SmcWait ==
  /\ InitTurn("PHASE_SMC_RESET") /\ smc_state = "SMC_WAIT"
  /\ phase' = IF ResetDone THEN "PHASE_CONTROLLER_OPEN" ELSE phase
  /\ UNCHANGED <<smcVars, status, smc_state, ctrl_state, card_state,
                 openVars, idVars, regVars, cmdVars, cardVars>>

-----------------------------------------------------------------------------
(* controller_open_step.                                                   *)

CtrlTurn(s) ==
  /\ InitTurn("PHASE_CONTROLLER_OPEN") /\ ctrl_state = s
  /\ UNCHANGED <<smc_state, card_state, idVars, cmdVars, cardVars>>

SpiFreq ==
  /\ CtrlTurn("CTRL_SPI_FREQ") /\ UNCHANGED smcVars
  /\ spi_freq' = "slow" /\ ctrl_state' = "CTRL_SPI_CONFIG"
  /\ UNCHANGED <<status, phase, sanity_retries, delay_start, regVars>>

SpiConfig ==
  /\ CtrlTurn("CTRL_SPI_CONFIG") /\ Access
  /\ sanity_retries' = 0 /\ ctrl_state' = "CTRL_SANITY_SLOW"
  /\ UNCHANGED <<status, phase, delay_start, spi_freq, regVars>>

\* The register reads back what was written only if the SMC answers.
SanityOutcome == IF Answers THEN BOOLEAN ELSE {FALSE}

GiveUpLate(n) == n > MaxRetries + 1

GiveUp(n) == n > MaxRetries

SanityRetryFast ==
  /\ sanity_retries' = sanity_retries + 1
  /\ IF GiveUp(sanity_retries')
     THEN status' = "MMC_ERROR" /\ UNCHANGED <<ctrl_state, delay_start, spi_freq>>
     ELSE ctrl_state' = "CTRL_SANITY_DELAY" /\ delay_start' = now
          /\ UNCHANGED <<status, spi_freq>>

SanityRetry ==
  /\ sanity_retries' = sanity_retries + 1
  /\ IF GiveUp(sanity_retries')
     THEN status' = "MMC_ERROR" /\ UNCHANGED <<ctrl_state, delay_start, spi_freq>>
     ELSE ctrl_state' = "CTRL_SANITY_DELAY" /\ delay_start' = now /\ spi_freq' = "slow"
          /\ UNCHANGED status

SlowPassedAnew ==
  /\ spi_freq' = "fast" /\ ctrl_state' = "CTRL_SANITY_FAST" /\ sanity_retries' = 0
  /\ UNCHANGED <<status, delay_start>>

SlowPassed ==
  /\ spi_freq' = "fast" /\ ctrl_state' = "CTRL_SANITY_FAST"
  /\ UNCHANGED <<status, sanity_retries, delay_start>>

SanitySlow ==
  /\ CtrlTurn("CTRL_SANITY_SLOW") /\ Access
  /\ \E ok \in SanityOutcome : IF ok THEN SlowPassed ELSE SanityRetry
  /\ UNCHANGED <<phase, regVars>>

DelayOver == Elapsed(delay_start) >= DelayUs

SanityDelay ==
  /\ CtrlTurn("CTRL_SANITY_DELAY") /\ UNCHANGED smcVars
  /\ ctrl_state' = IF DelayOver THEN "CTRL_SANITY_SLOW" ELSE ctrl_state
  /\ UNCHANGED <<status, phase, openVars, regVars>>

SanityFast ==
  /\ CtrlTurn("CTRL_SANITY_FAST") /\ Access
  /\ \E ok \in SanityOutcome :
       IF ok THEN ctrl_state' = "CTRL_CLOCK_START" /\ UNCHANGED <<status, openVars>>
             ELSE SanityRetry
  /\ UNCHANGED <<phase, regVars>>

\* clock_begin; the stable bit is already up if the clock was on.
ClockBegin ==
  /\ clk' = (IF Answers /\ clk = "off" THEN "starting" ELSE clk)
  /\ UNCHANGED <<int_en, sd_clk, host_bus>>

\* clock_poll: stop the card's clock, set the divider, start it again.
ClockSet(speed) ==
  /\ sd_clk' = IF Answers THEN speed ELSE sd_clk
  /\ UNCHANGED <<int_en, clk, host_bus>>

ClockStart ==
  /\ CtrlTurn("CTRL_CLOCK_START") /\ Access
  /\ ClockBegin /\ ctrl_state' = "CTRL_CLOCK_POLL"
  /\ UNCHANGED <<status, phase, openVars>>

FinalSpeed == "fast"

IdentSpeed == "slow"

ClockWait ==
  /\ CtrlTurn("CTRL_CLOCK_POLL") /\ Access
  /\ \E stable \in Reads(clk = "stable") :
       IF stable THEN ctrl_state' = "CTRL_INT_ENABLE" /\ ClockSet(IdentSpeed)
                 ELSE UNCHANGED <<ctrl_state, regVars>>
  /\ UNCHANGED <<status, phase, openVars>>

IntEnable ==
  /\ CtrlTurn("CTRL_INT_ENABLE") /\ Access
  /\ int_en' = (int_en \/ Answers) /\ phase' = "PHASE_CARD_INIT"
  /\ UNCHANGED <<status, ctrl_state, openVars, clk, sd_clk, host_bus>>

ControllerOpen == SpiFreq \/ SpiConfig \/ SanitySlow \/ SanityDelay \/ SanityFast
                    \/ ClockStart \/ ClockWait \/ IntEnable

-----------------------------------------------------------------------------
(* card_init_step.                                                         *)

CardTurn(states) ==
  /\ InitTurn("PHASE_CARD_INIT") /\ card_state \in states
  /\ Access
  /\ UNCHANGED <<smc_state, ctrl_state, openVars, cardVars>>

Advance == card_state' = Successor[card_state]

CardStart ==
  /\ CardTurn(DOMAIN Begins)
  /\ Send(Begins[card_state])
  /\ Advance
  /\ UNCHANGED <<status, phase, troubles, idVars, regVars>>

\* cmd_poll_check, xfer_poll_check: wait for a status bit, and clear it.
Outcome(error, complete) == IF error THEN "error" ELSE IF complete THEN "complete" ELSE "busy"

PollCheck(bit) ==
  {Outcome(error, complete) : error \in Reads("ERROR" \in int_status),
                              complete \in Reads(bit \in int_status)}

\* cmd_poll: CMD0 has no response, so errors are not looked at.
Cmd0Poll ==
  /\ CardTurn({"CARD_CMD0_POLL"})
  /\ \E complete \in Reads("CMD_COMPLETE" \in int_status) :
       IF complete THEN Acknowledge("CMD_COMPLETE") /\ Advance
                   ELSE UNCHANGED <<int_status, card_state>>
  /\ UNCHANGED <<status, phase, running, troubles, idVars, regVars>>

EmmcTimeout ==
  /\ CardTurn({"CARD_EMMC_TIMEOUT"})
  /\ Advance
  /\ UNCHANGED <<status, phase, cmdVars, idVars, regVars>>

Cmd1Poll ==
  /\ CardTurn({"CARD_CMD1_POLL"})
  /\ \E outcome \in PollCheck("CMD_COMPLETE") :
       CASE outcome = "error" -> card_state' = "CARD_CMD1_START" /\ UNCHANGED int_status
         [] outcome = "busy" -> UNCHANGED <<card_state, int_status>>
         [] OTHER -> Advance /\ Acknowledge("CMD_COMPLETE")
  /\ UNCHANGED <<status, phase, running, troubles, idVars, regVars>>

Cmd1Once(ready) == Advance

Cmd1Again(ready) == card_state' = (IF ready THEN Successor[card_state] ELSE "CARD_CMD1_START")

Cmd1Check ==
  /\ CardTurn({"CARD_CMD1_CHECK"})
  /\ \E ready \in Reads(card_ready) : Cmd1Again(ready)
  /\ UNCHANGED <<status, phase, cmdVars, idVars, regVars>>

\* The polls that give up on an error; CMD2 and CMD9 store the response.
CardPoll(bit) ==
  /\ \E outcome \in PollCheck(bit) :
       CASE outcome = "error" ->
              status' = "MMC_ERROR" /\ UNCHANGED <<card_state, int_status, idVars>>
         [] outcome = "busy" -> UNCHANGED <<status, card_state, int_status, idVars>>
         [] OTHER -> /\ Advance /\ Acknowledge(bit)
                     /\ cid' = IF card_state = "CARD_CMD2_POLL" THEN Answers ELSE cid
                     /\ csd' = IF card_state = "CARD_CMD9_POLL" THEN Answers ELSE csd
                     /\ UNCHANGED status
  /\ UNCHANGED <<phase, running, troubles, regVars>>

CmdPoll == CardTurn(CmdPolls) /\ CardPoll("CMD_COMPLETE")

XferPoll == CardTurn(XferPolls) /\ CardPoll("XFER_COMPLETE")

HostCtrl1 ==
  /\ CardTurn({"CARD_HOST_CTRL1"})
  /\ host_bus' = (host_bus \/ Answers) /\ Advance
  /\ UNCHANGED <<status, phase, cmdVars, idVars, int_en, clk, sd_clk>>

FinalClockStart ==
  /\ CardTurn({"CARD_FINAL_CLOCK_START"})
  /\ ClockBegin /\ Advance
  /\ UNCHANGED <<status, phase, cmdVars, idVars>>

Done == phase' = "PHASE_DONE" /\ status' = "MMC_DONE" /\ UNCHANGED card_state

FinalClockPoll ==
  /\ CardTurn({"CARD_FINAL_CLOCK_POLL"})
  /\ \E stable \in Reads(clk = "stable") :
       IF stable THEN Done /\ ClockSet(FinalSpeed)
                 ELSE UNCHANGED <<status, phase, card_state, regVars>>
  /\ UNCHANGED <<cmdVars, idVars>>

CardInit == CardStart \/ Cmd0Poll \/ EmmcTimeout \/ Cmd1Poll \/ Cmd1Check
              \/ CmdPoll \/ XferPoll \/ HostCtrl1 \/ FinalClockStart \/ FinalClockPoll

InitTask == InitIdle \/ SmcStart \/ SmcWait \/ ControllerOpen \/ CardInit

-----------------------------------------------------------------------------
(* The SD host controller and the card.                                    *)

CardUnchanged == UNCHANGED <<smcVars, loopVars, initVars, openVars, idVars, regVars>>

\* A status bit is seen only when its enable bit is set.
Latch(bits) == int_status' = IF int_en THEN int_status \union bits ELSE int_status

\* The card state in which the card accepts a command.
AcceptsIn ==
  [CMD1 |-> "idle", CMD2 |-> "ready", CMD3 |-> "ident", CMD9 |-> "stby", CMD7 |-> "stby",
   SWITCH_HS |-> "tran", SWITCH_BW |-> "tran", CMD16 |-> "tran", CMD18 |-> "tran"]

Accepted(c) == c \in DOMAIN AcceptsIn => card = AcceptsIn[c]

CommandOnBus == running \notin {"none", "busy", "data", "stop"} /\ sd_clk # "off"

CardExec ==
  /\ CommandOnBus /\ Accepted(running)
  /\ card' = CASE running = "CMD0" -> "idle"
               [] running = "CMD1" -> (IF powered THEN "ready" ELSE "idle")
               [] running = "CMD2" -> "ident"
               [] running = "CMD3" -> "stby"
               [] running = "CMD7" -> "tran"
               [] OTHER -> card
  /\ card_ready' = IF running = "CMD1" THEN powered ELSE card_ready
  /\ card_hs' = (running # "CMD0" /\ (card_hs \/ running = "SWITCH_HS"))
  /\ card_wide' = (running # "CMD0" /\ (card_wide \/ running = "SWITCH_BW"))
  /\ running' = CASE running \in {"SWITCH_HS", "SWITCH_BW"} -> "busy"
                  [] running = "CMD18" -> "data"
                  [] OTHER -> "none"
  /\ Latch({"CMD_COMPLETE"})
  /\ UNCHANGED <<powered, troubles>>
  /\ CardUnchanged

\* No answer: the card does not accept the command, or the bus fails it.
CardSilent ==
  /\ CommandOnBus /\ running # "CMD0"
  /\ (~Accepted(running) /\ UNCHANGED troubles) \/ Trouble
  /\ running' = "none" /\ Latch({"ERROR"})
  /\ UNCHANGED cardVars /\ CardUnchanged

SwitchDone ==
  /\ running = "busy" /\ sd_clk # "off"
  /\ running' = "none"
  /\ \/ Latch({"XFER_COMPLETE"}) /\ UNCHANGED troubles
     \/ Latch({"ERROR"}) /\ Trouble
  /\ UNCHANGED cardVars /\ CardUnchanged

\* A block of a read has arrived, and the read has been stopped after it.
DataMoves ==
  /\ running \in {"data", "stop"} /\ sd_clk # "off"
  /\ \/ running = "data" /\ running' = "stop" /\ Latch({"BUF_READ_READY"}) /\ UNCHANGED troubles
     \/ running = "stop" /\ running' = "none" /\ Latch({"XFER_COMPLETE"}) /\ UNCHANGED troubles
     \/ running' = "none" /\ Latch({"ERROR"}) /\ Trouble
  /\ UNCHANGED cardVars /\ CardUnchanged

PowerUp ==
  /\ ~powered /\ powered' = TRUE
  /\ UNCHANGED <<card, card_ready, card_hs, card_wide, cmdVars>> /\ CardUnchanged

ClockStable ==
  /\ clk = "starting" /\ clk' = "stable"
  /\ UNCHANGED <<smcVars, loopVars, initVars, openVars, idVars, int_en, sd_clk, host_bus,
                 cmdVars, cardVars>>

\* What compares the timer now: the reset task and the delay.
TimerRead ==
  \/ smc_task = "WAIT_TIMER"
  \/ status = "MMC_BUSY" /\ phase = "PHASE_CONTROLLER_OPEN" /\ ctrl_state = "CTRL_SANITY_DELAY"

TimerTick ==
  /\ TickUnread \/ TimerRead
  /\ Tick
  /\ UNCHANGED <<loopVars, initVars, openVars, idVars, regVars, cmdVars, cardVars>>

MainLoop == CmdInitMmc \/ CmdReleaseMmc \/ CmdResetSmc \/ NoCommand
              \/ ReadTask \/ AbortTask \/ InitTask \/ ResetTask

Answer == CardExec \/ CardSilent \/ SwitchDone \/ DataMoves \/ ClockStable

Device == Answer \/ PowerUp

Next == MainLoop \/ Device \/ TimerTick

Spec == Init /\ [][Next]_vars

\* The main loop and the timer do not stop, the controller and the card answer, and the
\* card is ready some time.
FairSpec == Spec /\ WF_vars(MainLoop) /\ WF_vars(TimerTick)
                 /\ WF_vars(Answer) /\ WF_vars(PowerUp)

-----------------------------------------------------------------------------
(* Properties.                                                             *)

\* Every variable has its type.
TypeOK ==
  /\ SmcTypeOK
  /\ turn \in {"cmd", "read", "abort", "init", "reset"}
  /\ inits \in 0 .. MaxInits /\ intrusions \in 0 .. MaxIntrusions /\ undisturbed \in BOOLEAN
  /\ read_state \in ReadStates \union {"none"} /\ read_free \in 0 .. 1
  /\ abort_state \in AbortStates \union {"none"} /\ troubles \in 0 .. MaxTroubles
  /\ status \in {"MMC_IDLE", "MMC_BUSY", "MMC_DONE", "MMC_ERROR"}
  /\ phase \in {"PHASE_SMC_RESET", "PHASE_CONTROLLER_OPEN", "PHASE_CARD_INIT", "PHASE_DONE"}
  /\ smc_state \in {"SMC_START", "SMC_WAIT"}
  /\ ctrl_state \in CtrlStates /\ card_state \in CardStates
  /\ sanity_retries \in 0 .. MaxRetries + 1 /\ delay_start \in 0 .. TimerMod - 1
  /\ spi_freq \in {"slow", "fast"} /\ cid \in BOOLEAN /\ csd \in BOOLEAN
  /\ int_en \in BOOLEAN
  /\ int_status \subseteq {"CMD_COMPLETE", "BUF_READ_READY", "XFER_COMPLETE", "ERROR"}
  /\ clk \in {"off", "starting", "stable"} /\ sd_clk \in {"off", "slow", "fast"}
  /\ host_bus \in BOOLEAN
  /\ running \in {"none", "busy", "data", "stop", "CMD0", "CMD12"} \union DOMAIN AcceptsIn
  /\ card \in {"idle", "ready", "ident", "stby", "tran"} /\ powered \in BOOLEAN
  /\ card_ready \in BOOLEAN /\ card_hs \in BOOLEAN /\ card_wide \in BOOLEAN

\* mmc_init_status says MMC_DONE only when the card is in the transfer state with
\* the bus set up alike at both ends, and CID and CSD are those just read; until a
\* CMD_RELEASE_MMC or CMD_RESET_SMC, after which it still says so.
ReadyMeansReady ==
  status = "MMC_DONE" /\ undisturbed =>
    /\ card = "tran" /\ card_hs /\ card_wide /\ host_bus /\ sd_clk = "fast"
    /\ cid /\ csd /\ smc = "debug" /\ spi_freq = "fast" /\ int_en

\* In an undisturbed initialization the card never sees a command that it has to refuse
\* in its state, also when CMD_INIT_MMC comes in the middle of another one, after one
\* that failed, or after anything that has come to an end by then; it is identified at
\* the slow clock, and the fast clock only comes on when it is set to the fast timing.
CardRespected ==
  undisturbed =>
    /\ CommandOnBus => Accepted(running)
    /\ running \in {"CMD0", "CMD1", "CMD2", "CMD3"} => sd_clk = "slow"
    /\ phase \in {"PHASE_CARD_INIT", "PHASE_DONE"} /\ sd_clk = "fast" => card_hs

\* While the controller is opened and the card initialized undisturbed the SMC is up in
\* debug mode and its reset task leaves SPI_SS_N alone, whatever the SMC was doing
\* before; the slow sanity check is made at the slow SPI clock, and everything after the
\* fast one at the fast clock.
AccessSound ==
  status = "MMC_BUSY" =>
    /\ undisturbed /\ phase \in {"PHASE_CONTROLLER_OPEN", "PHASE_CARD_INIT"}
         => ~reset_smc_en /\ ss = "high" /\ ~ss_sio /\ smc = "debug"
    /\ phase = "PHASE_CONTROLLER_OPEN" /\ ctrl_state = "CTRL_SANITY_SLOW" => spi_freq = "slow"
    /\ phase = "PHASE_CARD_INIT" => spi_freq = "fast"

\* An undisturbed initialization ends, in MMC_DONE or MMC_ERROR, whatever commands fail
\* on the way and whatever an earlier one left behind.
InitEnds ==
  status = "MMC_BUSY" /\ undisturbed ~> status # "MMC_BUSY" \/ ~undisturbed
=============================================================================
