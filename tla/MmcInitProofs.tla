---------------------------- MODULE MmcInitProofs ----------------------------
(***************************************************************************)
(* What SmcReset and, around it, MmcInit promise, on both platforms and    *)
(* for every timer, delay, pace of the main loop and number of retries,    *)
(* initializations, disturbances and troubles.                             *)
(*                                                                         *)
(* For SmcReset there are three inductive invariants: the types; HoldInv,  *)
(* which ties the time the task has measured to the time the line was low; *)
(* and PinInv, which follows the pin through a reset.  For MmcInit the     *)
(* invariant has a part that holds always, how the nested state machines   *)
(* go together, and parts about an undisturbed initialization, which say   *)
(* what each state stands for: of the reset and its pin, of the clocks, of *)
(* the command on its way to the card, of the card itself, and of what has *)
(* been set up by then.                                                    *)
(***************************************************************************)
EXTENDS MmcInit, TLAPS

-----------------------------------------------------------------------------
(* The SMC reset: the types.                                               *)

\* The types hold at the start.
LEMMA SmcInitType == ASSUME NEW mode \in {"debug", "normal"}, SmcUp(mode) PROVE SmcTypeOK
<1>1. reset_smc_en \in BOOLEAN /\ reset_smc_dbg \in BOOLEAN /\ ss_sio \in BOOLEAN
  BY Zenon DEF SmcUp
<1>2. wait_start \in 0 .. TimerMod - 1 /\ gap \in 0 .. MaxGap /\ held \in 0 .. HoldUs
  BY SmcAssumption DEF SmcAssumption, SmcUp
<1> QED
  BY <1>1, <1>2 DEF SmcUp, SmcTypeOK

\* Every step keeps them.
LEMMA SmcTypeStep == ASSUME SmcTypeOK, [SmcNext]_smcVars PROVE SmcTypeOK'
<1> USE SmcAssumption DEF SmcAssumption, SmcTypeOK, ctrlVars, taskVars, pinVars, timeVars
<1>1. ASSUME NEW dbg \in BOOLEAN, Request(dbg) PROVE SmcTypeOK'
  BY <1>1 DEF Request, SetRequest
<1>2. CASE TaskIdle
  BY <1>2 DEF TaskIdle
<1>3. CASE AssertRst
  <2>1. ss_sio' \in BOOLEAN /\ ss' \in {"high", "low"}
    BY <1>3, Zenon DEF AssertRst, AssertSs
  <2>2. held' \in 0 .. HoldUs /\ gap' \in 0 .. MaxGap
    BY <1>3 DEF AssertRst, SmcTurn
  <2> QED
    BY <1>3, <2>1, <2>2 DEF AssertRst, SmcTurn
<1>4. CASE StartTimer
  BY <1>4 DEF StartTimer, SmcTurn
<1>5. CASE WaitTimer
  BY <1>5 DEF WaitTimer, SmcTurn
<1>6. CASE DeassertRst
  <2>1. reset_smc_en' \in BOOLEAN /\ ss_sio' \in BOOLEAN /\ ss' \in {"high", "low"}
    BY <1>6, Zenon DEF DeassertRst, DeassertSs
  <2>2. gap' \in 0 .. MaxGap
    BY <1>6 DEF DeassertRst, BackToStart, SmcTurn
  <2> QED
    BY <1>6, <2>1, <2>2 DEF DeassertRst, BackToStart, SmcTurn, ReleasedAs
<1>7. CASE Tick
  BY <1>7 DEF Tick, NextTime
<1>8. CASE UNCHANGED smcVars
  BY <1>8 DEF smcVars
<1> QED
  BY <1>1, <1>2, <1>3, <1>4, <1>5, <1>6, <1>7, <1>8
  DEF SmcNext, ResetSmcTask

\* Every variable of the SMC reset keeps its type.
THEOREM SmcTypeCorrect == SmcSpec => []SmcTypeOK
<1>1. SmcInit => SmcTypeOK
  BY SmcInitType DEF SmcInit
<1> QED
  BY <1>1, SmcTypeStep, PTL DEF SmcSpec

-----------------------------------------------------------------------------
(* The SMC reset: the hold time (CH32V305).                                *)

\* The reset line is low exactly from ASSERT_RST to DEASSERT_RST, and what the
\* task has measured by then is no more than the line has been low.
HoldInv ==
  /\ smc_task = "ASSERT_RST" <=> smc # "reset"
  /\ smc_task = "WAIT_TIMER" => held = HoldUs \/ Elapsed(wait_start) <= held
  /\ smc_task = "DEASSERT_RST" => held = HoldUs

\* A tick adds at most one to the time measured from any point.
LEMMA TickElapsed ==
  ASSUME SmcTypeOK, Tick PROVE Elapsed(wait_start)' <= Elapsed(wait_start) + 1
BY SmcAssumption DEF SmcAssumption, SmcTypeOK, Tick, NextTime, Elapsed, taskVars

\* HoldInv is kept by every step of the CH32V305 task and its environment.
LEMMA HoldInvStep ==
  ASSUME Platform = "ch32v305", SmcTypeOK, HoldInv, [SmcNext]_smcVars
  PROVE  HoldInv'
<1> USE SmcAssumption DEF SmcAssumption, SmcTypeOK, ctrlVars, taskVars, pinVars, timeVars
<1>1. ASSUME NEW dbg \in BOOLEAN, Request(dbg) PROVE HoldInv'
  BY <1>1 DEF Request, HoldInv, Elapsed
<1>2. CASE TaskIdle
  BY <1>2 DEF TaskIdle, HoldInv, Elapsed
<1>3. CASE AssertRst
  BY <1>3 DEF AssertRst, SmcTurn, HoldInv
<1>4. CASE StartTimer
  BY <1>4 DEF StartTimer, SmcTurn, HoldInv, Elapsed
<1>5. CASE WaitTimer
  BY <1>5 DEF WaitTimer, SmcTurn, Expired, HoldInv, Elapsed
<1>6. CASE DeassertRst
  BY <1>6 DEF DeassertRst, BackToStart, SmcTurn, ReleasedAs, HoldInv
<1>7. CASE Tick
  <2>1. smc_task' = "WAIT_TIMER" => held' = HoldUs \/ Elapsed(wait_start)' <= held'
    <3> SUFFICES ASSUME smc_task = "WAIT_TIMER", held # HoldUs
                 PROVE  held' = HoldUs \/ Elapsed(wait_start)' <= held'
      BY <1>7 DEF Tick
    <3>1. smc = "reset" /\ Elapsed(wait_start) <= held /\ held < HoldUs
      BY DEF HoldInv
    <3>2. held' = held + 1
      BY <1>7, <3>1 DEF Tick
    <3>3. Elapsed(wait_start)' <= Elapsed(wait_start) + 1
      BY <1>7, TickElapsed
    <3>4. Elapsed(wait_start) \in Nat /\ Elapsed(wait_start)' \in Nat
      BY <1>7 DEF Elapsed, Tick, NextTime
    <3> QED
      BY <3>1, <3>2, <3>3, <3>4
  <2> QED
    BY <1>7, <2>1 DEF Tick, HoldInv
<1>8. CASE UNCHANGED smcVars
  BY <1>8 DEF smcVars, HoldInv, Elapsed
<1> QED
  BY <1>1, <1>2, <1>3, <1>4, <1>5, <1>6, <1>7, <1>8 DEF SmcNext, ResetSmcTask

\* The CH32V305 task never releases the SMC before its line has been low for
\* SMC_RST_HOLD_US, even if the timer wraps around during the wait.
THEOREM HoldCorrect == ASSUME Platform = "ch32v305" PROVE SmcSpec => HeldLongEnough
<1>1. SmcInit => HoldInv
  BY DEF SmcInit, SmcUp, HoldInv
<1>2. SmcTypeOK /\ HoldInv /\ [SmcNext]_smcVars => HoldInv'
  BY HoldInvStep
<1>3. SmcTypeOK /\ HoldInv /\ [SmcNext]_smcVars
        => [smc = "reset" /\ smc' # "reset" => held = HoldUs]_smcVars
  <2> SUFFICES ASSUME HoldInv, SmcNext, smc = "reset", smc' # "reset"
               PROVE  held = HoldUs
    OBVIOUS
  <2>1. smc_task = "DEASSERT_RST"
    BY DEF SmcNext, Request, ResetSmcTask, TaskIdle, AssertRst, StartTimer, WaitTimer,
           DeassertRst, BackToStart, SmcTurn, Tick, pinVars
  <2> QED
    BY <2>1 DEF HoldInv
<1> QED
  BY <1>1, <1>2, <1>3, SmcTypeCorrect, PTL DEF SmcSpec, HeldLongEnough

-----------------------------------------------------------------------------
(* The SMC reset: the pin and the mode.                                    *)

\* From ASSERT_RST to DEASSERT_RST of a debug reset the pin is low, and taken
\* from the PIO on the RP2040; at any other time it is high and given back.
PinInv ==
  /\ smc_task # "ASSERT_RST" => reset_smc_en
  /\ smc_task # "ASSERT_RST" /\ reset_smc_dbg
       => ss = "low" /\ (ss_sio <=> Platform = "rp2040")
  /\ smc_task = "ASSERT_RST" \/ ~reset_smc_dbg => ss = "high" /\ ~ss_sio

\* PinInv is kept when resets do not overlap.
LEMMA PinInvStep ==
  ASSUME ~Overlap, SmcTypeOK, PinInv, ModeAsRequested, [SmcNext]_smcVars
  PROVE  PinInv' /\ ModeAsRequested'
<1> USE SmcAssumption DEF SmcAssumption, SmcTypeOK, PinInv, ModeAsRequested,
                          ctrlVars, taskVars, pinVars, timeVars
<1>1. ASSUME NEW dbg \in BOOLEAN, Request(dbg) PROVE PinInv' /\ ModeAsRequested'
  BY <1>1 DEF Request, SetRequest
<1>2. CASE TaskIdle
  BY <1>2 DEF TaskIdle
<1>3. CASE AssertRst
  BY <1>3 DEF AssertRst, SmcTurn, AssertSs
<1>4. CASE StartTimer
  BY <1>4 DEF StartTimer, SmcTurn
<1>5. CASE WaitTimer
  BY <1>5 DEF WaitTimer, SmcTurn
<1>6. CASE DeassertRst
  BY <1>6 DEF DeassertRst, BackToStart, SmcTurn, DeassertSs, ReleasedAs, SsLow
<1>7. CASE Tick
  BY <1>7 DEF Tick
<1>8. CASE UNCHANGED smcVars
  BY <1>8 DEF smcVars
<1> QED
  BY <1>1, <1>2, <1>3, <1>4, <1>5, <1>6, <1>7, <1>8 DEF SmcNext, ResetSmcTask

\* The inductive part shared by the next two theorems.
LEMMA PinCorrect ==
  ASSUME ~Overlap
  PROVE  SmcSpec => [](PinInv /\ ModeAsRequested)
<1>1. SmcInit => PinInv /\ ModeAsRequested
  BY DEF SmcInit, SmcUp, PinInv, ModeAsRequested
<1>2. SmcTypeOK /\ (PinInv /\ ModeAsRequested) /\ [SmcNext]_smcVars
        => (PinInv /\ ModeAsRequested)'
  BY PinInvStep
<1> QED
  BY <1>1, <1>2, SmcTypeCorrect, PTL DEF SmcSpec

\* If nobody requests a reset during a reset, the SMC comes up in the mode that
\* was requested, on both platforms.
THEOREM ModeCorrect ==
  ASSUME ~Overlap
  PROVE  SmcSpec => []ModeAsRequested
BY PinCorrect, PTL

\* Under the same condition a finished reset has deselected SPI_SS_N and given
\* it back to the SPI.
THEOREM BusCorrect ==
  ASSUME ~Overlap
  PROVE  SmcSpec => []BusGivenBack
<1>1. PinInv => BusGivenBack
  BY DEF PinInv, BusGivenBack
<1> QED
  BY <1>1, PinCorrect, PTL

-----------------------------------------------------------------------------
(* The initialization: the invariant.                                      *)

\* The command a poll state waits for, and the card's state once it has obeyed it.
Polled ==
  [CARD_CMD0_POLL |-> "CMD0", CARD_CMD1_POLL |-> "CMD1", CARD_CMD2_POLL |-> "CMD2",
   CARD_CMD3_POLL |-> "CMD3", CARD_CMD9_POLL |-> "CMD9", CARD_CMD7_POLL |-> "CMD7",
   CARD_SWITCH_HS_CMD_POLL |-> "SWITCH_HS", CARD_SWITCH_BW_CMD_POLL |-> "SWITCH_BW",
   CARD_CMD16_POLL |-> "CMD16"]

Obeyed(c) ==
  CASE c = "CMD0" -> "idle"
    [] c = "CMD1" -> (IF card_ready THEN "ready" ELSE "idle")
    [] c = "CMD2" -> "ident"
    [] c \in {"CMD3", "CMD9"} -> "stby"
    [] OTHER -> "tran"

\* The states of card_init_step after which each part of the set-up is done.
BusStates  == {"CARD_CMD16_START", "CARD_CMD16_POLL",
               "CARD_FINAL_CLOCK_START", "CARD_FINAL_CLOCK_POLL"}
WideStates == BusStates \union {"CARD_SWITCH_BW_XFER_POLL", "CARD_HOST_CTRL1"}
HsStates   == WideStates \union {"CARD_SWITCH_HS_XFER_POLL", "CARD_SWITCH_BW_START",
                                 "CARD_SWITCH_BW_CMD_POLL"}
CsdStates  == HsStates \union {"CARD_CMD7_START", "CARD_CMD7_POLL",
                               "CARD_SWITCH_HS_START", "CARD_SWITCH_HS_CMD_POLL"}
CidStates  == CsdStates \union {"CARD_CMD3_START", "CARD_CMD3_POLL",
                                "CARD_CMD9_START", "CARD_CMD9_POLL"}

\* What holds whatever gets in the way: how the phases and the states inside them go
\* together, the SPI clock of each, and the number of retries.
StateInv ==
  /\ phase = "PHASE_SMC_RESET" => ctrl_state = "CTRL_SPI_FREQ"
  /\ phase \in {"PHASE_SMC_RESET", "PHASE_CONTROLLER_OPEN"} => card_state = "CARD_CMD0"
  /\ phase \in {"PHASE_CARD_INIT", "PHASE_DONE"} => ctrl_state = "CTRL_INT_ENABLE"
  /\ phase = "PHASE_DONE" <=> status = "MMC_DONE"
  /\ phase = "PHASE_DONE" => card_state = "CARD_FINAL_CLOCK_POLL"
  /\ ctrl_state \in {"CTRL_SPI_CONFIG", "CTRL_SANITY_SLOW", "CTRL_SANITY_DELAY"} => spi_freq = "slow"
  /\ ctrl_state \in {"CTRL_SANITY_FAST", "CTRL_CLOCK_START", "CTRL_CLOCK_POLL", "CTRL_INT_ENABLE"}
       => spi_freq = "fast"
  /\ status = "MMC_BUSY" /\ ctrl_state \in {"CTRL_SANITY_SLOW", "CTRL_SANITY_DELAY", "CTRL_SANITY_FAST"}
       => sanity_retries <= MaxRetries
  /\ sd_clk # "off" => clk = "stable"

\* The other parts are about an undisturbed initialization.  Only debug resets are
\* requested, and none while a phase after the first is on.
ResetInv ==
  undisturbed =>
    /\ NothingLeft
    /\ reset_smc_en => reset_smc_dbg
    /\ smc_task # "ASSERT_RST" => ss = "low" /\ (ss_sio <=> Platform = "rp2040")
    /\ smc_state = "SMC_WAIT" /\ ~reset_smc_en => smc = "debug" /\ ss = "high" /\ ~ss_sio
    /\ phase # "PHASE_SMC_RESET" => smc_state = "SMC_WAIT" /\ ~reset_smc_en

\* The clocks of the controller and of the card, and its status bits.
ClockInv ==
  undisturbed =>
    /\ ctrl_state = "CTRL_CLOCK_POLL" => clk # "off"
    /\ ctrl_state = "CTRL_INT_ENABLE"
         => clk = "stable" /\ sd_clk = IF phase = "PHASE_DONE" THEN "fast" ELSE "slow"
    /\ running \in {"CMD0", "CMD1", "CMD2", "CMD3"} => sd_clk = "slow"
    /\ phase \in {"PHASE_CARD_INIT", "PHASE_DONE"} => int_en

\* The command on its way suits the card; and between commands the card is in the
\* state the next command is for.
CommandInv ==
  undisturbed =>
    /\ running \notin {"CMD12", "CMD18", "data", "stop"}
    /\ running \notin {"none", "busy"} => Accepted(running) /\ int_status = {}
    /\ running = "busy" => "XFER_COMPLETE" \notin int_status
    /\ phase \in {"PHASE_CARD_INIT", "PHASE_DONE"} =>
         /\ card_state \in DOMAIN Begins \ {"CARD_CMD0"}
              => running = "none" /\ card = AcceptsIn[Begins[card_state]]
         /\ card_state = "CARD_EMMC_TIMEOUT" => running = "none" /\ card = "idle"
         /\ card_state = "CARD_CMD1_CHECK" => running = "none" /\ card = Obeyed("CMD1")
         /\ card_state \in {"CARD_HOST_CTRL1", "CARD_FINAL_CLOCK_START", "CARD_FINAL_CLOCK_POLL"}
              => running = "none" /\ card = "tran"

\* A poll state: the command has not reached the card, or it failed, or the card
\* has obeyed it.
PollInv ==
  undisturbed /\ phase \in {"PHASE_CARD_INIT", "PHASE_DONE"} =>
    /\ card_state \in DOMAIN Polled =>
         LET c == Polled[card_state] IN
         \/ running = c /\ int_status = {} /\ Accepted(c)
         \/ /\ running = "none" \/ (running = "busy" /\ c \in {"SWITCH_HS", "SWITCH_BW"})
            /\ IF "ERROR" \in int_status THEN c # "CMD0" /\ Accepted(c) ELSE card = Obeyed(c)
    /\ card_state \in XferPolls => running \in {"none", "busy"} /\ card = "tran"

\* What has been read and set up so far.
SetupInv ==
  undisturbed =>
    /\ card_state \in CidStates => cid
    /\ card_state \in CsdStates => csd
    /\ card_state \in HsStates => card_hs
    /\ card_state = "CARD_SWITCH_HS_CMD_POLL" /\ "CMD_COMPLETE" \in int_status => card_hs
    /\ card_state \in WideStates => card_wide
    /\ card_state = "CARD_SWITCH_BW_CMD_POLL" /\ "CMD_COMPLETE" \in int_status => card_wide
    /\ card_state \in BusStates => host_bus

IInv == TypeOK /\ StateInv /\ ResetInv /\ ClockInv /\ CommandInv /\ PollInv /\ SetupInv

-----------------------------------------------------------------------------
(* The types, and the states of the three machines.                        *)

\* An access moves nothing of the SMC but the pin.
LEMMA PinType ==
  ASSUME SmcTypeOK, NEW level \in {"high", "low"}, SetPin(level) PROVE SmcTypeOK'
BY DEF SetPin, SmcTypeOK, ctrlVars, taskVars, timeVars

\* Reading and clearing the status, and sending a command, keep the types.
LEMMA SendType ==
  ASSUME TypeOK, NEW cmd \in {"none", "CMD0"} \union DOMAIN AcceptsIn, Send(cmd)
  PROVE  /\ int_status' \subseteq {"CMD_COMPLETE", "BUF_READ_READY", "XFER_COMPLETE", "ERROR"}
         /\ running' \in {"none", "busy", "data", "stop", "CMD0", "CMD12"} \union DOMAIN AcceptsIn
BY DEF Send, TypeOK

\* The types.
LEMMA TypeStep == ASSUME TypeOK, StateInv, [Next]_vars PROVE TypeOK'
<1>c. /\ TimerMod \in Nat /\ HoldUs \in Nat \ {0} /\ MaxGap \in Nat \ {0}
      /\ MaxRetries \in Nat /\ MaxInits \in Nat /\ MaxIntrusions \in Nat /\ MaxTroubles \in Nat
  BY SmcAssumption, InitAssumption DEF SmcAssumption, InitAssumption
<1>s. ASSUME UNCHANGED smcVars PROVE SmcTypeOK'
  BY <1>s, SmcTypeStep DEF TypeOK
<1>p. ASSUME NEW level \in {"high", "low"}, SetPin(level) PROVE SmcTypeOK'
  BY <1>p, PinType DEF TypeOK
<1> USE <1>c DEF hostVars, leftVars, loopVars
<1>1. CASE CmdInitMmc
  <2>1. cid' \in BOOLEAN /\ csd' \in BOOLEAN /\ undisturbed' \in BOOLEAN
    BY <1>1, Zenon DEF CmdInitMmc
  <2>2. turn' \in {"read", "abort", "init"}
    BY <1>1 DEF CmdInitMmc, Turn, AfterCmd, AfterRead
  <2> QED
  BY <1>1, <1>s, <2>1, <2>2 DEF CmdInitMmc, Restart, TypeOK, smcVars, openVars, regVars,
     cmdVars, cardVars, CtrlStates, CardStates, Successor
<1>2. CASE NoCommand
  BY <1>2, <1>s DEF NoCommand, Turn, AfterCmd, AfterRead, TypeOK, smcVars, initVars,
     openVars, idVars, regVars, cmdVars, cardVars
<1>22. ASSUME NEW dbg \in BOOLEAN, ResetCommand(dbg) PROVE TypeOK'
  <2>1. SmcTypeOK'
    <3>1. reset_smc_en' = TRUE /\ reset_smc_dbg' \in BOOLEAN
      BY <1>22 DEF ResetCommand, SetRequest
    <3> QED
      BY <1>22, <3>1 DEF ResetCommand, TypeOK, SmcTypeOK, taskVars, pinVars, timeVars
  <2>2. turn' \in {"read", "abort", "init"}
    BY <1>22 DEF ResetCommand, Turn, AfterCmd, AfterRead
  <2>3. intrusions' \in 0 .. MaxIntrusions /\ troubles' \in 0 .. MaxTroubles
    BY <1>22 DEF ResetCommand, Trouble, TypeOK
  <2>4. undisturbed' \in BOOLEAN
    BY <1>22, Zenon DEF ResetCommand
  <2>5. UNCHANGED <<inits, leftVars, initVars, openVars, idVars, regVars, int_status, running, cardVars>>
    BY <1>22 DEF ResetCommand
  <2> QED
    BY <2>1, <2>2, <2>3, <2>4, <2>5 DEF TypeOK, initVars, openVars, idVars, regVars, cardVars
<1>7. CASE InitIdle
  BY <1>7, <1>s DEF InitIdle, Turn, TypeOK, smcVars, initVars, openVars, idVars, regVars,
     cmdVars, cardVars
<1>3. CASE ReadTask
  <2>f. UNCHANGED <<hostVars, abort_state, initVars, openVars, idVars, regVars, troubles, cardVars>>
        /\ turn' \in {"abort", "init"}
    BY <1>3 DEF ReadTask, Turn, AfterRead
  <2>1. CASE ReadFindBuf
    <3>1. CASE read_free = 0
      <4>1. UNCHANGED <<smcVars, read_state, read_free, int_status, running>>
        BY <2>1, <3>1 DEF ReadFindBuf
      <4> QED
        BY <1>s, <2>f, <4>1 DEF TypeOK, initVars, openVars, idVars, regVars, cardVars
    <3>2. CASE read_free # 0
      <4>1. SmcTypeOK' /\ Send("CMD18") /\ read_state' = "POLL_CMD_COMPLETE" /\ read_free' \in 0 .. 1
        BY <1>p, <2>1, <3>2 DEF ReadFindBuf, Access, TypeOK
      <4>2. int_status' \subseteq {"CMD_COMPLETE", "BUF_READ_READY", "XFER_COMPLETE", "ERROR"}
            /\ running' \in {"none", "busy", "data", "stop", "CMD0", "CMD12"} \union DOMAIN AcceptsIn
        <5>1. "CMD18" \in DOMAIN AcceptsIn
          BY DEF AcceptsIn
        <5> QED
          BY <4>1, <5>1, SendType
      <4> QED
        BY <2>f, <4>1, <4>2 DEF TypeOK, initVars, openVars, idVars, regVars, cardVars, ReadStates
    <3> QED
      BY <3>1, <3>2
  <2>2. CASE ReadPollCmd \/ ReadPollBuf \/ ReadPollXfer
    <3>1. SmcTypeOK'
      BY <1>p, <2>2 DEF ReadPollCmd, ReadPollBuf, ReadPollXfer, Access
    <3>2. read_state' \in ReadStates \union {"none"} /\ int_status' \subseteq int_status
      BY <2>2 DEF ReadPollCmd, ReadPollBuf, ReadPollXfer, Advanced, Acknowledge, ReadStates
    <3>3. UNCHANGED <<read_free, running>>
      BY <2>2 DEF ReadPollCmd, ReadPollBuf, ReadPollXfer
    <3> QED
      BY <2>f, <3>1, <3>2, <3>3 DEF TypeOK, initVars, openVars, idVars, regVars, cardVars
  <2>3. CASE ReadDmaBusy
    BY <1>s, <2>f, <2>3 DEF ReadDmaBusy, TypeOK, initVars, openVars, idVars, regVars, cardVars
  <2> QED
    BY <1>3, <2>1, <2>2, <2>3 DEF ReadTask
<1>23. CASE AbortTask
  <2>1. SmcTypeOK'
    BY <1>23, <1>p DEF AbortTask, Access
  <2>2. /\ int_status' \subseteq {"CMD_COMPLETE", "BUF_READ_READY", "XFER_COMPLETE", "ERROR"}
        /\ running' \in {"none", "busy", "data", "stop", "CMD0", "CMD12"} \union DOMAIN AcceptsIn
    BY <1>23, SendType DEF AbortTask, AbortPollCmd12, AbortPollReset, TypeOK
  <2>3. read_state' \in ReadStates \union {"none"} /\ abort_state' \in AbortStates \union {"none"}
    BY <1>23 DEF AbortTask, AbortPollCmd12, AbortPollReset, TypeOK, AbortStates
  <2> QED
    BY <1>23, <2>1, <2>2, <2>3 DEF AbortTask, Turn, TypeOK, initVars, openVars, idVars,
       regVars, cardVars
<1>4. CASE ResetTask
  BY <1>4, <1>s, SmcTypeStep DEF ResetTask, SmcNext, Turn, TypeOK, initVars, openVars,
     idVars, regVars, cmdVars, cardVars
<1>5. CASE SmcStart
  BY <1>5, <1>s DEF SmcStart, SetRequest, InitTurn, Turn, TypeOK, SmcTypeOK, taskVars,
     pinVars, timeVars, openVars, idVars, regVars, cmdVars, cardVars
<1>6. CASE SmcWait
  BY <1>6, <1>s DEF SmcWait, InitTurn, Turn, TypeOK, openVars, idVars, regVars, cmdVars,
     cardVars
<1>8. CASE CardExec
  BY <1>8, <1>s DEF CardExec, CommandOnBus, CardUnchanged, Latch, TypeOK,
     initVars, openVars, idVars, regVars, cmdVars, cardVars, AcceptsIn
<1>9. CASE CardSilent
  BY <1>9, <1>s DEF CardSilent, Trouble, CommandOnBus, CardUnchanged, Latch,
     TypeOK, initVars, openVars, idVars, regVars, cmdVars, cardVars
<1>10. CASE SwitchDone \/ DataMoves
  <2>1. int_status' \subseteq {"CMD_COMPLETE", "BUF_READ_READY", "XFER_COMPLETE", "ERROR"}
    BY <1>10 DEF SwitchDone, DataMoves, Latch, TypeOK
  <2>2. troubles' \in 0 .. MaxTroubles /\ running' \in {"none", "stop"}
    BY <1>10 DEF SwitchDone, DataMoves, Trouble, TypeOK
  <2>3. CardUnchanged /\ UNCHANGED cardVars
    BY <1>10 DEF SwitchDone, DataMoves
  <2> QED
    BY <1>s, <2>1, <2>2, <2>3 DEF CardUnchanged, TypeOK, initVars,
       openVars, idVars, regVars, cardVars
<1>11. CASE PowerUp
  BY <1>11, <1>s DEF PowerUp, CardUnchanged, TypeOK, initVars, openVars, idVars,
     regVars, cmdVars, cardVars
<1>12. CASE ClockStable
  BY <1>12, <1>s DEF ClockStable, CardUnchanged, TypeOK, initVars, openVars,
     idVars, regVars, cmdVars, cardVars
<1>13. CASE TimerTick
  BY <1>13, SmcTypeStep DEF TimerTick, SmcNext, TypeOK, initVars, openVars,
     idVars, regVars, cmdVars, cardVars
<1>14. CASE UNCHANGED vars
  BY <1>14, <1>s DEF vars, TypeOK, initVars, openVars, idVars, regVars, cmdVars,
     cardVars
<1>20. CASE ControllerOpen
  <2>f. UNCHANGED <<smc_state, card_state, idVars, cmdVars, cardVars>> /\ status = "MMC_BUSY"
        /\ UNCHANGED <<hostVars, leftVars>> /\ turn' = "reset" /\ phase = "PHASE_CONTROLLER_OPEN"
    BY <1>20 DEF ControllerOpen, SpiFreq, SpiConfig, SanitySlow, SanityDelay, SanityFast,
       ClockStart, ClockWait, IntEnable, CtrlTurn, InitTurn, Turn
  <2>s. SmcTypeOK'
    BY <1>20, <1>s, <1>p DEF ControllerOpen, SpiFreq, SpiConfig, SanitySlow, SanityDelay,
       SanityFast, ClockStart, ClockWait, IntEnable, Access
  <2>1. status' \in {"MMC_BUSY", "MMC_ERROR"} /\ phase' \in {"PHASE_CONTROLLER_OPEN", "PHASE_CARD_INIT"}
    BY <1>20, <2>f DEF ControllerOpen, SpiFreq, SpiConfig, SanitySlow, SanityDelay,
       SanityFast, ClockStart, ClockWait, IntEnable, SanityRetry, SlowPassed
  <2>2. ctrl_state' \in CtrlStates /\ spi_freq' \in {"slow", "fast"}
    BY <1>20 DEF ControllerOpen, SpiFreq, SpiConfig, SanitySlow, SanityDelay, SanityFast,
       ClockStart, ClockWait, IntEnable, SanityRetry, SlowPassed, openVars,
       TypeOK, CtrlStates
  <2>n. now \in 0 .. TimerMod - 1
    BY DEF TypeOK, SmcTypeOK
  <2>3. sanity_retries' \in 0 .. MaxRetries + 1 /\ delay_start' \in 0 .. TimerMod - 1
    BY <1>20, <2>f, <2>n DEF ControllerOpen, SpiFreq, SpiConfig, SanitySlow, SanityDelay,
       SanityFast, ClockStart, ClockWait, IntEnable, SanityRetry, SlowPassed, openVars,
       TypeOK, StateInv, CtrlTurn
  <2>4. clk' \in {"off", "starting", "stable"} /\ sd_clk' \in {"off", "slow", "fast"}
    BY <1>20 DEF ControllerOpen, SpiFreq, SpiConfig, SanitySlow, SanityDelay, SanityFast,
       ClockStart, ClockWait, IntEnable, ClockSet, ClockBegin, IdentSpeed, regVars,
       TypeOK
  <2>5. int_en' \in BOOLEAN /\ host_bus' \in BOOLEAN
    BY <1>20, Zenon DEF ControllerOpen, SpiFreq, SpiConfig, SanitySlow, SanityDelay,
       SanityFast, ClockStart, ClockWait, IntEnable, ClockSet, ClockBegin, regVars,
       TypeOK
  <2> QED
    BY <2>s, <2>f, <2>1, <2>2, <2>3, <2>4, <2>5 DEF TypeOK, idVars, cmdVars, cardVars
<1>21. CASE CardInit
  <2> DEFINE Bits == {"CMD_COMPLETE", "BUF_READ_READY", "XFER_COMPLETE", "ERROR"}
  <2>f. UNCHANGED <<smc_state, ctrl_state, openVars, cardVars, troubles, hostVars, leftVars, int_en>>
        /\ turn' = "reset"
    BY <1>21 DEF CardInit, CardStart, Cmd0Poll, EmmcTimeout, Cmd1Poll, Cmd1Check, CmdPoll,
       XferPoll, CardPoll, HostCtrl1, FinalClockStart, FinalClockPoll, CardTurn, InitTurn,
       Turn, cmdVars, regVars, ClockBegin, ClockSet
  <2>s. SmcTypeOK'
    BY <1>21, <1>p DEF CardInit, CardStart, Cmd0Poll, EmmcTimeout, Cmd1Poll, Cmd1Check, CmdPoll,
       XferPoll, HostCtrl1, FinalClockStart, FinalClockPoll, CardTurn, Access
  <2> USE DEF openVars, cardVars, idVars, regVars, cmdVars
  <2>1. CASE CardStart
    <3>0. card_state \in DOMAIN Begins /\ Send(Begins[card_state]) /\ Advance
      BY <2>1 DEF CardStart, CardTurn
    <3>1. card_state' \in CardStates
      BY <3>0 DEF Advance, Successor, Begins, CardStates
    <3>2. int_status' \subseteq Bits
          /\ running' \in {"none", "busy", "data", "stop", "CMD0", "CMD12"} \union DOMAIN AcceptsIn
      <4>1. Begins[card_state] \in {"none", "CMD0"} \union DOMAIN AcceptsIn
        BY <3>0 DEF Begins, AcceptsIn
      <4> QED
        BY <3>0, <4>1, SendType
    <3> QED
      BY <2>1, <2>s, <2>f, <3>1, <3>2 DEF CardStart, TypeOK
  <2>2. CASE Cmd0Poll
    <3>1. card_state' \in CardStates /\ int_status' \subseteq Bits
      <4>1. card_state' \in CardStates
        BY <2>2 DEF Cmd0Poll, CardTurn, Advance, Successor, CardStates
      <4>2. int_status' \subseteq Bits
        BY <2>2 DEF Cmd0Poll, Acknowledge, TypeOK
      <4> QED
        BY <4>1, <4>2
    <3> QED
      BY <2>2, <2>s, <2>f, <3>1 DEF Cmd0Poll, TypeOK
  <2>3. CASE EmmcTimeout
    <3>1. card_state' \in CardStates
      BY <2>3 DEF EmmcTimeout, CardTurn, Advance, Successor, CardStates
    <3> QED
      BY <2>3, <2>s, <2>f, <3>1 DEF EmmcTimeout, TypeOK
  <2>4. CASE Cmd1Poll
    <3>1. card_state' \in CardStates /\ int_status' \subseteq Bits
      <4>0. card_state = "CARD_CMD1_POLL"
        BY <2>4 DEF Cmd1Poll, CardTurn
      <4>1. \/ card_state' = "CARD_CMD1_START" /\ UNCHANGED int_status
            \/ UNCHANGED <<card_state, int_status>>
            \/ Advance /\ Acknowledge("CMD_COMPLETE")
        BY <2>4, Zenon DEF Cmd1Poll
      <4>2. card_state' \in CardStates
        BY <4>0, <4>1 DEF Advance, Successor, CardStates
      <4>3. int_status' \subseteq int_status
        BY <4>1 DEF Acknowledge
      <4> QED
        BY <4>2, <4>3 DEF TypeOK
    <3> QED
      BY <2>4, <2>s, <2>f, <3>1 DEF Cmd1Poll, TypeOK
  <2>5. CASE Cmd1Check
    <3>1. card_state' \in CardStates
      BY <2>5 DEF Cmd1Check, CardTurn, Cmd1Again, Successor, CardStates
    <3> QED
      BY <2>5, <2>s, <2>f, <3>1 DEF Cmd1Check, TypeOK
  <2>6. ASSUME NEW bit \in Bits, CardPoll(bit), card_state \in CmdPolls \union XferPolls PROVE TypeOK'
    <3>0. \/ status' = "MMC_ERROR" /\ UNCHANGED <<card_state, int_status, cid, csd>>
          \/ UNCHANGED <<status, card_state, int_status, cid, csd>>
          \/ /\ Advance /\ Acknowledge(bit) /\ UNCHANGED status
             /\ cid' = IF card_state = "CARD_CMD2_POLL" THEN Answers ELSE cid
             /\ csd' = IF card_state = "CARD_CMD9_POLL" THEN Answers ELSE csd
      BY <2>6, Zenon DEF CardPoll
    <3>1. card_state' \in CardStates /\ int_status' \subseteq Bits
      <4>1. card_state' \in CardStates
        BY <2>6, <3>0 DEF Advance, Successor, CmdPolls, XferPolls, CardStates
      <4>2. int_status' \subseteq int_status
        BY <3>0 DEF Acknowledge
      <4> QED
        BY <4>1, <4>2 DEF TypeOK
    <3>a. Answers \in BOOLEAN
      BY Zenon DEF Answers
    <3>2. cid' \in BOOLEAN /\ csd' \in BOOLEAN
      BY <3>0, <3>a, Zenon DEF TypeOK
    <3>3. status' \in {"MMC_IDLE", "MMC_BUSY", "MMC_DONE", "MMC_ERROR"}
      BY <3>0 DEF TypeOK
    <3> QED
      BY <2>6, <2>s, <2>f, <3>1, <3>2, <3>3 DEF CardPoll, TypeOK
  <2>7. CASE CmdPoll \/ XferPoll
    BY <2>6, <2>7 DEF CmdPoll, XferPoll, CardTurn
  <2>8. CASE HostCtrl1
    <3>1. card_state' \in CardStates
      BY <2>8 DEF HostCtrl1, CardTurn, Advance, Successor, CardStates
    <3>2. host_bus' \in BOOLEAN
      BY <2>8, Zenon DEF HostCtrl1
    <3> QED
      BY <2>8, <2>s, <2>f, <3>1, <3>2 DEF HostCtrl1, TypeOK
  <2>9. CASE FinalClockStart
    <3>1. card_state' \in CardStates
      BY <2>9 DEF FinalClockStart, CardTurn, Advance, Successor, CardStates
    <3> QED
      BY <2>9, <2>s, <2>f, <3>1 DEF FinalClockStart, ClockBegin, TypeOK
  <2>10. CASE FinalClockPoll
    BY <2>10, <2>s, <2>f DEF FinalClockPoll, ClockSet, Done, FinalSpeed, TypeOK
  <2> QED
    BY <1>21, <2>1, <2>2, <2>3, <2>4, <2>5, <2>7, <2>8, <2>9, <2>10 DEF CardInit
<1> QED
  BY <1>1, <1>2, <1>22, <1>3, <1>23, <1>4, <1>5, <1>6, <1>7, <1>8, <1>9, <1>10, <1>11, <1>12,
     <1>13, <1>14, <1>20, <1>21
  DEF Next, MainLoop, InitTask, Device, Answer, CmdReleaseMmc, CmdResetSmc

\* The phases and the states inside them, in every step.
LEMMA StateInvStep == ASSUME TypeOK, StateInv, [Next]_vars PROVE StateInv'
<1>r. MaxRetries \in Nat
  BY InitAssumption DEF InitAssumption
<1>1. CASE UNCHANGED <<initVars, openVars, regVars>>
  BY <1>1 DEF StateInv, initVars, openVars, regVars
<1>2. CASE CmdInitMmc
  BY <1>2 DEF CmdInitMmc, Restart, openVars, regVars, StateInv
<1>3. CASE NoCommand \/ CmdReleaseMmc \/ CmdResetSmc
  BY <1>1, <1>3 DEF NoCommand, CmdReleaseMmc, CmdResetSmc, ResetCommand
<1>4. CASE ReadTask \/ AbortTask \/ ResetTask \/ InitIdle
  BY <1>1, <1>4 DEF ReadTask, AbortTask, ResetTask, InitIdle
<1>5. CASE SmcStart
  BY <1>5 DEF SmcStart, openVars, regVars, StateInv
<1>6. CASE SmcWait
  BY <1>6 DEF SmcWait, InitTurn, openVars, regVars, StateInv
<1>7. CASE ControllerOpen
  <2>f. card_state' = card_state /\ status = "MMC_BUSY" /\ phase = "PHASE_CONTROLLER_OPEN"
    BY <1>7 DEF ControllerOpen, SpiFreq, SpiConfig, SanitySlow, SanityDelay, SanityFast,
                ClockStart, ClockWait, IntEnable, CtrlTurn, InitTurn
  <2> USE DEF StateInv, CtrlTurn, InitTurn
  <2>1. CASE SpiFreq
    BY <2>f, <2>1 DEF SpiFreq, regVars
  <2>2. CASE SpiConfig
    BY <2>f, <1>r, <2>2 DEF SpiConfig, regVars
  <2>3. CASE SanitySlow
    <3>1. PICK ok \in SanityOutcome : IF ok THEN SlowPassed ELSE SanityRetry
      BY <2>3 DEF SanitySlow
    <3>2. UNCHANGED <<phase, regVars>> /\ ctrl_state = "CTRL_SANITY_SLOW"
      BY <2>3 DEF SanitySlow
    <3>3. CASE ok
      BY <2>f, <1>r, <3>1, <3>2, <3>3 DEF SlowPassed, regVars, TypeOK
    <3>4. CASE ~ok
      BY <2>f, <1>r, <3>1, <3>2, <3>4 DEF SanityRetry, GiveUp, regVars, TypeOK
    <3> QED
      BY <3>3, <3>4
  <2>4. CASE SanityDelay
    BY <2>f, <2>4 DEF SanityDelay, regVars, openVars
  <2>5. CASE SanityFast
    BY <2>f, <1>r, <2>5 DEF SanityFast, SanityRetry, GiveUp, regVars, openVars, TypeOK
  <2>6. CASE ClockStart
    BY <2>f, <2>6 DEF ClockStart, ClockBegin, openVars
  <2>7. CASE ClockWait
    <3>1. PICK stable \in Reads(clk = "stable") :
            IF stable THEN ctrl_state' = "CTRL_INT_ENABLE" /\ ClockSet(IdentSpeed)
                      ELSE UNCHANGED <<ctrl_state, regVars>>
      BY <2>7 DEF ClockWait
    <3>2. clk' = clk /\ (sd_clk' # sd_clk => clk = "stable")
      BY <3>1 DEF ClockSet, Reads, Seen, regVars
    <3> QED
      BY <2>f, <2>7, <3>1, <3>2 DEF ClockWait, openVars
  <2>8. CASE IntEnable
    BY <2>f, <2>8 DEF IntEnable, openVars
  <2> QED
    BY <1>7, <2>1, <2>2, <2>3, <2>4, <2>5, <2>6, <2>7, <2>8 DEF ControllerOpen
<1>8. CASE CardInit
  <2>1. UNCHANGED <<ctrl_state, openVars>> /\ phase = "PHASE_CARD_INIT" /\ status = "MMC_BUSY"
    BY <1>8 DEF CardInit, CardStart, Cmd0Poll, EmmcTimeout, Cmd1Poll, Cmd1Check, CmdPoll,
       XferPoll, CardPoll, HostCtrl1, FinalClockStart, FinalClockPoll, CardTurn, InitTurn
  <2>2. CASE FinalClockPoll
    <3>1. PICK stable \in Reads(clk = "stable") :
            IF stable THEN Done /\ ClockSet(FinalSpeed)
                      ELSE UNCHANGED <<status, phase, card_state, regVars>>
      BY <2>2 DEF FinalClockPoll
    <3>2. clk' = clk /\ (sd_clk' # sd_clk => clk = "stable")
      BY <3>1 DEF ClockSet, Reads, Seen, regVars
    <3>3. \/ UNCHANGED <<status, phase>>
          \/ phase' = "PHASE_DONE" /\ status' = "MMC_DONE" /\ card_state' = "CARD_FINAL_CLOCK_POLL"
      BY <2>2, <3>1 DEF Done, FinalClockPoll, CardTurn
    <3> QED
      BY <2>1, <3>2, <3>3 DEF openVars, StateInv
  <2>3. CASE CardInit /\ ~FinalClockPoll
    <3>1. sd_clk' = sd_clk /\ (clk = "stable" => clk' = clk)
      BY <2>3 DEF CardInit, CardStart, Cmd0Poll, EmmcTimeout, Cmd1Poll, Cmd1Check,
         CmdPoll, XferPoll, CardPoll, HostCtrl1, FinalClockStart, ClockBegin, regVars
    <3>2. phase' = phase /\ status' \in {"MMC_BUSY", "MMC_ERROR"}
      BY <2>1, <2>3 DEF CardInit, CardStart, Cmd0Poll, EmmcTimeout, Cmd1Poll, Cmd1Check,
         CmdPoll, XferPoll, CardPoll, HostCtrl1, FinalClockStart
    <3> QED
      BY <2>1, <3>1, <3>2 DEF openVars, StateInv
  <2> QED
    BY <1>8, <2>2, <2>3
<1>9. CASE TimerTick \/ UNCHANGED vars
  BY <1>1, <1>9 DEF TimerTick, vars
<1>10. CASE CardExec \/ CardSilent \/ SwitchDone \/ DataMoves \/ PowerUp
  BY <1>1, <1>10 DEF CardExec, CardSilent, SwitchDone, DataMoves, PowerUp, CardUnchanged
<1>11. CASE ClockStable
  BY <1>11 DEF ClockStable, initVars, openVars, StateInv
<1> QED
  BY <1>2, <1>3, <1>4, <1>5, <1>6, <1>7, <1>8, <1>9, <1>10, <1>11
  DEF Next, MainLoop, InitTask, Device, Answer

-----------------------------------------------------------------------------
(* What undisturbed steps there are.                                       *)

\* The steps other than CMD_INIT_MMC that leave the initialization undisturbed.
CleanNext ==
  \/ NoCommand \/ ResetTask \/ InitIdle \/ SmcStart \/ SmcWait \/ ControllerOpen \/ CardInit
  \/ CardExec \/ CardSilent \/ SwitchDone \/ PowerUp \/ ClockStable \/ TimerTick \/ UNCHANGED vars

\* Nothing is left running, so no other task takes a step, and no data moves.
LEMMA OnlyClean ==
  ASSUME ResetInv, CommandInv, [Next]_vars, undisturbed', ~CmdInitMmc
  PROVE  undisturbed /\ CleanNext /\ UNCHANGED leftVars
<1>1. CASE CmdReleaseMmc \/ CmdResetSmc
  BY <1>1 DEF CmdReleaseMmc, CmdResetSmc, ResetCommand
<1>2. CASE ReadTask
  BY <1>2 DEF ReadTask, hostVars, ResetInv, NothingLeft, ReadFindBuf, ReadPollCmd, ReadPollBuf,
     ReadDmaBusy, ReadPollXfer
<1>3. CASE AbortTask
  BY <1>3 DEF AbortTask, hostVars, ResetInv, NothingLeft, AbortPollCmd12, AbortPollReset
<1>4. CASE DataMoves
  BY <1>4 DEF DataMoves, CardUnchanged, loopVars, hostVars, CommandInv
<1>5. ASSUME CleanNext PROVE UNCHANGED <<undisturbed, leftVars>>
  <2>1. CASE ControllerOpen
    BY <2>1 DEF ControllerOpen, SpiFreq, SpiConfig, SanitySlow, SanityDelay, SanityFast,
       ClockStart, ClockWait, IntEnable, CtrlTurn, InitTurn, hostVars
  <2>2. CASE CardInit
    BY <2>2 DEF CardInit, CardStart, Cmd0Poll, EmmcTimeout, Cmd1Poll, Cmd1Check, CmdPoll,
       XferPoll, HostCtrl1, FinalClockStart, FinalClockPoll, CardTurn, InitTurn, hostVars
  <2>3. CASE NoCommand \/ ResetTask \/ InitIdle \/ SmcStart \/ SmcWait
    BY <2>3 DEF NoCommand, ResetTask, InitIdle, SmcStart, SmcWait, InitTurn, hostVars
  <2>4. CASE CardExec \/ CardSilent \/ SwitchDone \/ PowerUp \/ ClockStable \/ TimerTick \/ UNCHANGED vars
    BY <2>4 DEF CardExec, CardSilent, SwitchDone, PowerUp, ClockStable, TimerTick, vars,
       CardUnchanged, loopVars, hostVars
  <2> QED
    BY <1>5, <2>1, <2>2, <2>3, <2>4 DEF CleanNext
<1> QED
  BY <1>1, <1>2, <1>3, <1>4, <1>5 DEF CleanNext, Next, MainLoop, InitTask, Device, Answer

\* The initialization starts undisturbed only from a quiet bus.
LEMMA StartsQuiet ==
  ASSUME ResetInv, CmdInitMmc, undisturbed' PROVE undisturbed \/ Quiet
BY DEF CmdInitMmc

\* While the controller is opened and the card initialized the SMC answers, and an
\* access leaves the pin as it was.
LEMMA AccessClean ==
  ASSUME ResetInv, undisturbed, ControllerOpen \/ CardInit
  PROVE  Answers /\ UNCHANGED smcVars
<1>1. phase # "PHASE_SMC_RESET"
  BY DEF ControllerOpen, SpiFreq, SpiConfig, SanitySlow, SanityDelay, SanityFast,
     ClockStart, ClockWait, IntEnable, CtrlTurn, CardInit, CardStart, Cmd0Poll, EmmcTimeout,
     Cmd1Poll, Cmd1Check, CmdPoll, XferPoll, HostCtrl1, FinalClockStart, FinalClockPoll,
     CardTurn, InitTurn
<1>2. smc = "debug" /\ ss = "high" /\ ~ss_sio /\ NothingLeft
  BY <1>1 DEF ResetInv
<1>3. Access \/ UNCHANGED smcVars
  BY DEF ControllerOpen, SpiFreq, SpiConfig, SanitySlow, SanityDelay, SanityFast,
     ClockStart, ClockWait, IntEnable, CardInit, CardStart, Cmd0Poll, EmmcTimeout,
     Cmd1Poll, Cmd1Check, CmdPoll, XferPoll, HostCtrl1, FinalClockStart, FinalClockPoll, CardTurn
<1> QED
  BY <1>2, <1>3 DEF Answers, SmcAnswers, NothingLeft, Access, SetPin, smcVars, pinVars

-----------------------------------------------------------------------------
(* One lemma for each other part of the invariant.                         *)

\* The reset and the pin.
LEMMA ResetInvStep == ASSUME TypeOK, StateInv, ResetInv, CommandInv, [Next]_vars PROVE ResetInv'
<1> SUFFICES ASSUME undisturbed' PROVE ResetInv'
  BY DEF ResetInv
<1> USE DEF ctrlVars, taskVars, pinVars
<1>1. ASSUME undisturbed,
             UNCHANGED <<ctrlVars, smc_task, pinVars, phase, smc_state, leftVars>> PROVE ResetInv'
  BY <1>1 DEF ResetInv, NothingLeft, leftVars
<1>2. CASE CmdInitMmc
  <2>1. CASE undisturbed
    BY <1>2, <2>1 DEF CmdInitMmc, Restart, ResetInv, smcVars, leftVars, NothingLeft
  <2>2. CASE Quiet
    BY <1>2, <2>2 DEF CmdInitMmc, Restart, Quiet, ResetInv, smcVars, leftVars, NothingLeft,
       TypeOK, SmcTypeOK
  <2> QED
    BY <1>2, <2>1, <2>2, StartsQuiet
<1>3. CASE ~CmdInitMmc
  <2>u. undisturbed /\ CleanNext /\ UNCHANGED leftVars
    BY <1>3, OnlyClean
  <2>4. CASE ResetTask
    <3>1. UNCHANGED <<phase, smc_state>>
      BY <2>4 DEF ResetTask, initVars
    <3>2. CASE TaskIdle
      BY <2>u, <3>1, <3>2 DEF TaskIdle, ResetInv, NothingLeft, leftVars
    <3>3. CASE AssertRst
      BY <2>u, <3>1, <3>3 DEF AssertRst, SmcTurn, AssertSs, ResetInv, NothingLeft, leftVars,
         TypeOK, SmcTypeOK
    <3>4. CASE StartTimer \/ WaitTimer
      BY <2>u, <3>1, <3>4 DEF StartTimer, WaitTimer, SmcTurn, ResetInv, NothingLeft, leftVars
    <3>5. CASE DeassertRst
      BY <2>u, <3>1, <3>5 DEF DeassertRst, BackToStart, SmcTurn, DeassertSs, ReleasedAs, SsLow,
         ResetInv, NothingLeft, leftVars
    <3> QED
      BY <2>4, <3>2, <3>3, <3>4, <3>5 DEF ResetTask, ResetSmcTask
  <2>5. CASE SmcStart
    BY <2>u, <2>5 DEF SmcStart, SetRequest, InitTurn, ResetInv, NothingLeft, leftVars
  <2>6. CASE SmcWait
    BY <2>u, <2>6 DEF SmcWait, ResetDone, InitTurn, smcVars, ResetInv, NothingLeft, leftVars,
       TypeOK
  <2>7. CASE ControllerOpen \/ CardInit
    <3>1. smc_state' = smc_state /\ phase # "PHASE_SMC_RESET"
      BY <2>7 DEF ControllerOpen, SpiFreq, SpiConfig, SanitySlow, SanityDelay, SanityFast,
         ClockStart, ClockWait, IntEnable, CtrlTurn, CardInit, CardStart, Cmd0Poll, EmmcTimeout,
         Cmd1Poll, Cmd1Check, CmdPoll, XferPoll, HostCtrl1, FinalClockStart, FinalClockPoll,
         CardTurn, InitTurn
    <3>2. UNCHANGED smcVars
      BY <2>u, <2>7, AccessClean
    <3> QED
      BY <2>u, <3>1, <3>2 DEF smcVars, ResetInv, NothingLeft, leftVars
  <2>8. CASE NoCommand \/ InitIdle \/ TimerTick \/ UNCHANGED vars
    BY <1>1, <2>u, <2>8 DEF NoCommand, InitIdle, TimerTick, Tick, vars, smcVars, initVars
  <2>9. CASE CardExec \/ CardSilent \/ SwitchDone \/ PowerUp \/ ClockStable
    BY <1>1, <2>u, <2>9 DEF CardExec, CardSilent, SwitchDone, PowerUp, ClockStable,
       CardUnchanged, smcVars, initVars
  <2> QED
    BY <2>u, <2>4, <2>5, <2>6, <2>7, <2>8, <2>9 DEF CleanNext
<1> QED
  BY <1>2, <1>3

\* The clocks and the status bits.
LEMMA ClockInvStep ==
  ASSUME TypeOK, StateInv, ResetInv, ClockInv, CommandInv, [Next]_vars PROVE ClockInv'
<1> SUFFICES ASSUME undisturbed' PROVE ClockInv'
  BY DEF ClockInv
<1>2. CASE CmdInitMmc
  BY <1>2, StartsQuiet DEF CmdInitMmc, Restart, Quiet, regVars, cmdVars, ClockInv
<1>3. CASE ~CmdInitMmc
  <2>u. undisturbed /\ CleanNext
    BY <1>3, OnlyClean
  <2>1. ASSUME UNCHANGED <<phase, ctrl_state, clk, sd_clk, int_en, running>> PROVE ClockInv'
    BY <2>u, <2>1 DEF ClockInv
  <2>3. CASE NoCommand \/ ResetTask \/ InitIdle \/ SmcStart \/ TimerTick \/ UNCHANGED vars
    BY <2>1, <2>3 DEF NoCommand, ResetTask, InitIdle, SmcStart, TimerTick, vars, initVars,
       regVars, cmdVars
  <2>4. CASE SmcWait
    BY <2>u, <2>4 DEF SmcWait, InitTurn, regVars, cmdVars, ClockInv, StateInv
  <2>5. CASE ControllerOpen
    <3>f. running' = running /\ phase = "PHASE_CONTROLLER_OPEN" /\ Answers
      BY <2>u, <2>5, AccessClean DEF ControllerOpen, SpiFreq, SpiConfig, SanitySlow, SanityDelay,
         SanityFast, ClockStart, ClockWait, IntEnable, CtrlTurn, InitTurn, cmdVars
    <3> USE <2>u DEF ClockInv, CtrlTurn, InitTurn, TypeOK
    <3>1. CASE SpiFreq \/ SpiConfig
      BY <3>f, <3>1 DEF SpiFreq, SpiConfig, regVars
    <3>2. CASE SanitySlow
      BY <3>f, <3>2 DEF SanitySlow, SlowPassed, SanityRetry, regVars
    <3>3. CASE SanityDelay
      BY <3>f, <3>3 DEF SanityDelay, regVars
    <3>4. CASE SanityFast
      BY <3>f, <3>4 DEF SanityFast, SanityRetry, regVars
    <3>5. CASE ClockStart
      BY <3>f, <3>5 DEF ClockStart, ClockBegin
    <3>6. CASE ClockWait
      BY <3>f, <3>6 DEF ClockWait, Reads, Seen, ClockSet, IdentSpeed, regVars
    <3>7. CASE IntEnable
      BY <3>f, <3>7 DEF IntEnable, StateInv
    <3> QED
      BY <2>5, <3>1, <3>2, <3>3, <3>4, <3>5, <3>6, <3>7 DEF ControllerOpen
  <2>6. CASE CardInit
    <3>f. /\ ctrl_state' = ctrl_state /\ phase = "PHASE_CARD_INIT" /\ ctrl_state = "CTRL_INT_ENABLE"
          /\ clk = "stable" /\ sd_clk = "slow" /\ int_en /\ Answers
      BY <2>u, <2>6, AccessClean DEF CardInit, CardStart, Cmd0Poll, EmmcTimeout, Cmd1Poll,
         Cmd1Check, CmdPoll, XferPoll, HostCtrl1, FinalClockStart, FinalClockPoll, CardTurn,
         InitTurn, StateInv, ClockInv
    <3>1. CASE FinalClockPoll
      <4>1. running = "none" /\ running' = running
        BY <2>u, <3>f, <3>1 DEF FinalClockPoll, CardTurn, CommandInv, cmdVars
      <4>2. Done /\ ClockSet(FinalSpeed)
        BY <3>f, <3>1 DEF FinalClockPoll, Reads, Seen
      <4> QED
        BY <3>f, <4>1, <4>2 DEF Done, ClockSet, FinalSpeed, ClockInv
    <3>2. CASE CardInit /\ ~FinalClockPoll
      <4>1. UNCHANGED <<phase, clk, sd_clk, int_en>>
        BY <3>f, <3>2 DEF CardInit, CardStart, Cmd0Poll, EmmcTimeout, Cmd1Poll, Cmd1Check,
           CmdPoll, XferPoll, CardPoll, HostCtrl1, FinalClockStart, ClockBegin, regVars
      <4> QED
        BY <3>f, <4>1 DEF ClockInv
    <3> QED
      BY <2>6, <3>1, <3>2
  <2>7. CASE ClockStable
    BY <2>u, <2>7 DEF ClockStable, initVars, cmdVars, ClockInv
  <2>8. CASE CardExec \/ CardSilent \/ SwitchDone \/ PowerUp
    <3>1. UNCHANGED <<phase, ctrl_state, clk, sd_clk, int_en>>
      BY <2>8 DEF CardExec, CardSilent, SwitchDone, PowerUp, CardUnchanged, initVars, regVars
    <3>2. running' \in {running, "none", "busy", "data"}
      BY <2>8 DEF CardExec, CardSilent, SwitchDone, PowerUp, cmdVars
    <3> QED
      BY <2>u, <3>1, <3>2 DEF ClockInv
  <2> QED
    BY <2>u, <2>3, <2>4, <2>5, <2>6, <2>7, <2>8 DEF CleanNext
<1> QED
  BY <1>2, <1>3

\* With the SMC answering, a poll sees the status as it is.
LEMMA PollSees ==
  ASSUME Answers, NEW bit PROVE PollCheck(bit) = {Outcome("ERROR" \in int_status, bit \in int_status)}
BY DEF PollCheck, Reads, Seen

\* What the polls that give up on an error do then.
LEMMA CardPollSees ==
  ASSUME Answers, NEW bit, CardPoll(bit)
  PROVE  /\ "ERROR" \in int_status \/ bit \notin int_status
              => UNCHANGED <<card_state, int_status, cid, csd>>
         /\ "ERROR" \notin int_status /\ bit \in int_status
              => /\ card_state' = Successor[card_state] /\ int_status' = int_status \ {bit}
                 /\ cid \/ card_state = "CARD_CMD2_POLL" => cid'
                 /\ csd \/ card_state = "CARD_CMD9_POLL" => csd'
<1>1. CASE "ERROR" \in int_status
  BY <1>1, PollSees DEF CardPoll, Outcome, idVars
<1>2. CASE "ERROR" \notin int_status /\ bit \notin int_status
  BY <1>2, PollSees DEF CardPoll, Outcome, idVars
<1>3. CASE "ERROR" \notin int_status /\ bit \in int_status
  BY <1>3, PollSees DEF CardPoll, Outcome, Advance, Acknowledge
<1> QED
  BY <1>1, <1>2, <1>3

\* The commands and what the card is ready for.
LEMMA CommandCard ==
  ASSUME TypeOK, ResetInv, CommandInv, PollInv, CardInit, undisturbed PROVE CommandInv' /\ PollInv'
<1>a. Answers
  BY AccessClean
<1>u. undisturbed' = undisturbed
  BY DEF CardInit, CardStart, Cmd0Poll, EmmcTimeout, Cmd1Poll, Cmd1Check, CmdPoll,
     XferPoll, HostCtrl1, FinalClockStart, FinalClockPoll, CardTurn, InitTurn, hostVars
<1>f. UNCHANGED <<card, card_ready>> /\ phase = "PHASE_CARD_INIT"
      /\ phase' \in {"PHASE_CARD_INIT", "PHASE_DONE"}
  BY DEF CardInit, CardStart, Cmd0Poll, EmmcTimeout, Cmd1Poll, Cmd1Check, CmdPoll,
     XferPoll, CardPoll,
         HostCtrl1, FinalClockStart, FinalClockPoll, Done, CardTurn, InitTurn, cardVars
<1> USE <1>u DEF CommandInv, PollInv, Accepted, Obeyed
<1>1. CASE CardStart
  <2>1. card_state \in DOMAIN Begins /\ card_state' = Successor[card_state] /\ int_status' = {}
        /\ running' = Begins[card_state]
    BY <1>a, <1>1 DEF CardStart, CardTurn, Advance, Send
  <2>2. card_state' \in DOMAIN Polled /\ Polled[card_state'] = running' /\ card_state' \notin DOMAIN Begins
        /\ card_state' \notin XferPolls \union {"CARD_EMMC_TIMEOUT", "CARD_CMD1_CHECK", "CARD_HOST_CTRL1",
                                   "CARD_FINAL_CLOCK_START", "CARD_FINAL_CLOCK_POLL"}
    BY <2>1 DEF Begins, Successor, Polled, XferPolls
  <2>3. Accepted(running')
    BY <1>f, <2>1 DEF Begins, AcceptsIn
  <2>4. running' \notin {"none", "busy", "data", "stop", "CMD12", "CMD18"}
    BY <2>1 DEF Begins
  <2> QED
    BY <1>f, <2>1, <2>2, <2>3, <2>4
<1>2. CASE Cmd0Poll
  <2>1. CASE "CMD_COMPLETE" \in int_status
    <3>0. Acknowledge("CMD_COMPLETE") /\ Advance /\ card_state = "CARD_CMD0_POLL" /\ running' = running
      BY <1>a, <1>2, <2>1 DEF Cmd0Poll, Reads, Seen, CardTurn
    <3>1. card_state = "CARD_CMD0_POLL" /\ card_state' = "CARD_EMMC_TIMEOUT" /\ running' = running
          /\ int_status' \subseteq int_status
      <4>1. Successor["CARD_CMD0_POLL"] = "CARD_EMMC_TIMEOUT"
        BY DEF Successor
      <4>2. int_status' \subseteq int_status
        BY <3>0 DEF Acknowledge
      <4> QED
        BY <3>0, <4>1, <4>2 DEF Advance
    <3>2. running = "none" /\ card = "idle"
      BY <1>f, <2>1, <3>1 DEF Polled, Begins
    <3> QED
      BY <1>f, <3>1, <3>2 DEF Begins, Polled, XferPolls
  <2>2. CASE "CMD_COMPLETE" \notin int_status
    BY <1>a, <1>f, <1>2, <2>2 DEF Cmd0Poll, Reads, Seen
  <2> QED
    BY <2>1, <2>2
<1>3. CASE EmmcTimeout
  <2>1. card_state = "CARD_EMMC_TIMEOUT" /\ card_state' = "CARD_CMD1_START" /\ UNCHANGED <<running, int_status>>
    BY <1>3 DEF EmmcTimeout, CardTurn, Advance, Successor, cmdVars
  <2> QED
    BY <1>f, <2>1 DEF Begins, Polled, XferPolls, AcceptsIn
<1>4. CASE Cmd1Poll
  <2>1. card_state = "CARD_CMD1_POLL" /\ running' = running
    BY <1>4 DEF Cmd1Poll, CardTurn
  <2>2. \/ running = "CMD1" /\ int_status = {}
        \/ running = "none" /\ IF "ERROR" \in int_status THEN card = "idle" ELSE card = Obeyed("CMD1")
    BY <1>f, <2>1 DEF Polled, AcceptsIn
  <2>3. CASE "ERROR" \in int_status
    <3>1. card_state' = "CARD_CMD1_START" /\ int_status' = int_status
      BY <1>a, <1>4, <2>3, PollSees DEF Cmd1Poll, Outcome
    <3> QED
      BY <1>f, <2>1, <2>2, <2>3, <3>1 DEF Begins, Polled, XferPolls, AcceptsIn
  <2>4. CASE "ERROR" \notin int_status /\ "CMD_COMPLETE" \in int_status
    <3>1. card_state' = "CARD_CMD1_CHECK" /\ int_status' \subseteq int_status
      BY <1>a, <1>4, <2>1, <2>4, PollSees DEF Cmd1Poll, Outcome, Advance, Acknowledge, Successor
    <3> QED
      BY <1>f, <2>1, <2>2, <2>4, <3>1 DEF Begins, Polled, XferPolls
  <2>5. CASE "ERROR" \notin int_status /\ "CMD_COMPLETE" \notin int_status
    BY <1>a, <1>f, <1>4, <2>5, PollSees DEF Cmd1Poll, Outcome
  <2> QED
    BY <2>3, <2>4, <2>5
<1>5. CASE Cmd1Check
  <2>1. card_state = "CARD_CMD1_CHECK" /\ UNCHANGED <<running, int_status>>
        /\ card_state' = IF card_ready THEN "CARD_CMD2_START" ELSE "CARD_CMD1_START"
    BY <1>a, <1>5 DEF Cmd1Check, Reads, Seen, CardTurn, Cmd1Again, Successor, cmdVars
  <2> QED
    BY <1>f, <2>1 DEF Begins, Polled, XferPolls, AcceptsIn
<1>6. CASE CmdPoll
  <2>1. card_state \in CmdPolls /\ running' = running
    BY <1>6 DEF CmdPoll, CardPoll, CardTurn
  <2>2. CASE "ERROR" \in int_status \/ "CMD_COMPLETE" \notin int_status
    <3>1. UNCHANGED <<card_state, int_status>>
      BY <1>a, <1>6, <2>2, CardPollSees DEF CmdPoll
    <3> QED
      BY <1>f, <2>1, <3>1
  <2>3. CASE "ERROR" \notin int_status /\ "CMD_COMPLETE" \in int_status
    <3>1. card_state' = Successor[card_state] /\ int_status' \subseteq int_status
      BY <1>a, <1>6, <2>3, CardPollSees DEF CmdPoll
    <3>2. /\ card = Obeyed(Polled[card_state])
          /\ running = "none" \/ (running = "busy" /\ Polled[card_state] \in {"SWITCH_HS", "SWITCH_BW"})
      BY <1>f, <2>1, <2>3 DEF CmdPolls, Polled
    <3>3. CASE card_state \in {"CARD_SWITCH_HS_CMD_POLL", "CARD_SWITCH_BW_CMD_POLL"}
      BY <1>f, <2>1, <3>1, <3>2, <3>3 DEF Successor, Polled, Begins, XferPolls
    <3>4. CASE card_state \in {"CARD_CMD2_POLL", "CARD_CMD3_POLL", "CARD_CMD9_POLL", "CARD_CMD7_POLL"}
      BY <1>f, <2>1, <3>1, <3>2, <3>4 DEF Successor, Polled, Begins, XferPolls, AcceptsIn
    <3>5. CASE card_state = "CARD_CMD16_POLL"
      BY <1>f, <2>1, <3>1, <3>2, <3>5 DEF Successor, Polled, Begins, XferPolls
    <3> QED
      BY <2>1, <3>3, <3>4, <3>5 DEF CmdPolls
  <2> QED
    BY <2>2, <2>3
<1>7. CASE XferPoll
  <2>1. card_state \in XferPolls /\ running' = running /\ running \in {"none", "busy"} /\ card = "tran"
    BY <1>f, <1>7 DEF XferPoll, CardPoll, CardTurn
  <2>2. CASE "ERROR" \in int_status \/ "XFER_COMPLETE" \notin int_status
    <3>1. UNCHANGED <<card_state, int_status>>
      BY <1>a, <1>7, <2>2, CardPollSees DEF XferPoll
    <3> QED
      BY <1>f, <2>1, <3>1
  <2>3. CASE "ERROR" \notin int_status /\ "XFER_COMPLETE" \in int_status
    <3>1. card_state' = Successor[card_state] /\ int_status' \subseteq int_status
      BY <1>a, <1>7, <2>3, CardPollSees DEF XferPoll
    <3>2. running = "none"
      BY <2>1, <2>3
    <3> QED
      BY <1>f, <2>1, <3>1, <3>2 DEF Successor, Polled, Begins, XferPolls, AcceptsIn
  <2> QED
    BY <2>2, <2>3
<1>8. CASE HostCtrl1 \/ FinalClockStart
  <2>1. card_state \in {"CARD_HOST_CTRL1", "CARD_FINAL_CLOCK_START"} /\ UNCHANGED <<running, int_status>>
        /\ card_state' = Successor[card_state]
    BY <1>8 DEF HostCtrl1, FinalClockStart, CardTurn, Advance, cmdVars
  <2> QED
    BY <1>f, <2>1 DEF Successor, Polled, Begins, XferPolls, AcceptsIn
<1>9. CASE FinalClockPoll
  BY <1>f, <1>9 DEF FinalClockPoll, Done, cmdVars
<1> QED
  BY <1>1, <1>2, <1>3, <1>4, <1>5, <1>6, <1>7, <1>8, <1>9 DEF CardInit

\* What the controller and the card do of themselves.
LEMMA CommandDevice ==
  ASSUME TypeOK, ClockInv, CommandInv, PollInv, undisturbed,
         CardExec \/ CardSilent \/ SwitchDone \/ PowerUp \/ ClockStable
  PROVE  CommandInv' /\ PollInv'
<1>f. UNCHANGED <<phase, card_state>>
  BY DEF CardExec, CardSilent, SwitchDone, PowerUp, ClockStable, CardUnchanged, initVars
<1>u. undisturbed' = undisturbed
  BY DEF CardExec, CardSilent, SwitchDone, PowerUp, ClockStable, CardUnchanged, loopVars, hostVars
<1>i. phase \in {"PHASE_CARD_INIT", "PHASE_DONE"} => int_en
  BY DEF ClockInv
<1> USE <1>u DEF CommandInv, PollInv, Accepted
<1>1. CASE CardExec
  <2>1. /\ running \notin {"none", "busy"} /\ int_status = {}
        /\ running' = IF running \in {"SWITCH_HS", "SWITCH_BW"} THEN "busy" ELSE "none"
        /\ int_status' = IF int_en THEN {"CMD_COMPLETE"} ELSE {}
        /\ running \notin {"CMD12", "CMD18", "data", "stop"}
    BY <1>1 DEF CardExec, CommandOnBus, Latch
  <2>2. phase \in {"PHASE_CARD_INIT", "PHASE_DONE"} =>
          card_state \in DOMAIN Polled \union {"CARD_CMD0"} /\ card_state \notin XferPolls
          /\ (card_state \in DOMAIN Polled => Polled[card_state] = running)
    <3>1. SUFFICES ASSUME phase \in {"PHASE_CARD_INIT", "PHASE_DONE"}
                   PROVE card_state \in DOMAIN Polled \union {"CARD_CMD0"} /\ card_state \notin XferPolls
                         /\ (card_state \in DOMAIN Polled => Polled[card_state] = running)
      OBVIOUS
    <3>2. card_state \in CardStates
      BY DEF TypeOK
    <3> QED
      BY <2>1, <3>1, <3>2 DEF Polled, XferPolls, CardStates, Successor, Begins
  <2>3. card_state \in DOMAIN Polled /\ Polled[card_state] = running
          => card' = Obeyed(Polled[card_state])'
    <3>1. CASE running \in {"CMD0", "CMD1"}
      BY <1>1, <1>f, <3>1 DEF CardExec, Obeyed
    <3>2. CASE running \in {"CMD2", "CMD3", "CMD7"}
      BY <1>1, <1>f, <3>2 DEF CardExec, Obeyed
    <3>3. CASE running \in {"CMD9", "SWITCH_HS", "SWITCH_BW", "CMD16"}
      BY <1>1, <1>f, <3>3 DEF CardExec, Obeyed, AcceptsIn
    <3> QED
      BY <2>1, <3>1, <3>2, <3>3 DEF TypeOK, AcceptsIn
  <2>4. card_state' \in DOMAIN Polled => Polled[card_state'] = Polled[card_state]
    BY <1>f
  <2>5. CASE phase \in {"PHASE_CARD_INIT", "PHASE_DONE"}
    <3>1. CASE card_state = "CARD_CMD0"
      BY <1>f, <2>1, <3>1 DEF Polled, XferPolls, Begins
    <3>2. CASE card_state \in DOMAIN Polled
      <4>1. Polled[card_state] = running /\ int_status' = {"CMD_COMPLETE"}
        BY <1>i, <2>1, <2>2, <2>5, <3>2
      <4>2. card_state \notin XferPolls \union (DOMAIN Begins \ {"CARD_CMD0"})
              \union {"CARD_EMMC_TIMEOUT", "CARD_CMD1_CHECK", "CARD_HOST_CTRL1",
                      "CARD_FINAL_CLOCK_START", "CARD_FINAL_CLOCK_POLL"}
        BY <3>2 DEF Polled, XferPolls, Begins
      <4> QED
        BY <1>f, <2>1, <2>3, <3>2, <4>1, <4>2
    <3> QED
      BY <2>2, <2>5, <3>1, <3>2
  <2>6. CASE phase \notin {"PHASE_CARD_INIT", "PHASE_DONE"}
    BY <1>f, <2>1, <2>6
  <2> QED
    BY <2>5, <2>6
<1>2. CASE CardSilent
  <2>1. /\ running \notin {"none", "busy", "CMD0"} /\ int_status = {} /\ running' = "none"
        /\ int_status' = (IF int_en THEN {"ERROR"} ELSE {}) /\ UNCHANGED <<card, card_ready>>
    BY <1>2 DEF CardSilent, CommandOnBus, Latch, cardVars
  <2>2. phase \in {"PHASE_CARD_INIT", "PHASE_DONE"} =>
          card_state \in DOMAIN Polled \union {"CARD_CMD0"} /\ card_state \notin XferPolls
          /\ (card_state \in DOMAIN Polled => Polled[card_state] = running)
    <3>1. SUFFICES ASSUME phase \in {"PHASE_CARD_INIT", "PHASE_DONE"}
                   PROVE card_state \in DOMAIN Polled \union {"CARD_CMD0"} /\ card_state \notin XferPolls
                         /\ (card_state \in DOMAIN Polled => Polled[card_state] = running)
      OBVIOUS
    <3>2. card_state \in CardStates
      BY DEF TypeOK
    <3> QED
      BY <2>1, <3>1, <3>2 DEF Polled, XferPolls, CardStates, Successor, Begins
  <2> QED
    BY <1>f, <1>i, <2>1, <2>2 DEF Polled, XferPolls, Begins
<1>3. CASE SwitchDone
  <2>1. running = "busy" /\ running' = "none" /\ UNCHANGED <<card, card_ready>>
        /\ int_status \subseteq int_status'
        /\ int_status' \subseteq int_status \union {"XFER_COMPLETE", "ERROR"}
    BY <1>3 DEF SwitchDone, Latch, cardVars
  <2> QED
    BY <1>f, <2>1 DEF Polled, XferPolls, Begins, Obeyed, AcceptsIn
<1>4. CASE PowerUp \/ ClockStable
  BY <1>f, <1>4 DEF PowerUp, ClockStable, cmdVars, cardVars, Obeyed
<1> QED
  BY <1>1, <1>2, <1>3, <1>4

\* The commands and the card, in every step.
LEMMA CommandStep ==
  ASSUME TypeOK, StateInv, ResetInv, ClockInv, CommandInv, PollInv, [Next]_vars
  PROVE  CommandInv' /\ PollInv'
<1> SUFFICES ASSUME undisturbed' PROVE CommandInv' /\ PollInv'
  BY DEF CommandInv, PollInv
<1>2. CASE CmdInitMmc
  BY <1>2, StartsQuiet DEF CmdInitMmc, Restart, Quiet, cmdVars, cardVars, CommandInv, PollInv,
     Accepted
<1>3. CASE ~CmdInitMmc
  <2>u. undisturbed /\ CleanNext
    BY <1>3, OnlyClean
  <2>1. CASE CardInit
    BY <2>u, <2>1, CommandCard
  <2>2. CASE CardExec \/ CardSilent \/ SwitchDone \/ PowerUp \/ ClockStable
    BY <2>u, <2>2, CommandDevice
  <2>3. ASSUME UNCHANGED <<phase, card_state, running, int_status, card, card_ready>>
        PROVE  CommandInv' /\ PollInv'
    BY <2>u, <2>3 DEF CommandInv, PollInv, Accepted, Obeyed
  <2>5. CASE SmcWait
    BY <2>u, <2>5 DEF SmcWait, InitTurn, cmdVars, cardVars, CommandInv, PollInv, Accepted, TypeOK
  <2>6. CASE ControllerOpen
    <3>1. UNCHANGED <<card_state, running, int_status, card, card_ready>> /\ card_state = "CARD_CMD0"
      BY <2>6 DEF ControllerOpen, SpiFreq, SpiConfig, SanitySlow, SanityDelay, SanityFast,
         ClockStart, ClockWait, IntEnable, CtrlTurn, InitTurn, cmdVars, cardVars, StateInv
    <3> QED
      BY <2>u, <3>1 DEF CommandInv, PollInv, Accepted, Polled, XferPolls
  <2>7. CASE NoCommand \/ ResetTask \/ InitIdle \/ SmcStart \/ TimerTick \/ UNCHANGED vars
    BY <2>3, <2>7 DEF NoCommand, ResetTask, InitIdle, SmcStart, TimerTick, vars, initVars,
       cmdVars, cardVars
  <2> QED
    BY <2>u, <2>1, <2>2, <2>5, <2>6, <2>7 DEF CleanNext
<1> QED
  BY <1>2, <1>3

\* What has been set up.
LEMMA SetupInvStep ==
  ASSUME TypeOK, StateInv, ResetInv, CommandInv, PollInv, SetupInv, [Next]_vars PROVE SetupInv'
<1> SUFFICES ASSUME undisturbed' PROVE SetupInv'
  BY DEF SetupInv
<1> DEFINE Same == UNCHANGED <<card_state, cid, csd, card_hs, card_wide, host_bus>>
<1> DEFINE Fresh == {"CARD_CMD0", "CARD_CMD0_POLL", "CARD_EMMC_TIMEOUT", "CARD_CMD1_START",
                     "CARD_CMD1_POLL", "CARD_CMD1_CHECK", "CARD_CMD2_START", "CARD_CMD2_POLL"}
<1>n. ASSUME card_state' \in Fresh PROVE SetupInv'
  BY <1>n DEF SetupInv, CidStates, CsdStates, HsStates, WideStates, BusStates
<1>1. CASE CmdInitMmc
  BY <1>1, <1>n DEF CmdInitMmc, Restart
<1> SUFFICES ASSUME ~CmdInitMmc PROVE SetupInv'
  BY <1>1
<1>u. undisturbed /\ CleanNext
  BY OnlyClean
<1>d. undisturbed /\ Same /\ int_status' \subseteq int_status => SetupInv'
  BY DEF SetupInv
<1> HIDE DEF Same
<1>2. CASE NoCommand \/ ResetTask \/ InitIdle \/ SmcStart \/ SmcWait \/ TimerTick \/ UNCHANGED vars
  BY <1>2, <1>d, <1>u DEF NoCommand, ResetTask, InitIdle, SmcStart, SmcWait, TimerTick,
     vars, initVars, idVars, regVars, cmdVars, cardVars, Same
<1>3. CASE ControllerOpen
  <2>1. card_state' = "CARD_CMD0"
    BY <1>3 DEF ControllerOpen, SpiFreq, SpiConfig, SanitySlow, SanityDelay, SanityFast,
                ClockStart, ClockWait, IntEnable, CtrlTurn, InitTurn, StateInv
  <2> QED
    BY <2>1, <1>n
<1>4. CASE CardInit
  <2>f. UNCHANGED <<card_hs, card_wide>> /\ phase = "PHASE_CARD_INIT"
    BY <1>4 DEF CardInit, CardStart, Cmd0Poll, EmmcTimeout, Cmd1Poll, Cmd1Check, CmdPoll,
       XferPoll,
         HostCtrl1, FinalClockStart, FinalClockPoll, CardTurn, InitTurn, cardVars
  <2>a. Answers
    BY <1>4, <1>u, AccessClean
  <2>1. CASE CardStart
    <3>1. card_state \in DOMAIN Begins /\ card_state' = Successor[card_state] /\ int_status' = {}
          /\ UNCHANGED <<cid, csd, host_bus>>
      BY <2>a, <2>1 DEF CardStart, CardTurn, Advance, Send, idVars, regVars
    <3> QED
      BY <1>u, <2>f, <3>1 DEF SetupInv, Begins, Successor, CidStates, CsdStates, HsStates,
         WideStates, BusStates
  <2>2. CASE Cmd0Poll \/ EmmcTimeout \/ Cmd1Poll \/ Cmd1Check
    <3>1. card_state' \in Fresh
      BY <2>2 DEF Cmd0Poll, EmmcTimeout, Cmd1Poll, Cmd1Check, Cmd1Again, CardTurn,
         Advance, Successor
    <3> QED
      BY <3>1, <1>n
  <2>3. CASE CmdPoll
    <3>1. card_state \in CmdPolls /\ host_bus' = host_bus
      BY <2>3 DEF CmdPoll, CardPoll, CardTurn, regVars
    <3>2. CASE "ERROR" \in int_status \/ "CMD_COMPLETE" \notin int_status
      BY <1>d, <1>u, <2>a, <2>f, <2>3, <3>1, <3>2, CardPollSees DEF CmdPoll, Same
    <3>3. CASE "ERROR" \notin int_status /\ "CMD_COMPLETE" \in int_status
      <4>1. card_state' = Successor[card_state] /\ int_status' = int_status \ {"CMD_COMPLETE"}
            /\ (cid \/ card_state = "CARD_CMD2_POLL" => cid')
            /\ (csd \/ card_state = "CARD_CMD9_POLL" => csd')
        BY <2>a, <2>3, <3>3, CardPollSees DEF CmdPoll
      <4>2. CASE card_state \in {"CARD_CMD2_POLL", "CARD_CMD3_POLL", "CARD_CMD9_POLL", "CARD_CMD7_POLL"}
        BY <1>u, <2>f, <3>1, <4>1, <4>2 DEF SetupInv, Successor, CidStates, CsdStates, HsStates,
           WideStates, BusStates
      <4>3. CASE card_state \in {"CARD_SWITCH_HS_CMD_POLL", "CARD_SWITCH_BW_CMD_POLL", "CARD_CMD16_POLL"}
        BY <1>u, <2>f, <3>1, <3>3, <4>1, <4>3 DEF SetupInv, Successor, CidStates, CsdStates,
           HsStates, WideStates, BusStates
      <4> QED
        BY <3>1, <4>2, <4>3 DEF CmdPolls
    <3> QED
      BY <3>2, <3>3
  <2>4. CASE XferPoll
    <3>1. card_state \in XferPolls /\ host_bus' = host_bus
      BY <2>4 DEF XferPoll, CardPoll, CardTurn, regVars
    <3>2. CASE "ERROR" \in int_status \/ "XFER_COMPLETE" \notin int_status
      BY <1>d, <1>u, <2>a, <2>f, <2>4, <3>1, <3>2, CardPollSees DEF XferPoll, Same
    <3>3. CASE "ERROR" \notin int_status /\ "XFER_COMPLETE" \in int_status
      <4>1. card_state' = Successor[card_state] /\ (cid => cid') /\ (csd => csd')
        BY <2>a, <2>4, <3>3, CardPollSees DEF XferPoll
      <4> QED
        BY <1>u, <2>f, <3>1, <4>1 DEF SetupInv, XferPolls, Successor, CidStates, CsdStates,
           HsStates, WideStates, BusStates
    <3> QED
      BY <3>2, <3>3
  <2>5. CASE HostCtrl1
    <3>0. host_bus'
      BY <2>a, <2>5, Zenon DEF HostCtrl1
    <3>0a. card_state \in {"CARD_HOST_CTRL1"} /\ Advance /\ UNCHANGED idVars
      BY <2>5, Zenon DEF HostCtrl1, CardTurn
    <3>1. card_state = "CARD_HOST_CTRL1" /\ card_state' = "CARD_CMD16_START"
          /\ host_bus' /\ UNCHANGED <<cid, csd>>
      BY <3>0, <3>0a DEF Advance, Successor, idVars
    <3> QED
      BY <1>u, <2>f, <3>1 DEF SetupInv, CidStates, CsdStates, HsStates, WideStates, BusStates
  <2>6. CASE FinalClockStart
    <3>1. card_state = "CARD_FINAL_CLOCK_START" /\ card_state' = "CARD_FINAL_CLOCK_POLL"
          /\ UNCHANGED <<cid, csd, host_bus>>
      BY <2>6 DEF FinalClockStart, ClockBegin, CardTurn, Advance, Successor, idVars
    <3> QED
      BY <1>u, <2>f, <3>1 DEF SetupInv, CidStates, CsdStates, HsStates, WideStates, BusStates
  <2>7. CASE FinalClockPoll
    BY <1>d, <1>u, <2>f, <2>7 DEF FinalClockPoll, Done, ClockSet, idVars, cmdVars, regVars, Same
  <2> QED
    BY <1>4, <2>1, <2>2, <2>3, <2>4, <2>5, <2>6, <2>7 DEF CardInit
<1>5. CASE CardExec
  <2>f. UNCHANGED <<card_state, phase, cid, csd, host_bus>>
        /\ (running # "CMD0" /\ (card_hs \/ running = "SWITCH_HS") => card_hs')
        /\ (running # "CMD0" /\ (card_wide \/ running = "SWITCH_BW") => card_wide')
        /\ running \notin {"none", "busy"} /\ int_status = {}
    BY <1>5, <1>u DEF CardExec, CommandOnBus, CardUnchanged, initVars, idVars, regVars, CommandInv
  <2>1. CASE phase \notin {"PHASE_CARD_INIT", "PHASE_DONE"}
    BY <1>n, <2>f, <2>1 DEF StateInv, TypeOK
  <2>2. CASE card_state \notin DOMAIN Polled /\ phase \in {"PHASE_CARD_INIT", "PHASE_DONE"}
    <3>1. card_state \in CardStates
      BY DEF TypeOK
    <3>2. card_state = "CARD_CMD0"
      BY <1>u, <2>f, <2>2, <3>1 DEF CommandInv, PollInv, Polled, CardStates, Successor, Begins,
         XferPolls
    <3> QED
      BY <1>n, <2>f, <3>2
  <2>3. CASE card_state \in DOMAIN Polled /\ phase \in {"PHASE_CARD_INIT", "PHASE_DONE"}
    <3>1. Polled[card_state] = running
      BY <1>u, <2>f, <2>3 DEF PollInv
    <3> QED
      BY <1>u, <2>f, <2>3, <3>1 DEF SetupInv, Polled, CidStates, CsdStates, HsStates,
         WideStates, BusStates
  <2> QED
    BY <2>1, <2>2, <2>3
<1>6. CASE CardSilent \/ SwitchDone \/ PowerUp \/ ClockStable
  <2>1. Same /\ ("CMD_COMPLETE" \in int_status' => "CMD_COMPLETE" \in int_status)
    BY <1>6 DEF CardSilent, SwitchDone, PowerUp, ClockStable, CardUnchanged, Latch,
                initVars, idVars, regVars, cmdVars, cardVars, Same
  <2> QED
    BY <1>u, <2>1 DEF Same, SetupInv
<1> QED
  BY <1>u, <1>2, <1>3, <1>4, <1>5, <1>6 DEF CleanNext

-----------------------------------------------------------------------------
(* The theorems.                                                           *)

\* The invariant holds at the start: the controller and the card fresh or used.
LEMMA InitIInv == ASSUME Init PROVE IInv
<1>u. PICK used \in BOOLEAN :
        /\ SmcUp(IF used THEN "debug" ELSE "normal")
        /\ read_state \in {"none"} \union (IF used THEN LeftReads ELSE {})
        /\ abort_state \in {"none"} \union (IF used THEN LeftAborts ELSE {})
        /\ read_free \in IF read_state = "none" THEN {0} ELSE 0 .. 1
        /\ undisturbed = NothingLeft /\ intrusions = (IF NothingLeft THEN 0 ELSE 1)
        /\ running = OnBus
        /\ int_en = used /\ clk = (IF used THEN "stable" ELSE "off")
        /\ sd_clk = (IF used THEN "fast" ELSE "off") /\ host_bus = used
        /\ card = (IF used THEN "tran" ELSE "idle")
        /\ card_hs = used /\ card_wide = used
        /\ int_status \in IF used THEN {{}, {"CMD_COMPLETE", "ERROR"}} ELSE {{}}
  BY Zenon DEF Init
<1>b. undisturbed => NothingLeft /\ running = "none"
  BY <1>u DEF NothingLeft, OnBus
<1>1. TypeOK
  <2>1. SmcTypeOK
    BY <1>u, SmcInitType
  <2>2. /\ int_en \in BOOLEAN /\ host_bus \in BOOLEAN /\ undisturbed \in BOOLEAN
        /\ card_hs \in BOOLEAN /\ card_wide \in BOOLEAN /\ cid \in BOOLEAN /\ csd \in BOOLEAN
        /\ powered \in BOOLEAN /\ card_ready \in BOOLEAN
    BY <1>u, Zenon DEF Init, NothingLeft
  <2>3. int_status \subseteq {"CMD_COMPLETE", "BUF_READ_READY", "XFER_COMPLETE", "ERROR"}
        /\ clk \in {"off", "starting", "stable"} /\ sd_clk \in {"off", "slow", "fast"}
        /\ card \in {"idle", "ready", "ident", "stby", "tran"}
    BY <1>u
  <2>4. inits \in 0 .. MaxInits /\ troubles \in 0 .. MaxTroubles /\ intrusions \in 0 .. MaxIntrusions
        /\ sanity_retries \in 0 .. MaxRetries + 1 /\ delay_start \in 0 .. TimerMod - 1
    BY <1>u, SmcAssumption, InitAssumption DEF Init, SmcAssumption, InitAssumption
  <2>5. ctrl_state \in CtrlStates /\ card_state \in CardStates
    BY DEF Init, CtrlStates, CardStates, Successor
  <2>6. read_state \in ReadStates \union {"none"} /\ abort_state \in AbortStates \union {"none"}
        /\ read_free \in 0 .. 1
    BY <1>u, InitAssumption DEF InitAssumption
  <2>7. running \in {"none", "busy", "data", "stop", "CMD0", "CMD12"} \union DOMAIN AcceptsIn
    BY <1>u DEF OnBus, AcceptsIn
  <2> QED
    BY <2>1, <2>2, <2>3, <2>4, <2>5, <2>6, <2>7 DEF Init, TypeOK
<1>2. ResetInv
  BY <1>u, <1>b DEF Init, SmcUp, ResetInv
<1>3. StateInv
  BY <1>u DEF Init, StateInv
<1>4. ClockInv
  BY <1>b DEF Init, ClockInv
<1>5. CommandInv /\ PollInv
  BY <1>b DEF Init, CommandInv, PollInv
<1>6. SetupInv
  BY DEF Init, SetupInv, CidStates, CsdStates, HsStates, WideStates, BusStates
<1> QED
  BY <1>1, <1>2, <1>3, <1>4, <1>5, <1>6 DEF IInv

\* Every step keeps it.
LEMMA IInvCorrect == Spec => []IInv
<1>1. Init => IInv
  BY InitIInv
<1>2. IInv /\ [Next]_vars => IInv'
  BY TypeStep, StateInvStep, ResetInvStep, ClockInvStep, CommandStep, SetupInvStep DEF IInv
<1> QED
  BY <1>1, <1>2, PTL DEF Spec

\* Every variable of the initialization keeps its type.
THEOREM InitTypeCorrect == Spec => []TypeOK
<1>1. IInv => TypeOK
  BY DEF IInv
<1> QED
  BY <1>1, IInvCorrect, PTL

\* MMC_DONE means that the card is in the transfer state and both ends of the bus
\* are set up alike, with CID and CSD just read and the SMC in debug mode, as long as
\* no CMD_RELEASE_MMC or CMD_RESET_SMC has come since and nothing was left running.
THEOREM ReadyCorrect == Spec => []ReadyMeansReady
<1>1. IInv => ReadyMeansReady
  <2> SUFFICES ASSUME IInv, status = "MMC_DONE", undisturbed PROVE ReadyMeansReady
    BY DEF ReadyMeansReady
  <2>1. phase = "PHASE_DONE" /\ card_state = "CARD_FINAL_CLOCK_POLL"
        /\ ctrl_state = "CTRL_INT_ENABLE" /\ spi_freq = "fast"
    BY DEF IInv, StateInv
  <2>2. card = "tran" /\ sd_clk = "fast" /\ int_en /\ smc = "debug"
    BY <2>1 DEF IInv, CommandInv, ClockInv, ResetInv
  <2>3. cid /\ csd /\ card_hs /\ card_wide /\ host_bus
    BY <2>1 DEF IInv, SetupInv, CidStates, CsdStates, HsStates, WideStates, BusStates
  <2> QED
    BY <2>1, <2>2, <2>3 DEF ReadyMeansReady
<1> QED
  BY <1>1, IInvCorrect, PTL

\* In an undisturbed initialization no command reaches the card in a state that
\* refuses it, and no clock is too fast for the card, whatever the state in which an
\* earlier one was broken off or disturbed.
THEOREM RespectCorrect == Spec => []CardRespected
<1>1. IInv => CardRespected
  <2> SUFFICES ASSUME IInv, undisturbed PROVE CardRespected
    BY DEF CardRespected
  <2>1. phase \in {"PHASE_CARD_INIT", "PHASE_DONE"} /\ sd_clk = "fast" => card_hs
    BY DEF IInv, StateInv, ClockInv, SetupInv, HsStates, WideStates, BusStates
  <2> QED
    BY <2>1 DEF IInv, CommandInv, ClockInv, CommandOnBus, CardRespected
<1> QED
  BY <1>1, IInvCorrect, PTL

\* While the controller and the card are set up undisturbed the SMC is up in debug mode
\* and the reset leaves the pin alone, also after a reset that was in the way has ended;
\* and each sanity check is made at its own SPI clock, disturbed or not.
THEOREM AccessCorrect == Spec => []AccessSound
<1>1. IInv => AccessSound
  BY DEF IInv, TypeOK, ResetInv, StateInv, AccessSound
<1> QED
  BY <1>1, IInvCorrect, PTL
=============================================================================
