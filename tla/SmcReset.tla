------------------------------ MODULE SmcReset ------------------------------
(***************************************************************************)
(* The reset of the console's southbridge, the SMC (reset_smc_request and  *)
(* reset_smc_task of src/ch32v305/spi_reg.c and src/rp2040/spi_reg.c).     *)
(* The SMC samples the pin SPI_SS_N when its reset line is released: low   *)
(* brings it up in debug mode, the only mode in which it answers on SPI.   *)
(*                                                                         *)
(* reset_smc_task takes one step per turn of the main loop; between two    *)
(* turns the microsecond timer goes on, at most MaxGap ticks of it, and    *)
(* wraps around at TimerMod.                                               *)
(***************************************************************************)
EXTENDS Naturals

CONSTANTS
  Platform,      \* which of the two spi_reg.c is linked
  TimerMod,      \* values of time_us_32: 2^32
  HoldUs,        \* SMC_RST_HOLD_US
  MaxGap,        \* ticks between two turns of reset_smc_task
  Overlap        \* whether a reset may be requested while one is going on

ASSUME SmcAssumption ==
  /\ Platform \in {"ch32v305", "rp2040"}
  /\ TimerMod \in Nat /\ HoldUs \in Nat \ {0} /\ MaxGap \in Nat \ {0}
  /\ HoldUs + MaxGap < TimerMod
  /\ Overlap \in BOOLEAN

VARIABLES
  reset_smc_en, reset_smc_dbg,
  smc_task,      \* the static variable state of reset_smc_task
  wait_start,
  ss,            \* the GPIO output of SPI_SS_N
  ss_sio,        \* RP2040: whether the pin is taken from the PIO
  smc,           \* the SMC: held in reset, or the mode it came up in
  now,           \* time_us_32()
  gap,           \* ticks since the last turn of the main loop
  held           \* ticks the reset line has been low, counted up to HoldUs

ctrlVars == <<reset_smc_en, reset_smc_dbg>>
taskVars == <<smc_task, wait_start>>
pinVars  == <<ss, ss_sio, smc>>
timeVars == <<now, gap, held>>
smcVars  == <<ctrlVars, taskVars, pinVars, timeVars>>

\* No reset is going on, and the SMC is up in one of its modes.
SmcUp(mode) ==
  /\ reset_smc_en = FALSE /\ reset_smc_dbg = (mode = "debug")
  /\ smc_task = "ASSERT_RST" /\ wait_start = 0
  /\ ss = "high" /\ ss_sio = FALSE /\ smc = mode
  /\ now = 0 /\ gap = 0 /\ held = 0

SmcInit == SmcUp("normal")

-----------------------------------------------------------------------------
(* The timer.                                                              *)

NextTime == IF now = TimerMod - 1 THEN 0 ELSE now + 1

Wrap(t) == IF t >= TimerMod THEN t - TimerMod ELSE t

\* The unsigned difference time_us_32() - since.
Elapsed(since) == IF now >= since THEN now - since ELSE now + TimerMod - since

ExpiredSum == now > Wrap(wait_start + HoldUs)

ExpiredExactly == Elapsed(wait_start) = HoldUs

\* The CH32V305 compares the difference, the RP2040 the sum.
Expired ==
  \/ Platform = "ch32v305" /\ Elapsed(wait_start) >= HoldUs
  \/ Platform = "rp2040" /\ now > Wrap(wait_start + HoldUs)

-----------------------------------------------------------------------------
(* The pin SPI_SS_N.                                                       *)

SsLow == ss = "low" /\ (Platform = "rp2040" => ss_sio)

KeepSs == UNCHANGED <<ss, ss_sio>>

\* Debug mode: drive the pin low before SMC_RST_N; the RP2040 takes it from
\* the PIO first.
AssertSs ==
  IF reset_smc_dbg
  THEN ss' = "low" /\ ss_sio' = (Platform = "rp2040")
  ELSE UNCHANGED <<ss, ss_sio>>

\* Debug mode: after SMC_RST_N, drive it high and hand it back.
DeassertSs ==
  IF reset_smc_dbg THEN ss' = "high" /\ ss_sio' = FALSE
                   ELSE UNCHANGED <<ss, ss_sio>>

ReleasedAs == IF SsLow THEN "debug" ELSE "normal"

-----------------------------------------------------------------------------
(* reset_smc_request, from CMD_INIT_MMC (debug) and CMD_RELEASE_MMC.       *)

SetRequest(dbg) == reset_smc_en' = TRUE /\ reset_smc_dbg' = dbg

Request(dbg) ==
  /\ Overlap \/ ~reset_smc_en
  /\ SetRequest(dbg)
  /\ UNCHANGED <<taskVars, pinVars, timeVars>>

(* reset_smc_task, one action per case of the switch.                      *)

SmcTurn(s) == reset_smc_en /\ smc_task = s /\ gap' = 0 /\ UNCHANGED now

TaskIdle ==
  /\ ~reset_smc_en
  /\ gap' = 0
  /\ UNCHANGED <<ctrlVars, taskVars, pinVars, now, held>>

AssertRst ==
  /\ SmcTurn("ASSERT_RST")
  /\ AssertSs
  /\ smc' = "reset" /\ held' = 0
  /\ smc_task' = "START_TIMER"
  /\ UNCHANGED <<ctrlVars, wait_start>>

StartTimer ==
  /\ SmcTurn("START_TIMER")
  /\ wait_start' = now
  /\ smc_task' = "WAIT_TIMER"
  /\ UNCHANGED <<ctrlVars, pinVars, held>>

WaitTimer ==
  /\ SmcTurn("WAIT_TIMER")
  /\ smc_task' = IF Expired THEN "DEASSERT_RST" ELSE "WAIT_TIMER"
  /\ UNCHANGED <<ctrlVars, wait_start, pinVars, held>>

StayThere == UNCHANGED smc_task

BackToStart == smc_task' = "ASSERT_RST"

DeassertRst ==
  /\ SmcTurn("DEASSERT_RST")
  /\ smc' = ReleasedAs
  /\ DeassertSs
  /\ reset_smc_en' = FALSE
  /\ BackToStart
  /\ UNCHANGED <<reset_smc_dbg, wait_start, held>>

ResetSmcTask == TaskIdle \/ AssertRst \/ StartTimer \/ WaitTimer \/ DeassertRst

-----------------------------------------------------------------------------
(* What goes on beside it.                                                 *)

Tick ==
  /\ gap < MaxGap
  /\ now' = NextTime /\ gap' = gap + 1
  /\ held' = IF smc = "reset" /\ held < HoldUs THEN held + 1 ELSE held
  /\ UNCHANGED <<ctrlVars, taskVars, pinVars>>

SmcNext ==
  \/ \E dbg \in BOOLEAN : Request(dbg)
  \/ ResetSmcTask
  \/ Tick

SmcSpec == SmcInit /\ [][SmcNext]_smcVars

\* The main loop never stops and neither does the timer.
FairSmcSpec == SmcSpec /\ WF_smcVars(ResetSmcTask) /\ WF_smcVars(Tick)

-----------------------------------------------------------------------------
(* Properties.                                                             *)

\* Every variable has its type; the timer stays a 32-bit counter.  The reset line is
\* low while the task is on its way through its states and at no other time: a reset
\* that has ended leaves the static state where the next one begins.
SmcTypeOK ==
  /\ reset_smc_en \in BOOLEAN /\ reset_smc_dbg \in BOOLEAN
  /\ smc_task \in {"ASSERT_RST", "START_TIMER", "WAIT_TIMER", "DEASSERT_RST"}
  /\ wait_start \in 0 .. TimerMod - 1
  /\ ss \in {"high", "low"} /\ ss_sio \in BOOLEAN
  /\ smc \in {"reset", "debug", "normal"}
  /\ now \in 0 .. TimerMod - 1 /\ gap \in 0 .. MaxGap /\ held \in 0 .. HoldUs
  /\ smc = "reset" <=> smc_task # "ASSERT_RST"
  /\ smc = "reset" => reset_smc_en

\* The SMC is never released before its reset line has been low for
\* SMC_RST_HOLD_US, wherever in its range the timer was when the wait began.
HeldLongEnough == [][smc = "reset" /\ smc' # "reset" => held = HoldUs]_smcVars

\* When reset_smc_done says so, the SMC is in the mode last requested.
ModeAsRequested ==
  ~reset_smc_en => smc = IF reset_smc_dbg THEN "debug" ELSE "normal"

\* When no reset is going on the pin is deselected and back with the SPI.
BusGivenBack == ~reset_smc_en => ss = "high" /\ ~ss_sio

\* A requested reset comes to its end: mmc_init_task waits for it.
ResetEnds == reset_smc_en ~> ~reset_smc_en
=============================================================================
