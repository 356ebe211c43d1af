------------------------------ MODULE SmcTimer ------------------------------
(***************************************************************************)
(* The reset of SmcReset on the CH32V305 with the microsecond timer of     *)
(* src/ch32v305/pins.c that it reads: a hardware counter of a few bits,    *)
(* and timer_high, to which the overflow interrupt adds its range.         *)
(* timer_us reads one after the other and begins again if an overflow came *)
(* between, while the counter goes on.                                     *)
(*                                                                         *)
(* Here "now" is the time that really is, of which the counter is the low  *)
(* part, and reset_smc_task works with the time it was told.               *)
(*                                                                         *)
(* Assumed of the hardware: the overflow interrupt is taken before more    *)
(* than IsrDelay of the loads of timer_us, and before the next overflow.   *)
(***************************************************************************)
EXTENDS SmcReset

CONSTANTS
  Half,          \* values of TIM6->CNT: 65536
  IsrDelay       \* loads of the main loop after an overflow before its interrupt

ASSUME TimerAssumption ==
  /\ Platform = "ch32v305"
  /\ Half \in Nat \ {0} /\ TimerMod % Half = 0 /\ IsrDelay \in Nat

VARIABLES
  timer_high,
  UIF,           \* the overflow interrupt is pending
  late,          \* loads since it is
  rd,            \* where timer_us is: "out", "high", "low", "check" or "returned"
  hi, lo,
  seen           \* history: what the time was since timer_us was called

timerVars == <<timer_high, UIF, late, rd, hi, lo, seen>>

TimerInit ==
  /\ SmcInit
  /\ timer_high = 0 /\ UIF = FALSE /\ late = 0
  /\ rd = "out" /\ hi = 0 /\ lo = 0 /\ seen = {}

CNT == now % Half

-----------------------------------------------------------------------------
(* timer_us, one load at a time.                                           *)

Call ==
  /\ rd = "out" /\ rd' = "high" /\ seen' = {now}
  /\ reset_smc_en /\ smc_task \in {"START_TIMER", "WAIT_TIMER"}
  /\ UNCHANGED <<smcVars, timer_high, UIF, late, hi, lo>>

Load(from, to) ==
  /\ rd = from /\ rd' = to
  /\ UIF => late < IsrDelay
  /\ late' = IF UIF THEN late + 1 ELSE 0
  /\ UNCHANGED <<smcVars, timer_high, UIF, seen>>

ReadHigh == Load("high", "low") /\ hi' = timer_high /\ UNCHANGED lo

ReadLow == Load("low", "check") /\ lo' = CNT /\ UNCHANGED hi

SameUnchecked == TRUE

Same == hi = timer_high

Recheck == Load("check", IF Same THEN "returned" ELSE "high") /\ UNCHANGED <<hi, lo>>

Us == Wrap(hi + lo)

TIM6_IRQHandler ==
  /\ UIF /\ UIF' = FALSE /\ late' = 0
  /\ timer_high' = Wrap(timer_high + Half)
  /\ UNCHANGED <<smcVars, rd, hi, lo, seen>>

Count ==
  /\ Tick
  /\ UIF' = (UIF \/ now' % Half = 0) /\ (UIF => now' % Half # 0)
  /\ seen' = IF rd \in {"out", "returned"} THEN seen ELSE seen \union {now'}
  /\ UNCHANGED <<timer_high, late, rd, hi, lo>>

-----------------------------------------------------------------------------
(* The main loop.                                                          *)

Told == INSTANCE SmcReset WITH now <- Us

TimedTurn ==
  /\ rd = "returned" /\ rd' = "out" /\ seen' = {}
  /\ UNCHANGED <<now, timer_high, UIF, late, hi, lo>>
  /\ Told!StartTimer \/ Told!WaitTimer

OtherTurn ==
  /\ rd = "out" /\ ~UIF
  /\ TaskIdle \/ AssertRst \/ DeassertRst
  /\ UNCHANGED timerVars

NewRequest == rd = "out" /\ (\E dbg \in BOOLEAN : Request(dbg)) /\ UNCHANGED timerVars

Loop == Call \/ ReadHigh \/ ReadLow \/ Recheck \/ TimedTurn \/ OtherTurn

TimerNext == Loop \/ NewRequest \/ TIM6_IRQHandler \/ Count

TimerSpec == TimerInit /\ [][TimerNext]_<<smcVars, timerVars>>

\* The main loop and the counter never stop, and interrupts are taken.
FairTimerSpec == TimerSpec /\ WF_<<smcVars, timerVars>>(Loop) /\ WF_<<smcVars, timerVars>>(Count)
                           /\ WF_<<smcVars, timerVars>>(TIM6_IRQHandler)

-----------------------------------------------------------------------------
(* Properties.                                                             *)

\* What timer_us returns was the time at some moment between its call and its
\* return, although it reads the two halves one after the other: no reader ever
\* sees the time jump by a whole range of the counter.
TimerReadsTime == rd = "returned" => Us \in seen
=============================================================================
