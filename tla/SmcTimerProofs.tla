--------------------------- MODULE SmcTimerProofs ---------------------------
(***************************************************************************)
(* What SmcTimer promises, for every range of the counter and of the time. *)
(* The invariant follows the time a call of timer_us can still return: the *)
(* distance of the high part it holds from the time now, compared with     *)
(* what the counter and a pending overflow account for.  It also ties the  *)
(* measured hold time to the real one through every time seen by the call. *)
(***************************************************************************)
EXTENDS SmcTimer, TLAPS, Integers

-----------------------------------------------------------------------------
(* The reset without the timer.                                            *)

\* The types hold at the start.
LEMMA SmcInitType == ASSUME SmcInit PROVE SmcTypeOK
<1>1. reset_smc_en \in BOOLEAN /\ reset_smc_dbg \in BOOLEAN /\ ss_sio \in BOOLEAN
  BY Zenon DEF SmcInit, SmcUp
<1>2. wait_start \in 0 .. TimerMod - 1 /\ gap \in 0 .. MaxGap /\ held \in 0 .. HoldUs
  BY SmcAssumption DEF SmcAssumption, SmcInit, SmcUp
<1> QED
  BY <1>1, <1>2 DEF SmcInit, SmcUp, SmcTypeOK

\* Every step keeps them.
LEMMA SmcTypeStep == ASSUME SmcTypeOK, [SmcNext]_smcVars PROVE SmcTypeOK'
<1> USE SmcAssumption DEF SmcAssumption, SmcTypeOK, ctrlVars, taskVars, pinVars, timeVars
<1>1. ASSUME NEW dbg \in BOOLEAN, Request(dbg) PROVE SmcTypeOK'
  BY <1>1 DEF Request, SetRequest
<1>2. CASE TaskIdle
  BY <1>2 DEF TaskIdle
<1>3. CASE AssertRst
  <2>1. ss_sio' \in BOOLEAN /\ ss' \in {"high", "low"}
    BY <1>3, Zenon DEF AssertRst, AssertSs
  <2>2. held' \in 0 .. HoldUs /\ gap' \in 0 .. MaxGap
    BY <1>3 DEF AssertRst, SmcTurn
  <2> QED
    BY <1>3, <2>1, <2>2 DEF AssertRst, SmcTurn
<1>4. CASE StartTimer
  BY <1>4 DEF StartTimer, SmcTurn
<1>5. CASE WaitTimer
  BY <1>5 DEF WaitTimer, SmcTurn
<1>6. CASE DeassertRst
  <2>1. reset_smc_en' \in BOOLEAN /\ ss_sio' \in BOOLEAN /\ ss' \in {"high", "low"}
    BY <1>6, Zenon DEF DeassertRst, DeassertSs
  <2>2. gap' \in 0 .. MaxGap
    BY <1>6 DEF DeassertRst, BackToStart, SmcTurn
  <2> QED
    BY <1>6, <2>1, <2>2 DEF DeassertRst, BackToStart, SmcTurn, ReleasedAs
<1>7. CASE Tick
  BY <1>7 DEF Tick, NextTime
<1>8. CASE UNCHANGED smcVars
  BY <1>8 DEF smcVars
<1> QED
  BY <1>1, <1>2, <1>3, <1>4, <1>5, <1>6, <1>7, <1>8
  DEF SmcNext, ResetSmcTask

\* From ASSERT_RST to DEASSERT_RST of a debug reset the pin is low, and taken
\* from the PIO on the RP2040; at any other time it is high and given back.
PinInv ==
  /\ smc_task # "ASSERT_RST" => reset_smc_en
  /\ smc_task # "ASSERT_RST" /\ reset_smc_dbg
       => ss = "low" /\ (ss_sio <=> Platform = "rp2040")
  /\ smc_task = "ASSERT_RST" \/ ~reset_smc_dbg => ss = "high" /\ ~ss_sio

\* PinInv is kept when resets do not overlap.
LEMMA PinInvStep ==
  ASSUME ~Overlap, SmcTypeOK, PinInv, ModeAsRequested, [SmcNext]_smcVars
  PROVE  PinInv' /\ ModeAsRequested'
<1> USE SmcAssumption DEF SmcAssumption, SmcTypeOK, PinInv, ModeAsRequested,
                          ctrlVars, taskVars, pinVars, timeVars
<1>1. ASSUME NEW dbg \in BOOLEAN, Request(dbg) PROVE PinInv' /\ ModeAsRequested'
  BY <1>1 DEF Request, SetRequest
<1>2. CASE TaskIdle
  BY <1>2 DEF TaskIdle
<1>3. CASE AssertRst
  BY <1>3 DEF AssertRst, SmcTurn, AssertSs
<1>4. CASE StartTimer
  BY <1>4 DEF StartTimer, SmcTurn
<1>5. CASE WaitTimer
  BY <1>5 DEF WaitTimer, SmcTurn
<1>6. CASE DeassertRst
  BY <1>6 DEF DeassertRst, BackToStart, SmcTurn, DeassertSs, ReleasedAs, SsLow
<1>7. CASE Tick
  BY <1>7 DEF Tick
<1>8. CASE UNCHANGED smcVars
  BY <1>8 DEF smcVars
<1> QED
  BY <1>1, <1>2, <1>3, <1>4, <1>5, <1>6, <1>7, <1>8 DEF SmcNext, ResetSmcTask

-----------------------------------------------------------------------------
(* Division.                                                               *)

\* The remainder and the quotient.
LEMMA Division ==
  ASSUME NEW n \in Nat, NEW h \in Nat \ {0}
  PROVE  n % h \in 0 .. h - 1 /\ n % h <= n /\ n \div h \in Int /\ n = h * (n \div h) + (n % h)
OBVIOUS

\* A positive multiple is not below the factor.
LEMMA Multiple == ASSUME NEW h \in Nat \ {0}, NEW a \in Int, a > 0 PROVE h * a >= h
OBVIOUS

\* A number has one remainder.
LEMMA Unique ==
  ASSUME NEW h \in Nat \ {0}, NEW q \in Int, NEW p \in Int,
         NEW r \in 0 .. h - 1, NEW s \in 0 .. h - 1, h * q + r = h * p + s
  PROVE  r = s
<1>1. h * (q - p) = s - r
  OBVIOUS
<1>2. CASE q > p
  <2>1. h * (q - p) >= h
    BY <1>2, Multiple
  <2> QED
    BY <1>1, <2>1
<1>3. CASE p > q
  <2>1. h * (p - q) >= h
    BY <1>3, Multiple
  <2>2. h * (p - q) = r - s
    OBVIOUS
  <2> QED
    BY <2>1, <2>2
<1>4. CASE p = q
  BY <1>4
<1> QED
  BY <1>2, <1>3, <1>4

\* What a tick does to the low part of a counter.
LEMMA Successor ==
  ASSUME NEW n \in Nat, NEW h \in Nat \ {0}
  PROVE  (n + 1) % h = IF n % h = h - 1 THEN 0 ELSE (n % h) + 1
<1> DEFINE q == n \div h
           r == n % h
           p == (n + 1) \div h
           s == (n + 1) % h
<1>1. r \in 0 .. h - 1 /\ q \in Int /\ n = h * q + r
  BY Division
<1>2. s \in 0 .. h - 1 /\ p \in Int /\ n + 1 = h * p + s
  BY Division
<1> HIDE DEF q, r, p, s
<1>3. CASE r = h - 1
  <2>1. h * (q + 1) + 0 = h * p + s
    BY <1>1, <1>2, <1>3
  <2>2. 0 = s
    BY <1>1, <1>2, <2>1, Unique
  <2> QED
    BY <1>3, <2>2 DEF r, s
<1>4. CASE r # h - 1
  <2>1. h * q + (r + 1) = h * p + s /\ r + 1 \in 0 .. h - 1
    BY <1>1, <1>2, <1>4
  <2>2. r + 1 = s
    BY <1>1, <1>2, <2>1, Unique
  <2> QED
    BY <1>4, <2>2 DEF r, s
<1> QED
  BY <1>3, <1>4

\* A range that divides the whole fits between the last multiple and the end.
LEMMA Fits ==
  ASSUME NEW h \in Nat \ {0}, NEW t \in Nat, t % h = 0, NEW n \in 0 .. t - 1
  PROVE  n - (n % h) + h <= t /\ (n = t - 1 => n % h = h - 1)
<1> DEFINE q == n \div h
           r == n % h
           p == t \div h
<1>1. r \in 0 .. h - 1 /\ q \in Int /\ n = h * q + r
  BY Division
<1>2. p \in Int /\ t = h * p
  BY Division
<1> HIDE DEF q, r, p
<1>3. p > q
  <2>1. CASE p <= q
    <3>1. h * (q - p) >= 0
      BY <1>1, <1>2, <2>1
    <3>2. h * (q - p) = n - r - t
      BY <1>1, <1>2
    <3> QED
      BY <1>1, <3>1, <3>2
  <2> QED
    BY <1>1, <1>2, <2>1
<1>4. h * (p - q) >= h
  BY <1>1, <1>2, <1>3, Multiple
<1>5. h * (p - q) = t - (n - r)
  BY <1>1, <1>2
<1>6. n - r + h <= t /\ (n = t - 1 => r = h - 1)
  BY <1>1, <1>2, <1>4, <1>5
<1> QED
  BY <1>6 DEF r

-----------------------------------------------------------------------------
(* The invariant.                                                          *)

\* The unsigned difference s - a.
Between(a, s) == IF s >= a THEN s - a ELSE s + TimerMod - a

\* What the pending overflow still has to add to timer_high.
Pending == IF UIF THEN Half ELSE 0

TimerTypes ==
  /\ SmcTypeOK
  /\ timer_high \in 0 .. TimerMod - 1 /\ hi \in 0 .. TimerMod - 1
  /\ timer_high + Half <= TimerMod /\ hi + Half <= TimerMod
  /\ lo \in 0 .. Half - 1
  /\ UIF \in BOOLEAN /\ late \in Nat
  /\ rd \in {"out", "high", "low", "check", "returned"}
  /\ seen \subseteq 0 .. TimerMod - 1

\* timer_high is behind the time by the counter and the pending overflow.
HighInv == Between(timer_high, now) = CNT + Pending

\* A call of timer_us is part of a turn, and is no longer than the turn.
CallInv ==
  /\ rd = "out" => seen = {}
  /\ rd # "out" => reset_smc_en /\ smc_task \in {"START_TIMER", "WAIT_TIMER"}
  /\ rd \in {"high", "low", "check"} => now \in seen
  /\ \A s \in seen : Between(s, now) <= gap

\* A high part that is behind by more than the counter and the pending overflow
\* is found out by the recheck; one that is not, with the low part, was a time.
ReadInv ==
  /\ rd \in {"low", "check"} => CNT + Pending <= Between(hi, now) /\ Between(hi, now) < 2 * Half + gap
  /\ rd = "check" => \/ CNT + Pending < Between(hi, now)
                     \/ Us \in seen
                     \/ UIF /\ late > 0
  /\ rd = "returned" => Us \in seen

\* What the task has measured, or will measure with the time it is being told,
\* is no more than the line has been low.
HeldInv ==
  /\ smc_task = "ASSERT_RST" <=> smc # "reset"
  /\ smc_task = "START_TIMER" => held = HoldUs \/ gap <= held
  /\ smc_task = "WAIT_TIMER" => \/ held = HoldUs
                                \/ \A s \in seen \union {now} : Between(wait_start, s) <= held
  /\ smc_task = "DEASSERT_RST" => held = HoldUs

TimerInv == TimerTypes /\ HighInv /\ CallInv /\ ReadInv /\ HeldInv

\* The interrupt comes within a load, and a turn of the main loop is shorter than
\* the range of the timer by two ranges of the counter.
Prompt == IsrDelay <= 1 /\ MaxGap + 2 * Half <= TimerMod

-----------------------------------------------------------------------------
(* The counter and the time.                                               *)

\* The counter is the low part of the time.
LEMMA CntType ==
  ASSUME TimerTypes
  PROVE  /\ CNT \in 0 .. Half - 1 /\ CNT <= now /\ Pending \in {0, Half}
         /\ (now - CNT) + Half <= TimerMod
         /\ (now = TimerMod - 1 => CNT = Half - 1)
<1>1. now \in 0 .. TimerMod - 1 /\ now \in Nat /\ TimerMod \in Nat
      /\ Half \in Nat \ {0} /\ TimerMod % Half = 0
  BY SmcAssumption, TimerAssumption
  DEF SmcAssumption, TimerAssumption, TimerTypes, SmcTypeOK
<1>2. CNT \in 0 .. Half - 1 /\ CNT <= now
  BY <1>1, Division DEF CNT
<1>3. (now - CNT) + Half <= TimerMod /\ (now = TimerMod - 1 => CNT = Half - 1)
  BY <1>1, Fits DEF CNT
<1> QED
  BY <1>2, <1>3 DEF Pending

\* A tick takes the counter with its pending overflow one further.
LEMMA CntStep ==
  ASSUME TimerTypes, Count
  PROVE  /\ (CNT + Pending)' = CNT + Pending + 1
         /\ UIF => UIF'
<1>1. now \in 0 .. TimerMod - 1 /\ now \in Nat /\ TimerMod \in Nat /\ Half \in Nat \ {0}
  BY SmcAssumption, TimerAssumption
  DEF SmcAssumption, TimerAssumption, TimerTypes, SmcTypeOK
<1>2. CNT \in 0 .. Half - 1 /\ (now = TimerMod - 1 => CNT = Half - 1)
  BY CntType
<1>3. CNT' = IF CNT = Half - 1 THEN 0 ELSE CNT + 1
  <2>1. CASE now = TimerMod - 1
    <3>1. now' = 0
      BY <2>1 DEF Count, Tick, NextTime
    <3>2. 0 % Half = 0
      BY <1>1
    <3> QED
      BY <1>2, <2>1, <3>1, <3>2 DEF CNT
  <2>2. CASE now # TimerMod - 1
    <3>1. now' = now + 1
      BY <2>2 DEF Count, Tick, NextTime
    <3> QED
      BY <1>1, <3>1, Successor DEF CNT
  <2> QED
    BY <2>1, <2>2
<1>4. UIF' = (UIF \/ CNT' = 0) /\ (UIF => CNT' # 0)
  BY DEF Count, CNT
<1>5. UIF \in BOOLEAN
  BY DEF TimerTypes
<1>6. CASE CNT = Half - 1
  <2>1. CNT' = 0 /\ ~UIF /\ UIF'
    BY <1>3, <1>4, <1>5, <1>6
  <2> QED
    BY <1>1, <1>6, <2>1 DEF Pending
<1>7. CASE CNT # Half - 1
  <2>1. CNT' = CNT + 1 /\ (UIF' <=> UIF)
    BY <1>1, <1>2, <1>3, <1>4, <1>5, <1>7
  <2> QED
    BY <1>1, <1>2, <2>1 DEF Pending
<1> QED
  BY <1>6, <1>7

\* A tick adds one to the time measured from any point.
LEMMA SinceStep ==
  ASSUME TimerTypes, Tick, NEW s \in 0 .. TimerMod - 1, Between(s, now) < TimerMod - 1
  PROVE  Between(s, now') = Between(s, now) + 1
BY SmcAssumption DEF SmcAssumption, TimerTypes, SmcTypeOK, Tick, NextTime, Between

\* The time between two points.
LEMMA BetweenType ==
  ASSUME NEW s \in 0 .. TimerMod - 1, NEW t \in 0 .. TimerMod - 1
  PROVE  Between(s, t) \in 0 .. TimerMod - 1 /\ Between(s, s) = 0
BY SmcAssumption DEF SmcAssumption, Between

\* The time between two points grows by at most one in a tick.
LEMMA BetweenStep ==
  ASSUME TimerTypes, Tick
  PROVE  Between(wait_start, now') <= Between(wait_start, now) + 1
BY SmcAssumption DEF SmcAssumption, TimerTypes, SmcTypeOK, Tick, NextTime, Between

-----------------------------------------------------------------------------
(* One lemma for each part of the next-state relation.                     *)

\* The counter goes on.
LEMMA CountInv == ASSUME Prompt, TimerInv, Count PROVE TimerInv'
<1>c. /\ TimerMod \in Nat /\ Half \in Nat \ {0} /\ MaxGap \in Nat \ {0} /\ HoldUs \in Nat \ {0}
      /\ IsrDelay \in 0 .. 1 /\ MaxGap + 2 * Half <= TimerMod
  BY SmcAssumption, TimerAssumption DEF SmcAssumption, TimerAssumption, Prompt
<1> USE <1>c
<1>1. TimerTypes /\ Tick /\ CNT \in 0 .. Half - 1 /\ CNT <= now /\ Pending \in {0, Half}
  BY CntType DEF TimerInv, Count
<1>2. (CNT + Pending)' = CNT + Pending + 1 /\ (UIF => UIF')
  BY <1>1, CntStep
<1>3. UNCHANGED <<reset_smc_en, reset_smc_dbg, smc_task, wait_start, ss, ss_sio, smc>>
      /\ UNCHANGED <<timer_high, late, rd, hi, lo>>
      /\ gap < MaxGap /\ gap' = gap + 1
  BY <1>1 DEF Count, Tick, ctrlVars, taskVars, pinVars
<1>4. now \in 0 .. TimerMod - 1 /\ now' \in 0 .. TimerMod - 1 /\ gap \in 0 .. MaxGap
      /\ held \in 0 .. HoldUs /\ held' \in 0 .. HoldUs
  BY <1>1 DEF TimerTypes, SmcTypeOK, Tick, NextTime
<1>5. seen' = IF rd \in {"out", "returned"} THEN seen ELSE seen \union {now'}
  BY DEF Count
<1>6. TimerTypes'
  <2>1. UIF' \in BOOLEAN /\ reset_smc_en' \in BOOLEAN /\ reset_smc_dbg' \in BOOLEAN /\ ss_sio' \in BOOLEAN
    BY <1>1, <1>3, Zenon DEF TimerTypes, SmcTypeOK, Count
  <2>2. SmcTypeOK'
    BY <1>1, <1>3, <1>4, <2>1 DEF TimerTypes, SmcTypeOK
  <2>3. seen' \subseteq 0 .. TimerMod - 1
    BY <1>1, <1>4, <1>5 DEF TimerTypes
  <2> QED
    BY <1>1, <1>3, <2>1, <2>2, <2>3 DEF TimerTypes
<1>7. HighInv'
  <2>1. Between(timer_high, now) < TimerMod - 1
    BY <1>1 DEF TimerInv, HighInv
  <2>2. Between(timer_high, now') = Between(timer_high, now) + 1
    BY <1>1, <1>3, <2>1, SinceStep DEF TimerTypes
  <2>3. HighInv' <=> Between(timer_high', now') = (CNT + Pending)'
    BY DEF HighInv, Between
  <2> QED
    BY <1>2, <1>3, <2>2, <2>3 DEF TimerInv, HighInv
<1>8. CallInv'
  <2>1. ASSUME NEW s \in seen PROVE Between(s, now') <= gap'
    <3>1. s \in 0 .. TimerMod - 1 /\ Between(s, now) <= gap /\ Between(s, now) \in Int
      BY <1>1, <1>4, <2>1, BetweenType DEF TimerInv, CallInv, TimerTypes
    <3>2. Between(s, now') = Between(s, now) + 1
      BY <1>1, <1>3, <1>4, <3>1, SinceStep
    <3> QED
      BY <1>3, <1>4, <3>1, <3>2
  <2>2. Between(now', now') <= gap'
    BY <1>3, <1>4, BetweenType
  <2>3. \A s \in seen' : Between(s, now') <= gap'
    BY <1>5, <2>1, <2>2
  <2> QED
    BY <1>3, <1>5, <2>3 DEF TimerInv, CallInv, Between
<1>9. ReadInv'
  <2>1. CASE rd \in {"low", "check"}
    <3>1. CNT + Pending <= Between(hi, now) /\ Between(hi, now) < 2 * Half + gap
          /\ hi \in 0 .. TimerMod - 1 /\ Between(hi, now) \in Int
      BY <1>1, <1>4, <2>1, BetweenType DEF TimerInv, ReadInv, TimerTypes
    <3>2. Between(hi, now') = Between(hi, now) + 1
      BY <1>1, <1>3, <1>4, <3>1, SinceStep
    <3>3. (CNT + Pending)' <= Between(hi, now') /\ Between(hi, now') < 2 * Half + gap'
      BY <1>1, <1>2, <1>3, <1>4, <3>1, <3>2
    <3>4. CNT + Pending < Between(hi, now) => (CNT + Pending)' < Between(hi, now')
      BY <1>1, <1>2, <3>1, <3>2
    <3>5. Us' = Us
      BY <1>3 DEF Us, Wrap
    <3>6. rd = "check" => (CNT + Pending)' < Between(hi, now') \/ Us' \in seen' \/ (UIF' /\ late' > 0)
      BY <1>2, <1>3, <1>5, <3>4, <3>5 DEF TimerInv, ReadInv
    <3> QED
      BY <1>3, <2>1, <3>3, <3>6 DEF ReadInv
  <2>2. CASE rd \notin {"low", "check"}
    BY <1>3, <1>5, <2>2 DEF TimerInv, ReadInv, Us, Wrap
  <2> QED
    BY <2>1, <2>2
<1>10. HeldInv'
  <2>1. held' = IF smc = "reset" /\ held < HoldUs THEN held + 1 ELSE held
    BY <1>1 DEF Tick
  <2>2. smc_task = "START_TIMER" => held' = HoldUs \/ gap' <= held'
    BY <1>3, <1>4, <2>1 DEF TimerInv, HeldInv
  <2>3. smc_task = "WAIT_TIMER" => held' = HoldUs
          \/ \A s \in seen' \union {now'} : Between(wait_start, s) <= held'
    <3> SUFFICES ASSUME smc_task = "WAIT_TIMER", held < HoldUs, NEW s \in seen' \union {now'}
                 PROVE  Between(wait_start, s) <= held'
      BY <1>4, <2>1 DEF TimerInv, HeldInv
    <3>1. held' = held + 1 /\ \A u \in seen \union {now} : Between(wait_start, u) <= held
      BY <1>4, <2>1 DEF TimerInv, HeldInv
    <3>2. CASE s \in seen
      BY <1>1, <1>4, <3>1, <3>2 DEF TimerTypes, SmcTypeOK, Between
    <3>3. CASE s = now'
      <4> wait_start \in 0 .. TimerMod - 1
        BY <1>1 DEF TimerTypes, SmcTypeOK
      <4>1. Between(wait_start, now) <= held
        BY <3>1
      <4> Between(wait_start, now) \in Int /\ Between(wait_start, now') \in Int
        BY <1>4, BetweenType
      <4>2. Between(wait_start, now') <= Between(wait_start, now) + 1
        BY <1>1, BetweenStep
      <4> QED
        BY <1>4, <3>1, <3>3, <4>1, <4>2
    <3> QED
      BY <1>5, <3>2, <3>3
  <2> QED
    BY <1>3, <1>4, <2>1, <2>2, <2>3 DEF TimerInv, HeldInv, Between
<1> QED
  BY <1>6, <1>7, <1>8, <1>9, <1>10 DEF TimerInv

\* The interrupt adds the range that has passed.
LEMMA IrqInvStep == ASSUME Prompt, TimerInv, TIM6_IRQHandler PROVE TimerInv'
<1>c. /\ TimerMod \in Nat /\ Half \in Nat \ {0} /\ MaxGap \in Nat \ {0} /\ HoldUs \in Nat \ {0}
      /\ IsrDelay \in 0 .. 1 /\ MaxGap + 2 * Half <= TimerMod
  BY SmcAssumption, TimerAssumption DEF SmcAssumption, TimerAssumption, Prompt
<1> USE <1>c
<1>1. TimerTypes /\ CNT \in 0 .. Half - 1 /\ CNT <= now /\ Pending = Half /\ (now - CNT) + Half <= TimerMod
  BY CntType DEF TimerInv, TIM6_IRQHandler, Pending
<1>2. UNCHANGED <<reset_smc_en, reset_smc_dbg, smc_task, wait_start, ss, ss_sio, smc, now, gap, held>>
      /\ UNCHANGED <<rd, hi, lo, seen>> /\ UIF' = FALSE /\ late' = 0 /\ UIF
      /\ timer_high' = Wrap(timer_high + Half)
  BY DEF TIM6_IRQHandler, smcVars, ctrlVars, taskVars, pinVars, timeVars
<1>3. now \in 0 .. TimerMod - 1 /\ timer_high \in 0 .. TimerMod - 1
      /\ Between(timer_high, now) = CNT + Half
  BY <1>1 DEF TimerTypes, SmcTypeOK, TimerInv, HighInv
<1>4. CNT' = CNT /\ Pending' = 0
  BY <1>2 DEF CNT, Pending
<1>5. timer_high' = now - CNT
  BY <1>1, <1>2, <1>3 DEF Between, Wrap
<1>6. TimerTypes'
  <2>1. SmcTypeOK'
    BY <1>1, <1>2 DEF TimerTypes, SmcTypeOK
  <2>2. timer_high' \in 0 .. TimerMod - 1 /\ timer_high' + Half <= TimerMod
    BY <1>1, <1>2, <1>3, <1>5 DEF Between, Wrap
  <2> QED
    BY <1>1, <1>2, <2>1, <2>2 DEF TimerTypes
<1>7. HighInv'
  <2>1. Between(timer_high', now) = CNT
    BY <1>1, <1>3, <1>5 DEF Between
  <2>2. HighInv' <=> Between(timer_high', now') = CNT' + Pending'
    BY DEF HighInv, Between
  <2> QED
    BY <1>1, <1>2, <1>4, <2>1, <2>2
<1>8. CallInv' /\ HeldInv'
  BY <1>2 DEF TimerInv, CallInv, HeldInv
<1>9. ReadInv'
  <2>1. Us' = Us /\ Between(hi, now') = Between(hi, now) /\ gap' = gap
    BY <1>2 DEF Us, Wrap
  <2>2. rd \in {"low", "check"} => CNT + Half <= Between(hi, now) /\ Between(hi, now) < 2 * Half + gap
    BY <1>1 DEF TimerInv, ReadInv
  <2>3. rd \in {"low", "check"} => /\ CNT' + Pending' <= Between(hi, now')
                                  /\ CNT' + Pending' < Between(hi, now')
    <3>1. Between(hi, now) \in Int
      BY <1>1, <1>3, BetweenType DEF TimerTypes
    <3> QED
      BY <1>1, <1>4, <2>1, <2>2, <3>1
  <2>4. rd \in {"low", "check"} => Between(hi, now') < 2 * Half + gap'
    BY <2>1, <2>2
  <2>5. rd = "returned" => Us' \in seen'
    BY <1>2, <2>1 DEF TimerInv, ReadInv
  <2>6. Between(hi, now)' = Between(hi, now')
    BY <1>2 DEF Between
  <2> QED
    BY <1>2, <2>3, <2>4, <2>5, <2>6 DEF ReadInv
<1> QED
  BY <1>6, <1>7, <1>8, <1>9 DEF TimerInv

\* The first step of timer_us.
LEMMA CallStep == ASSUME Prompt, TimerInv, Call PROVE TimerInv'
<1>1. UNCHANGED <<reset_smc_en, reset_smc_dbg, smc_task, wait_start, ss, ss_sio, smc, now, gap, held>>
      /\ UNCHANGED <<timer_high, UIF, late, hi, lo>>
  BY DEF Call, smcVars, ctrlVars, taskVars, pinVars, timeVars
<1>2. rd' = "high" /\ seen' = {now} /\ seen = {} /\ reset_smc_en
      /\ smc_task \in {"START_TIMER", "WAIT_TIMER"} /\ CNT' = CNT /\ Pending' = Pending
  BY <1>1 DEF Call, TimerInv, CallInv, CNT, Pending
<1>3. now \in 0 .. TimerMod - 1 /\ gap \in Nat
  BY DEF TimerInv, TimerTypes, SmcTypeOK
<1>4. TimerTypes'
  BY <1>1, <1>2, <1>3 DEF TimerInv, TimerTypes, SmcTypeOK
<1>5. HighInv'
  BY <1>1, <1>2 DEF TimerInv, HighInv, Between
<1>6. CallInv'
  BY <1>1, <1>2, <1>3, BetweenType DEF CallInv, Between
<1>7. ReadInv' /\ HeldInv'
  BY <1>1, <1>2 DEF ReadInv, TimerInv, HeldInv, Between
<1> QED
  BY <1>4, <1>5, <1>6, <1>7 DEF TimerInv

\* What every load leaves alone.
LEMMA LoadStep ==
  ASSUME TimerInv, NEW f \in {"high", "low", "check"},
         NEW t \in {"high", "low", "check", "returned"}, Load(f, t),
         hi' \in {hi, timer_high}, lo' \in {lo, CNT}
  PROVE  /\ TimerTypes' /\ HighInv' /\ CallInv' /\ HeldInv'
         /\ UNCHANGED <<timer_high, UIF, seen, now, gap, CNT, Pending>>
         /\ rd = f /\ rd' = t /\ now \in seen
         /\ UIF => late < IsrDelay /\ late' > 0
<1>1. UNCHANGED <<reset_smc_en, reset_smc_dbg, smc_task, wait_start, ss, ss_sio, smc, now, gap, held>>
      /\ UNCHANGED <<timer_high, UIF, seen>>
  BY DEF Load, smcVars, ctrlVars, taskVars, pinVars, timeVars
<1>2. rd = f /\ rd' = t /\ now \in seen /\ CNT' = CNT /\ Pending' = Pending
  BY <1>1 DEF Load, TimerInv, CallInv, CNT, Pending
<1>3. late' \in Nat /\ (UIF => late < IsrDelay /\ late' > 0)
  BY DEF Load, TimerInv, TimerTypes
<1>4. TimerTypes'
  <2>1. lo' \in 0 .. Half - 1
    BY CntType DEF TimerInv, TimerTypes
  <2>2. SmcTypeOK'
    BY <1>1 DEF TimerInv, TimerTypes, SmcTypeOK
  <2> QED
    BY <1>1, <1>2, <1>3, <2>1, <2>2 DEF TimerInv, TimerTypes
<1>5. HighInv'
  BY <1>1, <1>2 DEF TimerInv, HighInv, Between
<1>6. CallInv' /\ HeldInv'
  BY <1>1, <1>2 DEF TimerInv, CallInv, HeldInv, Between
<1> QED
  BY <1>1, <1>2, <1>3, <1>4, <1>5, <1>6

\* timer_us, load by load.
LEMMA ReadStep == ASSUME Prompt, TimerInv, ReadHigh \/ ReadLow \/ Recheck PROVE TimerInv'
<1>c. /\ TimerMod \in Nat /\ Half \in Nat \ {0} /\ IsrDelay \in 0 .. 1
  BY SmcAssumption, TimerAssumption DEF SmcAssumption, TimerAssumption, Prompt
<1>t. /\ CNT \in 0 .. Half - 1 /\ Pending \in {0, Half}
      /\ now \in 0 .. TimerMod - 1 /\ hi \in 0 .. TimerMod - 1 /\ gap \in Nat
      /\ timer_high \in 0 .. TimerMod - 1 /\ lo \in 0 .. Half - 1 /\ hi + Half <= TimerMod
      /\ UIF \in BOOLEAN
  BY CntType DEF TimerInv, TimerTypes, SmcTypeOK
<1>b. Between(hi, now) \in Int /\ Between(timer_high, now) = CNT + Pending
  BY <1>t, BetweenType DEF TimerInv, HighInv
<1>1. CASE ReadHigh
  <2>1. /\ TimerTypes' /\ HighInv' /\ CallInv' /\ HeldInv'
        /\ UNCHANGED <<timer_high, UIF, seen, now, gap, CNT, Pending>> /\ rd' = "low"
        /\ hi' = timer_high
    BY <1>1, LoadStep DEF ReadHigh
  <2>2. ReadInv'
    BY <1>c, <1>t, <1>b, <2>1 DEF ReadInv, Between
  <2> QED
    BY <2>1, <2>2 DEF TimerInv
<1>2. CASE ReadLow
  <2>1. /\ TimerTypes' /\ HighInv' /\ CallInv' /\ HeldInv'
        /\ UNCHANGED <<timer_high, UIF, seen, now, gap, CNT, Pending, hi>> /\ rd' = "check"
        /\ lo' = CNT /\ rd = "low" /\ now \in seen /\ (UIF => late' > 0)
    BY <1>2, LoadStep DEF ReadLow
  <2>2. CNT + Pending <= Between(hi, now) /\ Between(hi, now) < 2 * Half + gap
    BY <2>1 DEF TimerInv, ReadInv
  <2>3. \/ CNT + Pending < Between(hi, now)
        \/ Us' \in seen
        \/ UIF /\ late' > 0
    <3> SUFFICES ASSUME ~UIF, ~(CNT + Pending < Between(hi, now)) PROVE Us' \in seen
      BY <2>1
    <3>1. Between(hi, now) = CNT
      BY <1>b, <1>c, <1>t, <2>2 DEF Pending
    <3>2. Us' = now
      BY <1>t, <1>c, <2>1, <3>1 DEF Us, Wrap, Between
    <3> QED
      BY <2>1, <3>2
  <2>4. Between(hi, now)' = Between(hi, now)
    BY <2>1 DEF Between
  <2>5. ReadInv'
    BY <2>1, <2>2, <2>3, <2>4 DEF ReadInv
  <2> QED
    BY <2>1, <2>5 DEF TimerInv
<1>3. CASE Recheck
  <2>1. /\ TimerTypes' /\ HighInv' /\ CallInv' /\ HeldInv'
        /\ UNCHANGED <<timer_high, UIF, seen, now, gap, hi, lo>> /\ rd = "check"
        /\ rd' = (IF Same THEN "returned" ELSE "high") /\ (UIF => late < IsrDelay)
    <3>1. (IF Same THEN "returned" ELSE "high") \in {"high", "low", "check", "returned"}
      OBVIOUS
    <3> QED
      BY <1>3, <3>1, LoadStep DEF Recheck
  <2>2. Us' = Us
    BY <2>1 DEF Us, Wrap
  <2>3. CASE Same
    <3>1. ~(CNT + Pending < Between(hi, now))
      BY <1>b, <1>t, <2>3 DEF Same
    <3>2. Us \in seen
      BY <1>c, <2>1, <3>1 DEF TimerInv, ReadInv, TimerTypes
    <3> QED
      BY <2>1, <2>2, <2>3, <3>2 DEF ReadInv, TimerInv
  <2>4. CASE ~Same
    BY <2>1, <2>4 DEF ReadInv, TimerInv
  <2> QED
    BY <2>3, <2>4
<1> QED
  BY <1>1, <1>2, <1>3

\* A turn of reset_smc_task with the time it was told.
LEMMA TimedStep == ASSUME Prompt, TimerInv, TimedTurn PROVE TimerInv'
<1>c. /\ TimerMod \in Nat /\ Half \in Nat \ {0} /\ HoldUs \in Nat \ {0} /\ MaxGap \in Nat \ {0}
      /\ HoldUs < TimerMod
  BY SmcAssumption, TimerAssumption DEF SmcAssumption, TimerAssumption, Prompt
<1>1. UNCHANGED <<reset_smc_en, reset_smc_dbg, ss, ss_sio, smc, held>>
  BY DEF TimedTurn, Told!StartTimer, Told!WaitTimer, Told!SmcTurn, Told!ctrlVars, Told!taskVars, Told!pinVars,
         ctrlVars, taskVars, pinVars
<1>2. UNCHANGED <<now, timer_high, UIF, late, hi, lo>> /\ gap' = 0 /\ rd = "returned"
      /\ rd' = "out" /\ seen' = {} /\ CNT' = CNT /\ Pending' = Pending
  BY DEF TimedTurn, Told!StartTimer, Told!WaitTimer, Told!SmcTurn, CNT, Pending
<1>3. now \in 0 .. TimerMod - 1 /\ gap \in 0 .. MaxGap /\ held \in 0 .. HoldUs
      /\ wait_start \in 0 .. TimerMod - 1
  BY DEF TimerInv, TimerTypes, SmcTypeOK
<1>4. Us \in seen /\ Us \in 0 .. TimerMod - 1 /\ Between(Us, now) <= gap
  BY <1>2 DEF TimerInv, ReadInv, CallInv, TimerTypes
<1>5. HighInv' /\ CallInv' /\ ReadInv'
  BY <1>2 DEF TimerInv, HighInv, CallInv, ReadInv, Between
<1>6. CASE Told!StartTimer
  <2>1. wait_start' = Us /\ smc_task' = "WAIT_TIMER" /\ smc_task = "START_TIMER"
    BY <1>6 DEF Told!StartTimer, Told!SmcTurn
  <2>2. TimerTypes'
    <3>1. SmcTypeOK'
      BY <1>c, <1>1, <1>2, <1>4, <2>1 DEF TimerInv, TimerTypes, SmcTypeOK
    <3> QED
      BY <1>2, <3>1 DEF TimerInv, TimerTypes
  <2>3. held = HoldUs \/ Between(Us, now) <= held
    BY <1>3, <1>4, <2>1, BetweenType DEF TimerInv, HeldInv
  <2>4. HeldInv'
    BY <1>1, <1>2, <2>1, <2>3 DEF TimerInv, HeldInv, Between
  <2> QED
    BY <1>5, <2>2, <2>4 DEF TimerInv
<1>7. CASE Told!WaitTimer
  <2>1. wait_start' = wait_start /\ smc_task = "WAIT_TIMER"
        /\ smc_task' = IF Told!Expired THEN "DEASSERT_RST" ELSE "WAIT_TIMER"
    BY <1>7 DEF Told!WaitTimer, Told!SmcTurn
  <2>2. TimerTypes'
    <3>1. SmcTypeOK'
      BY <1>c, <1>1, <1>2, <2>1 DEF TimerInv, TimerTypes, SmcTypeOK
    <3> QED
      BY <1>2, <3>1 DEF TimerInv, TimerTypes
  <2>3. held = HoldUs \/ (Between(wait_start, Us) <= held /\ Between(wait_start, now) <= held)
    BY <1>4, <2>1 DEF TimerInv, HeldInv
  <2>4. Told!Expired => held = HoldUs
    <3>1. Told!Expired <=> Between(wait_start, Us) >= HoldUs
      BY TimerAssumption DEF TimerAssumption, Told!Expired, Told!Elapsed, Between
    <3>2. Between(wait_start, Us) \in Int
      BY <1>3, <1>4, BetweenType
    <3> QED
      BY <1>c, <1>3, <2>3, <3>1, <3>2
  <2>5. HeldInv'
    BY <1>1, <1>2, <2>1, <2>3, <2>4 DEF TimerInv, HeldInv, Between
  <2> QED
    BY <1>5, <2>2, <2>5 DEF TimerInv
<1> QED
  BY <1>6, <1>7 DEF TimedTurn

\* The turns of reset_smc_task that read no time, and a new request.
LEMMA OtherStep == ASSUME Prompt, TimerInv, OtherTurn \/ NewRequest PROVE TimerInv'
<1>c. HoldUs \in Nat \ {0} /\ MaxGap \in Nat \ {0}
  BY SmcAssumption DEF SmcAssumption
<1>1. SmcTypeOK' /\ UNCHANGED <<timer_high, UIF, late, rd, hi, lo, seen, now>> /\ rd = "out"
      /\ CNT' = CNT /\ Pending' = Pending
  <2>1. SmcNext
    BY DEF OtherTurn, NewRequest, SmcNext, ResetSmcTask
  <2>2. UNCHANGED <<timer_high, UIF, late, rd, hi, lo, seen, now>> /\ rd = "out"
    BY DEF OtherTurn, NewRequest, timerVars, TaskIdle, AssertRst, DeassertRst, SmcTurn,
           Request, timeVars
  <2> QED
    BY <2>1, <2>2, SmcTypeStep DEF TimerInv, TimerTypes, CNT, Pending
<1>2. TimerTypes' /\ HighInv' /\ CallInv' /\ ReadInv'
  BY <1>1 DEF TimerInv, TimerTypes, HighInv, CallInv, ReadInv, Between
<1>3. HeldInv'
  <2>1. CASE TaskIdle
    BY <1>1, <2>1 DEF TaskIdle, TimerInv, HeldInv, TimerTypes, SmcTypeOK, Between, ctrlVars, taskVars, pinVars
  <2>2. CASE AssertRst
    BY <1>1, <2>2 DEF AssertRst, SmcTurn, TimerInv, HeldInv
  <2>3. CASE DeassertRst
    BY <1>1, <2>3 DEF DeassertRst, BackToStart, SmcTurn, ReleasedAs, TimerInv, HeldInv
  <2>4. CASE NewRequest
    BY <1>1, <2>4 DEF NewRequest, Request, TimerInv, HeldInv, Between, taskVars, pinVars, timeVars
  <2> QED
    BY <2>1, <2>2, <2>3, <2>4 DEF OtherTurn
<1> QED
  BY <1>2, <1>3 DEF TimerInv

\* TimerInv is inductive.
LEMMA TimerInvStep ==
  ASSUME Prompt, TimerInv, [TimerNext]_<<smcVars, timerVars>> PROVE TimerInv'
<1>1. CASE UNCHANGED <<smcVars, timerVars>>
  BY <1>1 DEF smcVars, timerVars, ctrlVars, taskVars, pinVars, timeVars, TimerInv, TimerTypes,
              SmcTypeOK, HighInv, CallInv, ReadInv, HeldInv, CNT, Pending, Between, Us, Wrap
<1> QED
  BY <1>1, CallStep, ReadStep, TimedStep, OtherStep, CountInv, IrqInvStep DEF TimerNext, Loop

-----------------------------------------------------------------------------
(* The theorems.                                                           *)

\* The types and the invariant of the timer hold in every state.
LEMMA TimerInvCorrect == ASSUME Prompt PROVE TimerSpec => []TimerInv
<1>1. TimerInit => TimerInv
  <2> SUFFICES ASSUME TimerInit PROVE TimerInv
    OBVIOUS
  <2>c. /\ TimerMod \in Nat /\ Half \in Nat \ {0} /\ HoldUs \in Nat \ {0} /\ MaxGap \in Nat \ {0}
        /\ 2 * Half < TimerMod
    BY SmcAssumption, TimerAssumption DEF SmcAssumption, TimerAssumption, Prompt
  <2>1. SmcTypeOK
    BY SmcInitType DEF TimerInit
  <2>2. UIF \in BOOLEAN
    BY Zenon DEF TimerInit
  <2>3. TimerTypes
    BY <2>c, <2>1, <2>2 DEF TimerInit, TimerTypes
  <2>4. CNT = 0
    BY <2>c DEF TimerInit, SmcInit, SmcUp, CNT
  <2>5. HighInv
    BY <2>c, <2>4 DEF TimerInit, SmcInit, SmcUp, HighInv, Pending, Between
  <2>6. CallInv /\ ReadInv /\ HeldInv
    BY DEF TimerInit, SmcInit, SmcUp, CallInv, ReadInv, HeldInv
  <2> QED
    BY <2>3, <2>5, <2>6 DEF TimerInv
<1> QED
  BY <1>1, TimerInvStep, PTL DEF TimerSpec

\* What timer_us returns was the time at some moment of its call, whatever
\* overflow comes between its loads.
THEOREM TimerCorrect == ASSUME Prompt PROVE TimerSpec => []TimerReadsTime
<1>1. TimerInv => TimerReadsTime
  BY DEF TimerInv, ReadInv, TimerReadsTime
<1> QED
  BY <1>1, TimerInvCorrect, PTL

\* The variables of the reset keep their types beside the timer too.
THEOREM TimedTypeCorrect == ASSUME Prompt PROVE TimerSpec => []SmcTypeOK
<1>1. TimerInv => SmcTypeOK
  BY DEF TimerInv, TimerTypes
<1> QED
  BY <1>1, TimerInvCorrect, PTL

\* With the time as timer_us tells it, late as it may be, the line has still
\* been low for SMC_RST_HOLD_US when the SMC is released.
THEOREM TimedHoldCorrect == ASSUME Prompt PROVE TimerSpec => HeldLongEnough
<1>1. TimerInv /\ [TimerNext]_<<smcVars, timerVars>>
        => [smc = "reset" /\ smc' # "reset" => held = HoldUs]_smcVars
  <2> SUFFICES ASSUME TimerInv, TimerNext, smc = "reset", smc' # "reset" PROVE held = HoldUs
    BY DEF smcVars
  <2>1. smc_task = "DEASSERT_RST"
    BY DEF TimerNext, Loop, Call, ReadHigh, ReadLow, Recheck, Load, TimedTurn, OtherTurn,
           NewRequest, TIM6_IRQHandler, Count, Told!StartTimer, Told!WaitTimer, Told!SmcTurn, Told!ctrlVars, Told!taskVars, Told!pinVars,
           Request, TaskIdle, AssertRst, DeassertRst, SmcTurn, Tick, smcVars, pinVars
  <2> QED
    BY <2>1 DEF TimerInv, HeldInv
<1> QED
  BY <1>1, TimerInvCorrect, PTL DEF TimerSpec, HeldLongEnough

\* The mode and the pin, if nobody requests a reset during a reset.
LEMMA TimedPinStep ==
  ASSUME ~Overlap, SmcTypeOK, PinInv, ModeAsRequested, [TimerNext]_<<smcVars, timerVars>>
  PROVE  PinInv' /\ ModeAsRequested'
<1>1. CASE TimedTurn
  BY <1>1 DEF TimedTurn, Told!StartTimer, Told!WaitTimer, Told!SmcTurn, Told!ctrlVars, Told!taskVars, Told!pinVars,
              PinInv, ModeAsRequested, SmcTypeOK
<1>2. CASE OtherTurn \/ NewRequest \/ Count
  <2>1. SmcNext
    BY <1>2 DEF OtherTurn, NewRequest, Count, SmcNext, ResetSmcTask
  <2> QED
    BY <2>1, PinInvStep
<1>3. CASE Call \/ ReadHigh \/ ReadLow \/ Recheck \/ TIM6_IRQHandler \/ UNCHANGED <<smcVars, timerVars>>
  <2>1. UNCHANGED smcVars
    BY <1>3 DEF Call, ReadHigh, ReadLow, Recheck, Load, TIM6_IRQHandler
  <2> QED
    BY <2>1, PinInvStep
<1> QED
  BY <1>1, <1>2, <1>3 DEF TimerNext, Loop

\* The SMC comes up in the mode requested, with the time as timer_us tells it.
THEOREM TimedModeCorrect == ASSUME Prompt, ~Overlap PROVE TimerSpec => []ModeAsRequested
<1>1. TimerInit => PinInv /\ ModeAsRequested
  BY DEF TimerInit, SmcInit, SmcUp, PinInv, ModeAsRequested
<1> QED
  BY <1>1, TimedPinStep, TimedTypeCorrect, PTL DEF TimerSpec
=============================================================================
