-------------------------------- MODULE Timer --------------------------------
(***************************************************************************)
(* The millisecond clock (clock.c) and one software timer (timer.c), with  *)
(* the wrap-around of their uint32_t arithmetic: the clock counts modulo   *)
(* Wrap, which is 2^32 in the code.  clockGetTime reads the clock with     *)
(* interrupts disabled, so a call of a timer function is one step.         *)
(***************************************************************************)
EXTENDS Integers

CONSTANTS
  Wrap,       \* the number of values of a uint32_t
  Intervals   \* the intervals given to timerSet

ASSUME WrapAssumption == Wrap \in Nat /\ Wrap >= 2
ASSUME IntervalsAssumption == Intervals \subseteq 0..(Wrap - 1)

VARIABLES
  time_,      \* the clock
  active,     \* the fields of the Timer
  start,
  interval,
  expired,    \* what the last call of timerExpired returned
  elapsed     \* history: ticks since the start point of the interval; Wrap when
              \* that point is a whole turn of the clock or more away, or ahead

timerVars == <<active, start, interval>>
vars == <<time_, timerVars, expired, elapsed>>

Word == 0..(Wrap - 1)

\* A static Timer is zero until timerSet; the clock may have any value by then.
Init ==
  /\ time_ \in Word
  /\ active = 0 /\ start = 0 /\ interval = 0
  /\ expired = 0
  /\ elapsed = time_

\* Faulty variant: a clock that does not wrap.
Tick_NoWrap ==
  /\ time_' = time_ + 1
  /\ elapsed' = IF elapsed < Wrap THEN elapsed + 1 ELSE elapsed
  /\ UNCHANGED <<timerVars, expired>>

\* TIMER0_COMPA_vect.
Tick ==
  /\ time_' = (time_ + 1) % Wrap
  /\ elapsed' = IF elapsed < Wrap THEN elapsed + 1 ELSE elapsed
  /\ UNCHANGED <<timerVars, expired>>

timerSet(i) ==
  /\ active' = 1 /\ start' = time_ /\ interval' = i
  /\ elapsed' = 0
  /\ UNCHANGED <<time_, expired>>

timerStop ==
  /\ active' = 0
  /\ UNCHANGED <<start, interval, time_, expired, elapsed>>

\* Faulty variant: the next interval starts now, not where the last one ended.
timerReset_FromNow ==
  /\ active' = 1 /\ start' = time_
  /\ elapsed' = IF interval <= elapsed /\ elapsed < Wrap
                  THEN elapsed - interval ELSE Wrap
  /\ UNCHANGED <<interval, time_, expired>>

timerReset ==
  /\ active' = 1 /\ start' = (start + interval) % Wrap
  /\ elapsed' = IF interval <= elapsed /\ elapsed < Wrap
                  THEN elapsed - interval ELSE Wrap
  /\ UNCHANGED <<interval, time_, expired>>

timerRestart ==
  /\ active' = 1 /\ start' = time_
  /\ elapsed' = 0
  /\ UNCHANGED <<interval, time_, expired>>

\* Faulty variants: the sum is not reduced, the wrap is forgotten, the expiry must
\* be met exactly.
Passed_NoReduce ==
  IF time_ > start
    THEN time_ - start > interval
    ELSE (Wrap - 1 - start) + time_ + 1 >= interval
Passed_NoWrap == time_ > start + interval
Passed_Exactly == (time_ + Wrap - start) % Wrap = interval

\* The two comparisons of timerExpired; ~start is Wrap - 1 - start.
Passed ==
  IF time_ > start
    THEN time_ - start > interval
    ELSE ((Wrap - 1 - start) + time_ + 1) % Wrap >= interval

timerExpired ==
  /\ IF active = 1 /\ Passed THEN expired' = 1 /\ active' = 0
                              ELSE expired' = 0 /\ UNCHANGED active
  /\ UNCHANGED <<start, interval, time_, elapsed>>

Next ==
  \/ Tick
  \/ \E i \in Intervals : timerSet(i)
  \/ timerStop \/ timerReset \/ timerRestart
  \/ timerExpired

Spec == Init /\ [][Next]_vars

-----------------------------------------------------------------------------
(* Properties *)

\* Every variable has its type.
TypeOK ==
  /\ time_ \in Word
  /\ active \in {0, 1} /\ start \in Word /\ interval \in Word
  /\ expired \in {0, 1} /\ elapsed \in 0..Wrap

\* The clock and the start point measure the time since the start point, also
\* after the clock has wrapped past it.
StartMeasured ==
  elapsed < Wrap => time_ = (start + elapsed) % Wrap

\* timerExpired never reports a timer before its interval is over, wherever the
\* clock wraps (timer.c:44-59), while less than a turn of the clock has passed.
NeverEarly ==
  [][(active = 1 /\ timerExpired /\ expired' = 1 /\ elapsed < Wrap) =>
       elapsed >= interval]_vars

\* A poll between the end of the interval and a whole turn of the clock finds the
\* timer expired: no value of the clock hides it.
NeverMissed ==
  [][(active = 1 /\ timerExpired /\ interval < elapsed /\ elapsed < Wrap) =>
       expired' = 1]_vars

\* A timer that is due stays due while nobody polls it, until the clock has made a
\* whole turn: timerExpired need not be called in the millisecond of the expiry.
StaysDue ==
  [][(active = 1 /\ Passed /\ Tick /\ elapsed + 1 < Wrap) => Passed']_vars
=============================================================================
