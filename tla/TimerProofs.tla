----------------------------- MODULE TimerProofs -----------------------------
(***************************************************************************)
(* Proofs about Timer for every wrap-around of the clock and every set of  *)
(* intervals.  The inductive invariant is TypeOK /\ StartMeasured: what    *)
(* timerExpired compares is the time since the start point, in one of two  *)
(* arithmetical forms, and the invariant says which value both measure.    *)
(***************************************************************************)
EXTENDS Timer, TLAPS

\* A sum of two words wraps at most once (the uint32_t additions of timer.c).
LEMMA WrapsOnce ==
  ASSUME NEW x \in Nat, x < 2 * Wrap
  PROVE  x % Wrap = IF x < Wrap THEN x ELSE x - Wrap
BY WrapAssumption

TimerInv == TypeOK /\ StartMeasured

\* The initial states satisfy the invariant.
LEMMA InitInv == Init => TimerInv
<1> SUFFICES ASSUME Init PROVE TimerInv
  OBVIOUS
<1>1. TypeOK
  BY WrapAssumption DEF Init, TypeOK, Word
<1>2. time_ % Wrap = time_
  BY WrapAssumption, WrapsOnce DEF Init, Word
<1>3. StartMeasured
  BY <1>2 DEF Init, StartMeasured, Word
<1> QED BY <1>1, <1>3 DEF TimerInv

\* Every timer function and every tick preserves the invariant.
LEMMA NextInv == TimerInv /\ [Next]_vars => TimerInv'
<1> SUFFICES ASSUME TimerInv, [Next]_vars PROVE TimerInv'
  OBVIOUS
<1> USE WrapAssumption, IntervalsAssumption
    DEF TimerInv, TypeOK, StartMeasured, Word, timerVars
<1>1. CASE Tick
  <2>1. (time_ + 1) % Wrap = IF time_ + 1 < Wrap THEN time_ + 1 ELSE 0
    BY WrapsOnce
  <2>2. elapsed < Wrap =>
          time_ = IF start + elapsed < Wrap THEN start + elapsed
                                              ELSE start + elapsed - Wrap
    BY WrapsOnce
  <2>3. elapsed + 1 < Wrap =>
          (start + (elapsed + 1)) % Wrap =
            IF start + elapsed + 1 < Wrap THEN start + elapsed + 1
                                            ELSE start + elapsed + 1 - Wrap
    BY WrapsOnce
  <2> QED BY <1>1, <2>1, <2>2, <2>3 DEF Tick
<1>2. ASSUME NEW i \in Intervals, timerSet(i) PROVE TimerInv'
  <2>1. (time_ + 0) % Wrap = time_
    BY WrapsOnce
  <2> QED BY <1>2, <2>1 DEF timerSet
<1>3. CASE timerStop
  BY <1>3 DEF timerStop
<1>4. CASE timerReset
  <2>1. (start + interval) % Wrap =
          IF start + interval < Wrap THEN start + interval
                                         ELSE start + interval - Wrap
    BY WrapsOnce
  <2>2. ASSUME interval <= elapsed, elapsed < Wrap
        PROVE  time_ = (((start + interval) % Wrap) + (elapsed - interval)) % Wrap
    <3> DEFINE s == (start + interval) % Wrap
    <3>1. time_ = IF start + elapsed < Wrap THEN start + elapsed
                                            ELSE start + elapsed - Wrap
      BY <2>2, WrapsOnce
    <3>2. s \in Word
      BY <2>1
    <3>3. (s + (elapsed - interval)) % Wrap =
            IF s + (elapsed - interval) < Wrap THEN s + (elapsed - interval)
                                               ELSE s + (elapsed - interval) - Wrap
      <4> HIDE DEF s
      <4> QED BY <2>2, <3>2, WrapsOnce
    <3> QED BY <2>1, <2>2, <3>1, <3>3
  <2>3. (start + interval) % Wrap \in Word
    BY <2>1
  <2> QED BY <1>4, <2>2, <2>3 DEF timerReset
<1>5. CASE timerRestart
  <2>1. (time_ + 0) % Wrap = time_
    BY WrapsOnce
  <2> QED BY <1>5, <2>1 DEF timerRestart
<1>6. CASE timerExpired
  BY <1>6 DEF timerExpired
<1>7. CASE UNCHANGED vars
  BY <1>7 DEF vars
<1> QED BY <1>1, <1>2, <1>3, <1>4, <1>5, <1>6, <1>7 DEF Next

\* The variables keep their types and the clock measures the time since the start
\* point, whatever the program calls and wherever the clock wraps.
THEOREM TimerMeasures == Spec => [](TypeOK /\ StartMeasured)
BY InitInv, NextInv, PTL DEF Spec, TimerInv

\* The clock, the start point and the interval stay words of the clock's width and the
\* flags stay flags, whatever the program calls and wherever the clock wraps.
THEOREM TimerTypes == Spec => []TypeOK
BY TimerMeasures, PTL

\* What the two comparisons of timerExpired decide, in terms of the time since the
\* start point: the interval is over, or it ends now and the clock has wrapped.
LEMMA PassedMeaning ==
  ASSUME TimerInv, elapsed < Wrap
  PROVE  Passed <=> \/ elapsed > interval
                    \/ elapsed = interval /\ time_ <= start
<1> USE WrapAssumption DEF TimerInv, TypeOK, Word
<1>1. time_ = IF start + elapsed < Wrap THEN start + elapsed
                                          ELSE start + elapsed - Wrap
  BY WrapsOnce DEF StartMeasured
<1>2. CASE time_ > start
  BY <1>1, <1>2 DEF Passed
<1>3. CASE ~(time_ > start)
  <2>1. (Wrap - 1 - start) + time_ + 1 \in Nat
        /\ (Wrap - 1 - start) + time_ + 1 < 2 * Wrap
    BY <1>3
  <2>2. ((Wrap - 1 - start) + time_ + 1) % Wrap = elapsed
    BY <1>1, <1>3, <2>1, WrapsOnce
  <2> QED BY <1>3, <2>2 DEF Passed
<1> QED BY <1>2, <1>3

\* timerExpired never reports a timer before its interval is over.
THEOREM TimerNeverEarly == Spec => NeverEarly
<1>1. TimerInv /\ [Next]_vars =>
        [(active = 1 /\ timerExpired /\ expired' = 1 /\ elapsed < Wrap) =>
           elapsed >= interval]_vars
  BY PassedMeaning DEF timerExpired, TimerInv, TypeOK, Word
<1> QED BY <1>1, InitInv, NextInv, PTL DEF Spec, NeverEarly

\* A poll after the interval and within a turn of the clock finds it expired.
THEOREM TimerNeverMissed == Spec => NeverMissed
<1>1. TimerInv /\ [Next]_vars =>
        [(active = 1 /\ timerExpired /\ interval < elapsed /\ elapsed < Wrap) =>
           expired' = 1]_vars
  BY PassedMeaning DEF timerExpired, TimerInv, TypeOK, Word
<1> QED BY <1>1, InitInv, NextInv, PTL DEF Spec, NeverMissed

\* A timer that is due stays due until it is polled or the clock has turned once.
THEOREM TimerStaysDue == Spec => StaysDue
<1>1. ASSUME TimerInv, TimerInv', Passed, Tick, elapsed + 1 < Wrap
      PROVE  Passed'
  <2>1. elapsed' = elapsed + 1 /\ interval' = interval
    BY <1>1, WrapAssumption DEF Tick, TimerInv, TypeOK, timerVars
  <2>2. elapsed >= interval
    BY <1>1, PassedMeaning, WrapAssumption DEF TimerInv, TypeOK, Word
  <2>3. elapsed' < Wrap /\ elapsed' > interval'
    BY <1>1, <2>1, <2>2 DEF TimerInv, TypeOK, Word
  <2>4. (TimerInv /\ elapsed < Wrap /\ elapsed > interval => Passed)'
    BY PassedMeaning, PTL
  <2> QED BY <1>1, <2>3, <2>4
<1>2. TimerInv /\ TimerInv' /\ [Next]_vars =>
        [(active = 1 /\ Passed /\ Tick /\ elapsed + 1 < Wrap) => Passed']_vars
  BY <1>1
<1> QED BY <1>2, InitInv, NextInv, PTL DEF Spec, StaysDue
=============================================================================
