------------------------- MODULE TimerThreadProofs -------------------------
(***************************************************************************)
(* What TimerThread keeps for every length of a second and of an interval. *)
(***************************************************************************)
EXTENDS TimerThread, TLAPS

\* A time as a number of ticks.
Ticks(t) == t.sec * NSPerSec + t.nsec

\* The inductive invariant: while the thread waits, what is left until its
\* deadline and what has passed since the last call add up to an interval.
DeadlineFar ==
  thread \in Waiting =>
    since = Interval \/ Ticks(next) + since >= Ticks(clock) + Interval
NotYetStarted == owner = "new" => thread = "none"
TInv == TypeOK /\ NotYetStarted /\ DeadlineFar

\* Division with remainder, for the carry of TimerThread_GetTime.
LEMMA Carry ==
  ASSUME NEW a \in Nat, NEW n \in Nat \ {0}
  PROVE  /\ a \div n \in Nat /\ a % n \in 0 .. (n - 1)
         /\ (a \div n) * n + (a % n) = a
  BY SMT

\* The deadline is normal, and an interval ahead of the clock.
LEMMA DeadlineExact ==
  ASSUME clock \in Time
  PROVE  /\ TimerThread_GetTime \in Time
         /\ Ticks(TimerThread_GetTime) = Ticks(clock) + Interval
<1> DEFINE a == clock.nsec + Interval
           q == a \div NSPerSec
           r == a % NSPerSec
<1>1. clock.sec \in Int /\ clock.nsec \in 0 .. (NSPerSec - 1) /\ a \in Nat
  BY NSPerSecAssumption, IntervalAssumption DEF Time
<1>2. q \in Nat /\ r \in 0 .. (NSPerSec - 1) /\ q * NSPerSec + r = a
  BY <1>1, Carry, NSPerSecAssumption
<1>3. TimerThread_GetTime = [sec |-> clock.sec + q, nsec |-> r]
  BY DEF TimerThread_GetTime
<1>4. (clock.sec + q) * NSPerSec = clock.sec * NSPerSec + q * NSPerSec
  <2> HIDE DEF q
  <2> QED BY <1>1, <1>2, NSPerSecAssumption
<1>5. TimerThread_GetTime \in Time
  BY <1>1, <1>2, <1>3 DEF Time
<1>6. Ticks(TimerThread_GetTime) = (clock.sec + q) * NSPerSec + r
  BY <1>3 DEF Ticks
<1> HIDE DEF q, r
<1> QED BY <1>1, <1>2, <1>4, <1>5, <1>6, NSPerSecAssumption, IntervalAssumption DEF Ticks

\* A time that is not before another is at least as many ticks.
LEMMA BeforeTicks ==
  ASSUME NEW s \in Time, NEW t \in Time, ~Before(s, t)
  PROVE  Ticks(s) >= Ticks(t)
<1>1. s.sec \in Int /\ t.sec \in Int /\ s.nsec \in 0 .. (NSPerSec - 1)
      /\ t.nsec \in 0 .. (NSPerSec - 1)
  BY DEF Time
<1>2. CASE s.sec = t.sec
  BY <1>1, <1>2, NSPerSecAssumption DEF Before, Ticks
<1>3. CASE s.sec > t.sec
  <2>1. (s.sec - t.sec) * NSPerSec >= NSPerSec
    BY <1>1, <1>3, NSPerSecAssumption
  <2>2. (s.sec - t.sec) * NSPerSec = s.sec * NSPerSec - t.sec * NSPerSec
    BY <1>1, NSPerSecAssumption
  <2> QED BY <1>1, <2>1, <2>2, NSPerSecAssumption DEF Ticks
<1> QED BY <1>1, <1>2, <1>3 DEF Before

\* After a tick every time still is one, one tick later or shifted with the clock.
LEMMA TickTime ==
  ASSUME NEW t \in Time, NEW carry \in {0, 1}, NEW shift \in {0, 1},
         carry = IF t.nsec + 1 = NSPerSec THEN 1 ELSE 0
  PROVE  LET u == [sec |-> t.sec + carry - shift, nsec |-> (t.nsec + 1) % NSPerSec]
         IN u \in Time /\ Ticks(u) = Ticks(t) + 1 - shift * NSPerSec
<1> DEFINE u == [sec |-> t.sec + carry - shift, nsec |-> (t.nsec + 1) % NSPerSec]
<1>1. t.sec \in Int /\ t.nsec \in 0 .. (NSPerSec - 1)
  BY DEF Time
<1>2. (t.nsec + 1) % NSPerSec = IF carry = 1 THEN 0 ELSE t.nsec + 1
  BY <1>1, NSPerSecAssumption
<1>3. u \in Time
  BY <1>1, <1>2, NSPerSecAssumption DEF Time
<1>4. Ticks(u) = (t.sec + carry - shift) * NSPerSec + (IF carry = 1 THEN 0 ELSE t.nsec + 1)
  BY <1>2 DEF Ticks
<1>5. (t.sec + carry - shift) * NSPerSec
        = t.sec * NSPerSec + carry * NSPerSec - shift * NSPerSec
  BY <1>1, NSPerSecAssumption
<1> QED BY <1>1, <1>3, <1>4, <1>5, NSPerSecAssumption DEF Ticks

\* A deadline moved back with the clock is still a time.
LEMMA ShiftTime ==
  ASSUME NEW t \in Time, NEW shift \in {0, 1}
  PROVE  /\ [t EXCEPT !.sec = @ - shift] \in Time
         /\ Ticks([t EXCEPT !.sec = @ - shift]) = Ticks(t) - shift * NSPerSec
<1>1. t.sec \in Int /\ t.nsec \in 0 .. (NSPerSec - 1)
  BY DEF Time
<1>2. (t.sec - shift) * NSPerSec = t.sec * NSPerSec - shift * NSPerSec
  BY <1>1, NSPerSecAssumption
<1>3. [t EXCEPT !.sec = @ - shift] = [sec |-> t.sec - shift, nsec |-> t.nsec]
  BY DEF Time
<1> QED BY <1>1, <1>2, <1>3, NSPerSecAssumption DEF Time, Ticks

\* The invariant holds before the timer is started.
LEMMA TInvInit == Init => TInv
  BY NSPerSecAssumption, IntervalAssumption
     DEF Init, TInv, TypeOK, Time, NotYetStarted, DeadlineFar, Waiting

\* The invariant is kept by every step of the thread, the owner and the clock.
LEMMA TInvNext == TInv /\ [Next]_vars => TInv'
<1> SUFFICES ASSUME TInv, [Next]_vars PROVE TInv'
  OBVIOUS
<1> USE DEF TInv
<1>1. CASE Arm
  <2>1. CASE next' = TimerThread_GetTime /\ thread' = "wait"
    <3>1. next' \in Time /\ Ticks(next') = Ticks(clock) + Interval
      BY <2>1, DeadlineExact DEF TypeOK
    <3>2. TypeOK' /\ NotYetStarted'
      BY <1>1, <2>1, <3>1 DEF Arm, TypeOK, NotYetStarted, Waiting
    <3>3. DeadlineFar'
      <4>1. since \in Nat /\ since' = since /\ clock' = clock
        BY <1>1, IntervalAssumption DEF Arm, TypeOK
      <4>2. Ticks(clock) \in Int
        BY NSPerSecAssumption DEF TypeOK, Time, Ticks
      <4>3. Ticks(next') + since >= Ticks(clock) + Interval
        BY <3>1, <4>1, <4>2, IntervalAssumption
      <4> QED BY <4>1, <4>3 DEF DeadlineFar, Ticks
    <3> QED BY <3>2, <3>3
  <2>2. CASE next' = next /\ thread' = "done"
    BY <1>1, <2>2 DEF Arm, TypeOK, NotYetStarted, DeadlineFar, Waiting
  <2> QED BY <1>1, <2>1, <2>2 DEF Arm
<1>2. CASE Wait
  BY <1>2 DEF Wait, TypeOK, NotYetStarted, DeadlineFar, Waiting, Ticks
<1>3. CASE TimeOut
  BY <1>3, IntervalAssumption
     DEF TimeOut, TypeOK, NotYetStarted, DeadlineFar, Waiting
<1>4. CASE WakeUp \/ Called \/ Leave
  BY <1>4 DEF WakeUp, Called, Leave, TypeOK, NotYetStarted, DeadlineFar,
              Waiting
<1>5. CASE TimerThread_Start
  BY <1>5, IntervalAssumption
     DEF TimerThread_Start, TypeOK, NotYetStarted, DeadlineFar, Waiting
<1>6. CASE TimerThread_Delete
  BY <1>6 DEF TimerThread_Delete, TypeOK, NotYetStarted, DeadlineFar,
              Waiting, Ticks
<1>7. CASE JoinAndFree
  BY <1>7 DEF JoinAndFree, TypeOK, NotYetStarted, DeadlineFar, Waiting
<1>8. CASE Tick
  <2> DEFINE carry == IF clock.nsec + 1 = NSPerSec THEN 1 ELSE 0
             shift == IF clock.nsec + 1 = NSPerSec /\ clock.sec = MaxSec THEN 1 ELSE 0
             Clock == [sec |-> clock.sec + carry - shift,
                       nsec |-> (clock.nsec + 1) % NSPerSec]
  <2>1. carry \in {0, 1} /\ shift \in {0, 1}
    OBVIOUS
  <2>2. clock \in Time /\ next \in Time /\ since \in 0 .. Interval
    BY DEF TypeOK
  <2>3. /\ clock' = Clock
        /\ next' = IF thread \in Waiting THEN [next EXCEPT !.sec = @ - shift]
                   ELSE [sec |-> 0, nsec |-> 0]
        /\ since' = IF since < Interval THEN since + 1 ELSE since
        /\ thread' = thread /\ owner' = owner
    BY <1>8 DEF Tick
  <2>4. Clock \in Time /\ Ticks(Clock) = Ticks(clock) + 1 - shift * NSPerSec
    <3> HIDE DEF shift
    <3> QED BY <2>1, <2>2, TickTime
  <2>5. [next EXCEPT !.sec = @ - shift] \in Time
        /\ Ticks([next EXCEPT !.sec = @ - shift]) = Ticks(next) - shift * NSPerSec
    <3> HIDE DEF shift
    <3> QED BY <2>1, <2>2, ShiftTime
  <2>6. [sec |-> 0, nsec |-> 0] \in Time
    BY NSPerSecAssumption DEF Time
  <2> HIDE DEF carry, shift, Clock
  <2>7. TypeOK'
    BY <2>2, <2>3, <2>4, <2>5, <2>6, IntervalAssumption DEF TypeOK
  <2>8. NotYetStarted'
    BY <2>3 DEF NotYetStarted
  <2>9. DeadlineFar'
    <3> SUFFICES ASSUME thread \in Waiting, since # Interval
                 PROVE  since' = Interval \/ Ticks(next') + since' >= Ticks(clock') + Interval
      BY <2>2, <2>3, IntervalAssumption DEF DeadlineFar, Ticks
    <3>1. Ticks(clock) \in Int /\ Ticks(next) \in Int /\ shift * NSPerSec \in Int
      BY <2>1, <2>2, NSPerSecAssumption DEF Time, Ticks
    <3>2. Ticks(next) + since >= Ticks(clock) + Interval
      BY DEF DeadlineFar
    <3>3. since' = since + 1
      BY <2>2, <2>3, IntervalAssumption
    <3>4. Ticks(next') = Ticks(next) - shift * NSPerSec
          /\ Ticks(clock') = Ticks(clock) + 1 - shift * NSPerSec
      BY <2>3, <2>4, <2>5
    <3> HIDE DEF Ticks
    <3> QED BY <2>2, <3>1, <3>2, <3>3, <3>4, IntervalAssumption
  <2> QED BY <2>7, <2>8, <2>9
<1>9. CASE UNCHANGED vars
  BY <1>9 DEF vars, TypeOK, NotYetStarted, DeadlineFar, Ticks
<1> QED BY <1>1, <1>2, <1>3, <1>4, <1>5, <1>6, <1>7, <1>8, <1>9 DEF Next, Run, Own

\* TimerThread_New, _Start, _Delete and the loop keep the invariant for ever.
THEOREM TimerInvariance == Spec => []TInv
  BY TInvInit, TInvNext, PTL DEF Spec

\* Both times stay normalized, whatever Init is given: the carry that
\* TimerThread_Run makes when nanoseconds overflow is enough.
THEOREM TimerTypes == Spec => []TypeOK
<1>1. TInv => TypeOK
  BY DEF TInv
<1> QED BY <1>1, TimerInvariance, PTL

\* Whatever the clock reads when the deadline is set, func is called again only
\* after a whole interval.
THEOREM TimerNeverEarly == Spec => NeverEarly
<1>1. TInv /\ [Next]_vars => [TimeOut => since = Interval]_vars
  <2> SUFFICES ASSUME TInv, TimeOut PROVE since = Interval
    OBVIOUS
  <2>1. thread \in Waiting /\ ~Before(clock, next)
    BY DEF TimeOut, Waiting
  <2>2. clock \in Time /\ next \in Time /\ since \in 0 .. Interval
    BY DEF TInv, TypeOK
  <2>3. Ticks(clock) >= Ticks(next)
    BY <2>1, <2>2, BeforeTicks
  <2>4. Ticks(clock) \in Int /\ Ticks(next) \in Int
    BY <2>2, NSPerSecAssumption DEF Time, Ticks
  <2>5. since = Interval \/ Ticks(next) + since >= Ticks(clock) + Interval
    BY <2>1 DEF TInv, DeadlineFar
  <2> HIDE DEF Ticks
  <2> QED BY <2>2, <2>3, <2>4, <2>5, IntervalAssumption
<1> QED BY <1>1, TimerInvariance, PTL DEF Spec, NeverEarly
=============================================================================
