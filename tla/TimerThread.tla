---------------------------- MODULE TimerThread ----------------------------
(***************************************************************************)
(* The timer of src/src/timerthread.c: a thread that calls a function at   *)
(* every interval, and the owner that starts and deletes it.               *)
(*                                                                         *)
(* The thread has no flag that tells it to stop: TimerThread_Delete only   *)
(* signals the condition the thread sleeps on, and the thread ends when    *)
(* pthread_cond_timedwait returns anything but ETIMEDOUT.                  *)
(*                                                                         *)
(* A clock tick is one unit of tv_nsec.  The origin of time moves along:   *)
(* when the clock would pass MaxSec seconds, everything shifts back by     *)
(* one second, so that it never stops.                                     *)
(***************************************************************************)
EXTENDS Integers

CONSTANTS
  NSPerSec,   \* NANOSEC_PER_SEC
  Interval,   \* intervalInNanoSec
  MaxSec,     \* where the origin of time is moved
  MaxLate     \* bound, in seconds, on how late the thread is scheduled

ASSUME NSPerSecAssumption == NSPerSec \in Nat \ {0}
ASSUME IntervalAssumption == Interval \in Nat
ASSUME BoundAssumption == MaxSec \in Nat \ {0} /\ MaxLate \in Nat \ {0}

VARIABLES
  clock,      \* CLOCK_REALTIME
  next,       \* the deadline of the wait
  thread,     \* where the timer thread is; "none" before pthread_create
  owner,      \* where the thread that owns the timer is
  since       \* ticks since the last call of func (or the start), up to Interval

vars == <<clock, next, thread, owner, since>>

Time == [sec : Int, nsec : 0 .. (NSPerSec - 1)]
Waiting == {"wait", "blocked"}

Init ==
  /\ clock = [sec |-> 0, nsec |-> 0]
  /\ next = [sec |-> 0, nsec |-> 0]
  /\ thread = "none"
  /\ owner = "new"
  /\ since = 0

Before(a, b) == a.sec < b.sec \/ (a.sec = b.sec /\ a.nsec < b.nsec)

-----------------------------------------------------------------------------
(* The timer thread *)

\* Faulty variants: the seconds are not carried, or tv_nsec is not reduced.
UncarriedTime == [sec |-> clock.sec, nsec |-> (clock.nsec + Interval) % NSPerSec]
UnreducedTime ==
  [sec |-> clock.sec + (clock.nsec + Interval) \div NSPerSec,
   nsec |-> clock.nsec + Interval]

TimerThread_GetTime ==
  [sec |-> clock.sec + (clock.nsec + Interval) \div NSPerSec,
   nsec |-> (clock.nsec + Interval) % NSPerSec]

\* The deadline is computed, first when the thread starts and then after each
\* call of func; if the clock cannot be read the thread ends.
Arm ==
  /\ thread \in {"begin", "called"}
  /\ \/ next' = TimerThread_GetTime /\ thread' = "wait"
     \/ next' = next /\ thread' = "done"
  /\ UNCHANGED <<clock, owner, since>>

\* pthread_cond_timedwait, entered: it refuses a time that is not normal.
Wait ==
  /\ thread = "wait"
  /\ thread' = IF next.nsec < NSPerSec THEN "blocked" ELSE "done"
  /\ UNCHANGED <<clock, next, owner, since>>

\* ... returns ETIMEDOUT, so func is called ...
TimeOut ==
  /\ thread = "blocked"
  /\ ~Before(clock, next)
  /\ thread' = "calling"
  /\ since' = 0
  /\ UNCHANGED <<clock, next, owner>>

\* ... or returns although nobody signalled, as POSIX lets it, ...
WakeUp ==
  /\ thread = "blocked"
  /\ thread' = "woken"
  /\ UNCHANGED <<clock, next, owner, since>>

\* ... and func returns.
Called ==
  /\ thread = "calling"
  /\ thread' = "called"
  /\ UNCHANGED <<clock, next, owner, since>>

\* The loop ends after any return that is not ETIMEDOUT.
Leave ==
  /\ thread = "woken"
  /\ thread' = "done"
  /\ UNCHANGED <<clock, next, owner, since>>

-----------------------------------------------------------------------------
(* Its owner *)

\* pthread_create returns a positive number when it fails, which the code
\* takes for success.
TimerThread_Start ==
  /\ owner = "new"
  /\ owner' = "started"
  /\ thread' \in {"begin", "none"}
  /\ since' = 0
  /\ UNCHANGED <<clock, next>>

\* pthread_cond_signal wakes the thread if it is blocked and is lost otherwise.
\* KVS_New deletes a timer it has not started when a KVSThread cannot be made.
TimerThread_Delete ==
  /\ owner \in {"new", "started"}
  /\ owner' = "join"
  /\ thread' = IF thread = "blocked" THEN "woken" ELSE thread
  /\ UNCHANGED <<clock, next, since>>

\* pthread_join, and then the timer is destroyed and freed.  A handle that
\* pthread_create has not set is garbage: the join fails, or does anything.
JoinAndFree ==
  /\ owner = "join"
  /\ \/ thread = "done" /\ owner' = "freed"
     \/ thread = "none" /\ owner' \in {"freed", "undefined"}
  /\ UNCHANGED <<clock, next, thread, since>>

-----------------------------------------------------------------------------
Tick ==
  LET second == clock.nsec + 1 = NSPerSec
      shift == IF second /\ clock.sec = MaxSec THEN 1 ELSE 0
  IN
  /\ thread \in Waiting => clock.sec < next.sec + MaxLate
  /\ clock' = [sec |-> clock.sec + (IF second THEN 1 ELSE 0) - shift,
               nsec |-> (clock.nsec + 1) % NSPerSec]
  \* outside a wait the deadline is never read before it is set again
  /\ next' = IF thread \in Waiting THEN [next EXCEPT !.sec = @ - shift]
             ELSE [sec |-> 0, nsec |-> 0]
  /\ since' = IF since < Interval THEN since + 1 ELSE since
  /\ UNCHANGED <<thread, owner>>

Run == Arm \/ Wait \/ TimeOut \/ Called \/ Leave
Own == TimerThread_Start \/ TimerThread_Delete \/ JoinAndFree

Next == Run \/ WakeUp \/ Own \/ Tick

Spec == Init /\ [][Next]_vars

\* Time passes, the thread is scheduled, its function returns, and an owner
\* that has called TimerThread_Delete goes on.  Nobody has to start or delete
\* a timer, and a wait need not wake up for no reason.
FairSpec ==
  Spec /\ WF_vars(Tick) /\ WF_vars(Run) /\ WF_vars(JoinAndFree)

-----------------------------------------------------------------------------
(* Properties *)

TypeOK ==
  /\ clock \in Time /\ next \in Time
  /\ thread \in {"none", "begin", "calling", "called", "woken", "done"} \cup Waiting
  /\ owner \in {"new", "started", "join", "freed", "undefined"}
  /\ since \in 0 .. Interval

\* Between two calls of func, and before the first one, a whole interval
\* passes, whether or not it crosses the end of a second.
NeverEarly == [][TimeOut => since = Interval]_vars

\* A thread that has set its deadline gets to call func, unless it is woken.
CalledAgain == thread = "wait" ~> thread \in {"calling", "woken"}

\* TimerThread_Delete returns (test_timerthread.h deletes a running timer and
\* goes on to check that func is not called again).
DeleteReturns == owner = "join" ~> owner # "join"
=============================================================================
