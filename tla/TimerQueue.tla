----------------------------- MODULE TimerQueue ------------------------------
(***************************************************************************)
(* The timers of one loop (src/src/Timer/TimerQueue.cpp, Timer.cpp): a set *)
(* of timers ordered by expiration and one timerfd, armed for the earliest *)
(* of them.  A timerfd that has fired is disarmed until it is set again,   *)
(* and nothing else brings the loop back to the queue, so a moment at      *)
(* which timers wait and the timerfd is off is a moment from which none of *)
(* them ever runs.                                                         *)
(*                                                                         *)
(* Expirations are times of the wall clock (gettimeofday) while the        *)
(* timerfd counts on CLOCK_MONOTONIC; the two differ when the wall clock   *)
(* is set.  All times are relative to the present and in ticks: a timer is *)
(* known by the ticks left to it, none when it is due, and of two timers   *)
(* that are due either may be the earlier.                                 *)
(***************************************************************************)
EXTENDS Naturals, FiniteSets, FiniteSetsExt

CONSTANTS
  Timers,       \* the calls of addTimer
  Interval,     \* the interval of each, 0 for a timer that runs once
  MaxDelay,     \* bound: ticks from a call of addTimer to its expiration
  MaxSteps      \* bound: times the wall clock is set back by a tick

ASSUME TimerAssumption ==
  /\ MaxDelay \in Nat \ {0}
  /\ Interval \in [Timers -> 0..MaxDelay]
  /\ MaxSteps \in Nat

VARIABLES
  status,     \* new, queued for the loop, pending in timers_, expired, deleted
  left,       \* ticks of the wall clock to the timer's expiration_
  timerfd_,   \* ticks to the timerfd's expiration, 0 when it is disarmed
  readable,   \* the timerfd has expired and has not been read
  active,     \* timerfdChannel_ is still to be handled in activeChannels_
  calling,    \* TimerQueue::callingExpiredTimers_
  toRun,      \* the expired timers whose callback is still to be called
  steps,      \* times the wall clock was set back
  runs        \* history: calls of each callback, counted up to 2

vars == <<status, left, timerfd_, readable, active, calling, toRun, steps,
          runs>>

timers_ == { t \in Timers : status[t] = "pending" }
Expired == { t \in Timers : status[t] = "expired" }

\* Timer::repeat
Repeats(t) == Interval[t] > 0

Init ==
  /\ status = [t \in Timers |-> "new"]
  /\ left = [t \in Timers |-> 0]
  /\ timerfd_ = 0
  /\ readable = FALSE
  /\ active = FALSE
  /\ calling = FALSE
  /\ toRun = {}
  /\ steps = 0
  /\ runs = [t \in Timers |-> 0]

------------------------------------------------------------------------------
\* The ticks left to the earliest of a set of timers.
Earliest(ts, l) == Min({ l[t] : t \in ts })

\* resetTimerfd: at least 100 microseconds, and a past expiry is forgotten.
ResetTimerfd(ticks) ==
  /\ timerfd_' = IF ticks = 0 THEN 1 ELSE ticks
  /\ readable' = FALSE

\* What insert may return for a timer with n ticks left.
EarliestChanged(n) ==
  IF timers_ = {} \/ n < Earliest(timers_, left) THEN {TRUE}
  ELSE IF n = 0 THEN BOOLEAN ELSE {FALSE}

\* Mutant: the timerfd is set for the first timer of an empty queue only.
Insert_EmptyOnly(t, n) ==
  /\ status' = [status EXCEPT ![t] = "pending"]
  /\ left' = [left EXCEPT ![t] = n]
  /\ IF timers_ = {} THEN ResetTimerfd(n) ELSE UNCHANGED <<timerfd_, readable>>

\* addTimerInLoop, with insert.
Insert(t, n) ==
  /\ status' = [status EXCEPT ![t] = "pending"]
  /\ left' = [left EXCEPT ![t] = n]
  /\ \E changed \in EarliestChanged(n) :
       IF changed THEN ResetTimerfd(n) ELSE UNCHANGED <<timerfd_, readable>>

\* addTimer on the loop's thread, by a handler, functor or timer callback.
AddTimer(t) ==
  /\ status[t] = "new"
  /\ \E n \in 0..MaxDelay : Insert(t, n)
  /\ UNCHANGED <<active, calling, toRun, steps, runs>>

\* addTimer on another thread: addTimerInLoop is queued in the loop ...
QueueTimer(t) ==
  /\ status[t] = "new"
  /\ status' = [status EXCEPT ![t] = "queued"]
  /\ \E n \in 0..MaxDelay : left' = [left EXCEPT ![t] = n]
  /\ UNCHANGED <<timerfd_, readable, active, calling, toRun, steps, runs>>

\* ... and executed between two dispatches.
AddTimerInLoop(t) ==
  /\ status[t] = "queued"
  /\ ~active /\ ~calling
  /\ Insert(t, left[t])
  /\ UNCHANGED <<active, calling, toRun, steps, runs>>

------------------------------------------------------------------------------
\* epoll_wait reports the timerfd.
Poll ==
  /\ readable
  /\ ~active /\ ~calling
  /\ active' = TRUE
  /\ UNCHANGED <<status, left, timerfd_, readable, calling, toRun, steps, runs>>

\* handleRead: the timerfd is read and getExpired takes the timers that are
\* due by the wall clock.
HandleRead ==
  LET due == { t \in timers_ : left[t] = 0 } IN
  /\ active
  /\ active' = FALSE
  /\ readable' = FALSE
  /\ calling' = TRUE
  /\ status' = [t \in Timers |-> IF t \in due THEN "expired" ELSE status[t]]
  /\ toRun' = due
  /\ UNCHANGED <<left, timerfd_, steps, runs>>

\* The callback of an expired timer is called.
RunTimer(t) ==
  /\ t \in toRun
  /\ toRun' = toRun \ {t}
  /\ runs' = [runs EXCEPT ![t] = IF @ = 2 THEN 2 ELSE @ + 1]
  /\ UNCHANGED <<status, left, timerfd_, readable, active, calling, steps>>

\* Mutant: repeat() is not tested.
Restarted_All == Expired

\* The timers that reset inserts again; it deletes the others.
Restarted == { t \in Expired : Repeats(t) }

\* Mutant: the timerfd is set only when a timer has been inserted again.
Reset_OnRestart ==
  /\ calling
  /\ toRun = {}
  /\ calling' = FALSE
  /\ status' = [t \in Timers |-> IF t \in Restarted THEN "pending"
                                 ELSE IF t \in Expired THEN "deleted"
                                 ELSE status[t]]
  /\ left' = [t \in Timers |-> IF t \in Restarted THEN Interval[t] ELSE left[t]]
  /\ IF Restarted # {}
     THEN ResetTimerfd(Earliest(timers_ \cup Restarted, left'))
     ELSE UNCHANGED <<timerfd_, readable>>
  /\ UNCHANGED <<active, toRun, steps, runs>>

\* reset: its loop over the expired timers sets the timerfd each time round,
\* so that with nothing expired it does not set it at all.
Reset ==
  /\ calling
  /\ toRun = {}
  /\ calling' = FALSE
  /\ status' = [t \in Timers |-> IF t \in Restarted THEN "pending"
                                 ELSE IF t \in Expired THEN "deleted"
                                 ELSE status[t]]
  /\ left' = [t \in Timers |-> IF t \in Restarted THEN Interval[t] ELSE left[t]]
  /\ IF Expired # {} /\ timers_ \cup Restarted # {}
     THEN ResetTimerfd(Earliest(timers_ \cup Restarted, left'))
     ELSE UNCHANGED <<timerfd_, readable>>
  /\ UNCHANGED <<active, toRun, steps, runs>>

------------------------------------------------------------------------------
\* A tick of both clocks.
Tick ==
  /\ left' = [t \in Timers |-> IF left[t] = 0 THEN 0 ELSE left[t] - 1]
  /\ timerfd_' = IF timerfd_ = 0 THEN 0 ELSE timerfd_ - 1
  /\ readable' = (readable \/ timerfd_ = 1)
  /\ UNCHANGED <<status, active, calling, toRun, steps, runs>>

\* The wall clock is set back by a tick.
StepBack ==
  /\ steps < MaxSteps
  /\ steps' = steps + 1
  /\ left' = [t \in Timers |-> IF left[t] < MaxDelay /\ status[t] # "new"
                               THEN left[t] + 1 ELSE left[t]]
  /\ UNCHANGED <<status, timerfd_, readable, active, calling, toRun, runs>>

------------------------------------------------------------------------------
Next ==
  \/ \E t \in Timers :
       AddTimer(t) \/ QueueTimer(t) \/ AddTimerInLoop(t) \/ RunTimer(t)
  \/ Poll \/ HandleRead \/ Reset
  \/ Tick \/ StepBack

Spec == Init /\ [][Next]_vars

\* The loop runs, callbacks return, and time passes.  Strong fairness for the
\* queued functors: each iteration executes them, even when the timerfd is
\* readable again by then.
Fairness ==
  /\ \A t \in Timers : SF_vars(AddTimerInLoop(t)) /\ WF_vars(RunTimer(t))
  /\ WF_vars(Poll) /\ WF_vars(HandleRead) /\ WF_vars(Reset)
  /\ WF_vars(Tick)

FairSpec == Spec /\ Fairness

------------------------------------------------------------------------------
\* While timers wait, something is on its way that will take the first of
\* them: the timerfd is armed for its expiration, neither later, so that it
\* would be late, nor earlier, so that the wakeup would find nothing due and
\* leave the timerfd off; or it has fired with that timer due; or reset is
\* still to set it.  It takes a wall clock that was not set back.
ArmedForEarliest ==
  timers_ # {} /\ steps = 0 =>
    LET first == Earliest(timers_, left) IN
    \/ timerfd_ \in first..(IF first = 0 THEN 1 ELSE first) \ {0}
    \/ (readable \/ active) /\ first = 0
    \/ calling /\ Expired # {}

\* A timer that runs once is called once, and is deleted only then: it is
\* neither called after its delete nor dropped without a call.
OnceEach ==
  \A t \in Timers : ~Repeats(t) =>
    runs[t] = IF status[t] \in {"new", "queued", "pending"} \/ t \in toRun
              THEN 0 ELSE 1

\* Every timer that was added is called, and a repeating one again and again,
\* whatever is added meanwhile, unless the wall clock is set back: then the
\* timerfd may fire with nothing due, and reset leaves it off.
EveryTimerRuns ==
  \A t \in Timers :
    (status[t] \in {"queued", "pending"})
      ~> (steps > 0 \/ (status[t] = "expired" /\ t \notin toRun))
==============================================================================
