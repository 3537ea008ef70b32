-------------------------- MODULE TimerQueueProofs ---------------------------
(***************************************************************************)
(* The life of a Timer object, for any number of timers, any intervals and *)
(* delays and any settings of the wall clock: a timer that runs once is    *)
(* called once and deleted after that.  And the timerfd: it is armed for   *)
(* the earliest of the timers that wait, as long as the clocks agree.      *)
(***************************************************************************)
EXTENDS TimerQueue, FiniteSetTheorems, TLAPS

\* The types of the variables a timer's life depends on, and where the timers
\* that getExpired took can be: none of them outside handleRead.
TimersInv ==
  /\ status \in [Timers -> {"new", "queued", "pending", "expired", "deleted"}]
  /\ runs \in [Timers -> 0..2]
  /\ toRun \subseteq Expired
  /\ Expired # {} => calling
  /\ ~(active /\ calling)
  /\ OnceEach

LEMMA TimersInit == Init => TimersInv
  BY DEF Init, TimersInv, Expired, OnceEach

\* addTimer, on whichever thread, and what it queues: the timer waits.
LEMMA AddStep ==
  ASSUME TimersInv, NEW t \in Timers,
         AddTimer(t) \/ QueueTimer(t) \/ AddTimerInLoop(t)
  PROVE  TimersInv'
<1>1. PICK s \in {"queued", "pending"} : status' = [status EXCEPT ![t] = s]
  BY DEF AddTimer, QueueTimer, AddTimerInLoop, Insert
<1>2. /\ status[t] \in {"new", "queued"}
      /\ UNCHANGED <<active, calling, toRun, runs>>
  BY DEF AddTimer, QueueTimer, AddTimerInLoop
<1>3. Expired' = Expired
  BY <1>1, <1>2 DEF TimersInv, Expired
<1>4. status' \in [Timers -> {"new", "queued", "pending", "expired", "deleted"}]
  BY <1>1 DEF TimersInv
<1>5. t \notin toRun
  BY <1>2 DEF TimersInv, Expired
<1>6. OnceEach'
  BY <1>1, <1>2, <1>5 DEF TimersInv, OnceEach, Repeats
<1>. QED BY <1>2, <1>3, <1>4, <1>6 DEF TimersInv

\* getExpired moves the due timers out of timers_ (TimerQueue.cpp:109-131).
LEMMA HandleReadStep ==
  ASSUME TimersInv, HandleRead
  PROVE  TimersInv'
<1> DEFINE due == { t \in timers_ : left[t] = 0 }
<1>1. /\ active /\ ~active' /\ calling' /\ toRun' = due /\ runs' = runs
      /\ status' = [t \in Timers |-> IF t \in due THEN "expired" ELSE status[t]]
  BY DEF HandleRead
<1>2. Expired = {} /\ toRun = {} /\ \A t \in due : status[t] = "pending"
  BY <1>1 DEF TimersInv, timers_
<1>3. due \subseteq Timers
  BY DEF timers_
<1> HIDE DEF due
<1>4. Expired' = due
  BY <1>1, <1>2, <1>3 DEF Expired
<1>5. status' \in [Timers -> {"new", "queued", "pending", "expired", "deleted"}]
  BY <1>1 DEF TimersInv
<1>6. OnceEach'
  BY <1>1, <1>2, <1>3 DEF TimersInv, OnceEach, Repeats
<1>. QED BY <1>1, <1>4, <1>5, <1>6 DEF TimersInv

\* An expired timer's callback is called (TimerQueue.cpp:132-135).
LEMMA RunStep ==
  ASSUME TimersInv, NEW t \in Timers, RunTimer(t)
  PROVE  TimersInv'
<1>1. /\ t \in toRun /\ toRun' = toRun \ {t}
      /\ runs' = [runs EXCEPT ![t] = IF @ = 2 THEN 2 ELSE @ + 1]
      /\ UNCHANGED <<status, active, calling>>
  BY DEF RunTimer
<1>2. Expired' = Expired /\ status[t] = "expired"
  BY <1>1 DEF Expired, TimersInv
<1>3. runs' \in [Timers -> 0..2]
  BY <1>1 DEF TimersInv
<1>4. OnceEach'
  BY <1>1, <1>2 DEF TimersInv, OnceEach, Repeats
<1>. QED BY <1>1, <1>2, <1>3, <1>4 DEF TimersInv

\* reset inserts the repeating timers again and deletes the others, whose
\* callbacks have all been called by then (TimerQueue.cpp:143-158).
LEMMA ResetStep ==
  ASSUME TimersInv, Reset
  PROVE  TimersInv'
<1>1. /\ toRun = {} /\ toRun' = {} /\ runs' = runs
      /\ status' = [t \in Timers |-> IF t \in Restarted THEN "pending"
                                     ELSE IF t \in Expired THEN "deleted"
                                     ELSE status[t]]
      /\ ~calling' /\ active' = active /\ calling
  BY DEF Reset
<1>2. /\ Restarted \subseteq Expired /\ Expired \subseteq Timers
      /\ \A t \in Expired : status[t] = "expired" /\ (~Repeats(t) => t \notin Restarted)
      /\ \A t \in Restarted : Repeats(t)
      /\ \A t \in Timers : status[t] = "expired" => t \in Expired
  BY DEF Restarted, Expired
<1>3. Expired' = {}
  <2>1. \A t \in Timers : status'[t] # "expired"
    BY <1>1, <1>2
  <2>. QED BY <2>1 DEF Expired
<1>4. status' \in [Timers -> {"new", "queued", "pending", "expired", "deleted"}]
  BY <1>1 DEF TimersInv
<1>5. OnceEach'
  <2> SUFFICES ASSUME NEW t \in Timers, ~Repeats(t)
               PROVE  runs'[t] = IF \/ status'[t] \in {"new", "queued", "pending"}
                                    \/ t \in toRun'
                                 THEN 0 ELSE 1
    BY DEF OnceEach, Repeats
  <2>1. CASE t \in Expired
    BY <1>1, <1>2, <2>1 DEF TimersInv, OnceEach
  <2>2. CASE t \notin Expired
    BY <1>1, <1>2, <2>2 DEF TimersInv, OnceEach
  <2>. QED BY <2>1, <2>2
<1>. QED BY <1>1, <1>3, <1>4, <1>5 DEF TimersInv

\* Polls, ticks and settings of the clock touch no timer.
LEMMA ClockStep ==
  ASSUME TimersInv, Poll \/ Tick \/ StepBack \/ UNCHANGED vars
  PROVE  TimersInv'
<1>1. UNCHANGED <<status, runs, toRun, calling>> /\ (active' => active \/ ~calling)
  BY DEF Poll, Tick, StepBack, vars
<1>2. Expired' = Expired /\ OnceEach' = OnceEach
  BY <1>1 DEF Expired, OnceEach, Repeats
<1>. QED BY <1>1, <1>2 DEF TimersInv

\* A timer that runs once is called exactly once before it is deleted, neither
\* dropped by getExpired or reset nor called again, whichever thread added it
\* and however the callbacks and the clocks fall (TimerQueue.cpp:48-68,
\* 109-158).
THEOREM CalledOnce == Spec => []OnceEach
<1>1. TimersInv /\ [Next]_vars => TimersInv'
  BY AddStep, HandleReadStep, RunStep, ResetStep, ClockStep DEF Next
<1>2. TimersInv => OnceEach
  BY DEF TimersInv
<1>. QED BY TimersInit, <1>1, <1>2, PTL DEF Spec

------------------------------------------------------------------------------
\* The timerfd.

\* A set of naturals that is not empty and has a bound has a least element:
\* the numbers from it to the bound are those that are not below all of S, and
\* their number gives it away.
LEMMA LeastExists ==
  ASSUME NEW M \in Nat, NEW S \in SUBSET (0..M), S # {}
  PROVE  \E k \in S : \A s \in S : k <= s
<1> DEFINE T == { n \in 0..M : \E s \in S : s <= n }
           c == Cardinality(T)
           k == M + 1 - c
<1>1. IsFiniteSet(0..M) /\ Cardinality(0..M) = M + 1
  BY FS_Interval
<1>2. T \subseteq 0..M /\ S \subseteq T
  OBVIOUS
<1>3. IsFiniteSet(T) /\ c \in Nat /\ c <= M + 1
  BY <1>1, <1>2, FS_Subset, FS_CardinalityType
<1>4. ASSUME NEW x \in T
      PROVE  k <= x
  <2>1. x \in 0..M /\ x..M \subseteq T
    OBVIOUS
  <2>2. Cardinality(x..M) = M - x + 1
    BY <2>1, FS_Interval
  <2>3. Cardinality(x..M) <= c
    BY <1>3, <2>1, FS_Subset
  <2>. QED BY <1>3, <2>1, <2>2, <2>3
<1>5. ASSUME NEW x \in 0..M, x \notin T
      PROVE  x < k
  <2>1. T \subseteq (x + 1)..M
    <3>1. SUFFICES ASSUME NEW y \in T
                   PROVE  y >= x + 1
      OBVIOUS
    <3>2. PICK s \in S : s <= y
      OBVIOUS
    <3>3. y \in 0..M /\ s \in 0..M /\ ~(s <= x)
      BY <1>5, <3>2
    <3>. QED BY <1>5, <3>2, <3>3
  <2>2. IsFiniteSet((x + 1)..M) /\ Cardinality((x + 1)..M) = M - x
    <3>1. /\ x + 1 \in Int /\ M \in Int /\ x \in 0..M
          /\ x + 1 > M => M - x = 0
          /\ M - (x + 1) + 1 = M - x
      BY <1>5
    <3>. DEFINE a == x + 1
    <3>. HIDE DEF a
    <3>2. /\ IsFiniteSet(a..M)
          /\ Cardinality(a..M) = IF a > M THEN 0 ELSE M - a + 1
      BY <3>1, FS_Interval DEF a
    <3>. QED BY <3>1, <3>2 DEF a
  <2>3. c <= M - x
    BY <2>1, <2>2, FS_Subset
  <2>. QED BY <1>3, <2>3
<1>6. k \in 0..M
  <2>1. PICK s \in S : TRUE
    OBVIOUS
  <2>2. k <= s /\ s \in 0..M
    BY <1>2, <1>4, <2>1
  <2>. QED BY <1>3, <2>2
<1>7. k \in T
  <2>1. SUFFICES ASSUME k \notin T
                 PROVE  FALSE
    OBVIOUS
  <2>. HIDE DEF T, k
  <2>2. k < k
    BY <1>5, <1>6, <2>1
  <2>. QED BY <1>6, <2>2
<1>8. PICK s \in S : s <= k
  BY <1>7
<1>9. s = k
  BY <1>2, <1>3, <1>4, <1>8
<1>. QED BY <1>2, <1>4, <1>9

\* What Earliest returns.
LEMMA EarliestFacts ==
  ASSUME NEW ts \in SUBSET Timers, ts # {}, NEW l \in [Timers -> 0..MaxDelay]
  PROVE  /\ Earliest(ts, l) \in 0..MaxDelay
         /\ \E t \in ts : l[t] = Earliest(ts, l)
         /\ \A t \in ts : Earliest(ts, l) <= l[t]
<1> DEFINE S == { l[t] : t \in ts }
<1>1. MaxDelay \in Nat /\ S \in SUBSET (0..MaxDelay) /\ S # {}
  BY TimerAssumption
<1>2. \E k \in S : \A s \in S : k <= s
  <2>. HIDE DEF S
  <2>. QED BY <1>1, LeastExists
<1>3. Min(S) \in S /\ \A s \in S : Min(S) <= s
  <2>. HIDE DEF S
  <2>. QED BY <1>2 DEF Min
<1>4. Earliest(ts, l) = Min(S)
  BY DEF Earliest
<1>. QED BY <1>1, <1>3, <1>4

\* There is one such value.
LEMMA EarliestIs ==
  ASSUME NEW ts \in SUBSET Timers, NEW l \in [Timers -> 0..MaxDelay],
         NEW t \in ts, \A u \in ts : l[t] <= l[u]
  PROVE  Earliest(ts, l) = l[t]
<1>1. /\ Earliest(ts, l) \in 0..MaxDelay
      /\ \E u \in ts : l[u] = Earliest(ts, l)
      /\ \A u \in ts : Earliest(ts, l) <= l[u]
  BY EarliestFacts
<1>2. l[t] \in 0..MaxDelay /\ MaxDelay \in Nat
  BY TimerAssumption
<1>. QED BY <1>1, <1>2

\* The types of the clocks, and what ArmedForEarliest says.
ArmedInv ==
  /\ TimersInv
  /\ left \in [Timers -> 0..MaxDelay]
  /\ timerfd_ \in Nat
  /\ steps \in Nat
  /\ ArmedForEarliest

LEMMA ArmedInit == Init => ArmedInv
<1>1. Init => timers_ = {} /\ left \in [Timers -> 0..MaxDelay]
  BY TimerAssumption DEF Init, timers_
<1>. QED BY <1>1, TimersInit DEF Init, ArmedInv, ArmedForEarliest

\* A timer that comes in with no more than what the others have left takes the
\* timerfd; any other leaves the earliest what it was.
LEMMA InsertArmed ==
  ASSUME ArmedInv, NEW t \in Timers, status[t] \in {"new", "queued"},
         NEW n \in 0..MaxDelay, Insert(t, n),
         UNCHANGED <<active, calling, steps>>
  PROVE  ArmedForEarliest'
<1>0. MaxDelay \in Nat /\ left' \in [Timers -> 0..MaxDelay] /\ timers_ \subseteq Timers
  BY TimerAssumption DEF ArmedInv, Insert, timers_
<1>1. /\ timers_' = timers_ \cup {t} /\ t \notin timers_ /\ Expired' = Expired
      /\ left'[t] = n /\ \A u \in timers_ : left'[u] = left[u]
  BY DEF ArmedInv, TimersInv, Insert, timers_, Expired
<1>2. CASE ResetTimerfd(n) /\ (timers_ = {} \/ n = 0 \/ n < Earliest(timers_, left))
  <2>1. \A u \in timers_ : n <= left[u]
    <3>1. timers_ # {} => /\ Earliest(timers_, left) \in 0..MaxDelay
                          /\ \A u \in timers_ : Earliest(timers_, left) <= left[u]
      BY <1>0, EarliestFacts DEF ArmedInv
    <3>2. \A u \in timers_ : left[u] \in 0..MaxDelay
      BY <1>0 DEF ArmedInv
    <3>. QED BY <1>0, <1>2, <3>1, <3>2
  <2>2. \A u \in timers_' : left'[t] <= left'[u]
    BY <1>1, <2>1
  <2>3. Earliest(timers_', left') = n
    <3>1. timers_' \in SUBSET Timers /\ t \in timers_'
      BY <1>0, <1>1
    <3>. QED BY <1>0, <1>1, <2>2, <3>1, EarliestIs
  <2>4. timerfd_' = IF n = 0 THEN 1 ELSE n
    BY <1>2 DEF ResetTimerfd
  <2>. QED BY <2>3, <2>4 DEF ArmedForEarliest
<1>3. CASE /\ timers_ # {} /\ ~(n < Earliest(timers_, left))
           /\ UNCHANGED <<timerfd_, readable>>
  <2>1. PICK v \in timers_ : left[v] = Earliest(timers_, left)
    BY <1>0, <1>3, EarliestFacts DEF ArmedInv
  <2>2. \A u \in timers_' : left'[v] <= left'[u]
    <3>1. \A u \in timers_ : left[v] <= left[u]
      BY <1>0, <1>3, <2>1, EarliestFacts DEF ArmedInv
    <3>2. left[v] \in 0..MaxDelay /\ left[v] <= n
      BY <1>0, <1>3, <2>1 DEF ArmedInv
    <3>. QED BY <1>1, <3>1, <3>2
  <2>3. Earliest(timers_', left') = Earliest(timers_, left)
    <3>1. timers_' \in SUBSET Timers /\ v \in timers_' /\ left'[v] = left[v]
      BY <1>0, <1>1
    <3>. QED BY <1>0, <2>1, <2>2, <3>1, EarliestIs
  <2>. QED BY <1>1, <1>3, <2>3 DEF ArmedInv, ArmedForEarliest
<1>. QED BY <1>2, <1>3 DEF Insert, EarliestChanged

LEMMA AddArmed ==
  ASSUME ArmedInv, NEW t \in Timers,
         AddTimer(t) \/ QueueTimer(t) \/ AddTimerInLoop(t)
  PROVE  ArmedInv'
<1>1. TimersInv' /\ steps' \in Nat /\ MaxDelay \in Nat
  BY AddStep, TimerAssumption DEF ArmedInv, AddTimer, QueueTimer, AddTimerInLoop
<1>2. left' \in [Timers -> 0..MaxDelay] /\ timerfd_' \in Nat
  BY <1>1 DEF ArmedInv, AddTimer, QueueTimer, AddTimerInLoop, Insert, ResetTimerfd
<1>3. ArmedForEarliest'
  <2>1. CASE QueueTimer(t)
    <3>1. timers_' = timers_ /\ Expired' = Expired /\ t \notin timers_
      BY <2>1 DEF QueueTimer, ArmedInv, TimersInv, timers_, Expired
    <3>2. \A u \in timers_ : left'[u] = left[u]
      BY <2>1, <3>1 DEF QueueTimer, ArmedInv, timers_
    <3>3. Earliest(timers_', left') = Earliest(timers_, left)
      BY <3>1, <3>2 DEF Earliest
    <3>. QED BY <2>1, <3>1, <3>3 DEF QueueTimer, ArmedInv, ArmedForEarliest
  <2>2. CASE AddTimer(t) \/ AddTimerInLoop(t)
    <3>1. PICK n \in 0..MaxDelay : Insert(t, n)
      BY <2>2 DEF AddTimer, AddTimerInLoop, ArmedInv
    <3>2. /\ status[t] \in {"new", "queued"}
          /\ UNCHANGED <<active, calling, steps>>
      BY <2>2 DEF AddTimer, AddTimerInLoop
    <3>. QED BY <3>1, <3>2, InsertArmed
  <2>. QED BY <2>1, <2>2
<1>. QED BY <1>1, <1>2, <1>3 DEF ArmedInv

\* A wakeup that finds a timer due leaves the rest to reset, and without one
\* the timerfd was not the reason for it and is still armed.
LEMMA HandleReadArmed ==
  ASSUME ArmedInv, HandleRead
  PROVE  ArmedInv'
<1> DEFINE due == { t \in timers_ : left[t] = 0 }
<1>1. /\ TimersInv' /\ calling' /\ ~calling
      /\ UNCHANGED <<left, timerfd_, steps>>
      /\ status' = [t \in Timers |-> IF t \in due THEN "expired" ELSE status[t]]
  BY HandleReadStep DEF HandleRead, ArmedInv, TimersInv
<1>2. ArmedForEarliest'
  <2>1. CASE due # {}
    <3>1. Expired' # {}
      BY <1>1, <2>1 DEF Expired, timers_
    <3>. QED BY <1>1, <3>1 DEF ArmedForEarliest
  <2>2. CASE due = {}
    <3>1. timers_' = timers_ /\ timers_ \subseteq Timers
      BY <1>1, <2>2 DEF timers_
    <3>2. timers_ # {} => Earliest(timers_, left) # 0
      BY <2>2, <3>1, EarliestFacts DEF ArmedInv
    <3>. QED BY <1>1, <3>1, <3>2 DEF ArmedInv, ArmedForEarliest
  <2>. QED BY <2>1, <2>2
<1>. QED BY <1>1, <1>2 DEF ArmedInv

\* reset arms the timerfd for what is earliest once the repeating timers are
\* back, and with nothing expired it had not to.
LEMMA ResetArmed ==
  ASSUME ArmedInv, Reset
  PROVE  ArmedInv'
<1>1. /\ TimersInv' /\ steps' = steps /\ UNCHANGED active
      /\ Restarted \subseteq Expired /\ Expired \subseteq Timers
      /\ timers_ \subseteq Timers /\ timers_ \cap Expired = {}
  BY ResetStep DEF Reset, ArmedInv, Restarted, Expired, timers_
<1>2. left' \in [Timers -> 0..MaxDelay]
  BY TimerAssumption DEF Reset, ArmedInv
<1>3. timers_' = timers_ \cup Restarted
  BY <1>1 DEF Reset, timers_, Restarted, Expired
<1>4. CASE Expired # {} /\ timers_ \cup Restarted # {}
  <2>1. Earliest(timers_', left') \in 0..MaxDelay
    <3>1. timers_' \in SUBSET Timers /\ timers_' # {}
      BY <1>1, <1>3, <1>4
    <3>. QED BY <1>2, <3>1, EarliestFacts
  <2>2. timerfd_' = IF Earliest(timers_', left') = 0 THEN 1
                    ELSE Earliest(timers_', left')
    BY <1>3, <1>4 DEF Reset, ResetTimerfd
  <2>3. timerfd_' \in Nat /\ ArmedForEarliest'
    BY <2>1, <2>2, TimerAssumption DEF ArmedForEarliest
  <2>. QED BY <1>1, <1>2, <2>3 DEF ArmedInv
<1>5. CASE Expired = {}
  <2>1. timers_' = timers_ /\ UNCHANGED <<timerfd_, readable>>
    BY <1>1, <1>3, <1>5 DEF Reset
  <2>2. left' = left
    BY <1>1, <1>5 DEF Reset, ArmedInv
  <2>3. ArmedForEarliest'
    BY <1>1, <1>5, <2>1, <2>2 DEF ArmedInv, ArmedForEarliest
  <2>. QED BY <1>1, <2>1, <2>2, <2>3 DEF ArmedInv
<1>6. CASE timers_ \cup Restarted = {}
  <2>1. timers_' = {} /\ UNCHANGED timerfd_
    BY <1>3, <1>6 DEF Reset
  <2>. QED BY <1>1, <1>2, <2>1 DEF ArmedInv, ArmedForEarliest
<1>. QED BY <1>4, <1>5, <1>6

\* A tick of both clocks keeps the timerfd and the earliest timer together.
LEMMA TickArmed ==
  ASSUME ArmedInv, Tick
  PROVE  ArmedInv'
<1>0. MaxDelay \in Nat /\ timers_ \subseteq Timers
  BY TimerAssumption DEF timers_
<1>1. /\ TimersInv' /\ timers_' = timers_ /\ Expired' = Expired
      /\ UNCHANGED <<active, calling, steps>>
      /\ timerfd_' = IF timerfd_ = 0 THEN 0 ELSE timerfd_ - 1
      /\ readable' = (readable \/ timerfd_ = 1)
  BY ClockStep DEF Tick, ArmedInv, timers_, Expired
<1>2. /\ left' \in [Timers -> 0..MaxDelay]
      /\ \A t \in Timers : left'[t] = IF left[t] = 0 THEN 0 ELSE left[t] - 1
  BY <1>0 DEF Tick, ArmedInv
<1>3. timerfd_' \in Nat
  BY <1>1 DEF ArmedInv
<1>4. ASSUME timers_ # {}
      PROVE  /\ Earliest(timers_, left) \in Nat
             /\ Earliest(timers_', left') = IF Earliest(timers_, left) = 0 THEN 0
                                            ELSE Earliest(timers_, left) - 1
  <2>1. PICK v \in timers_ : /\ left[v] = Earliest(timers_, left)
                             /\ \A u \in timers_ : left[v] <= left[u]
    BY <1>0, <1>4, EarliestFacts DEF ArmedInv
  <2>2. \A u \in timers_ : left[u] \in Nat
    BY <1>0 DEF ArmedInv
  <2>3. \A u \in timers_ : left'[v] <= left'[u]
    BY <1>0, <1>2, <2>1, <2>2
  <2>4. Earliest(timers_', left') = left'[v]
    BY <1>0, <1>1, <1>2, <2>3, EarliestIs
  <2>. QED BY <1>0, <1>2, <2>1, <2>2, <2>4
<1>5. ArmedForEarliest'
  <2>1. SUFFICES ASSUME timers_ # {}, steps = 0
                 PROVE  ArmedForEarliest'
    BY <1>1 DEF ArmedForEarliest
  <2>. DEFINE e == Earliest(timers_, left)
              f == Earliest(timers_', left')
  <2>2. e \in Nat /\ f = IF e = 0 THEN 0 ELSE e - 1
    BY <1>4, <2>1
  <2>3. \/ timerfd_ \in e..(IF e = 0 THEN 1 ELSE e) \ {0}
        \/ (readable \/ active) /\ e = 0
        \/ calling /\ Expired # {}
    BY <2>1 DEF ArmedInv, ArmedForEarliest
  <2>. HIDE DEF e, f
  <2>4. \/ timerfd_' \in f..(IF f = 0 THEN 1 ELSE f) \ {0}
        \/ (readable' \/ active') /\ f = 0
        \/ calling' /\ Expired' # {}
    <3>1. CASE timerfd_ \in e..(IF e = 0 THEN 1 ELSE e) \ {0}
      <4>1. CASE timerfd_ = 1
        <5>1. f = 0
          BY <2>2, <3>1, <4>1
        <5>2. readable'
          BY <1>1, <4>1, Zenon
        <5>. QED BY <5>1, <5>2, Zenon
      <4>2. CASE timerfd_ # 1
        BY <1>1, <2>2, <3>1, <4>2
      <4>. QED BY <4>1, <4>2
    <3>2. CASE (readable \/ active) /\ e = 0
      BY <1>1, <2>2, <3>2
    <3>3. CASE calling /\ Expired # {}
      BY <1>1, <3>3
    <3>. QED BY <2>3, <3>1, <3>2, <3>3
  <2>. QED BY <2>4 DEF ArmedForEarliest, f
<1>. QED BY <1>1, <1>2, <1>3, <1>5 DEF ArmedInv

\* The other steps keep the timers and the timerfd; the clock set back is the
\* case that the property leaves out.
LEMMA OtherArmed ==
  ASSUME ArmedInv,
         \/ \E t \in Timers : RunTimer(t)
         \/ Poll \/ StepBack \/ UNCHANGED vars
  PROVE  ArmedInv'
<1>1. TimersInv'
  BY RunStep, ClockStep DEF ArmedInv
<1>2. CASE (\E t \in Timers : RunTimer(t)) \/ Poll \/ UNCHANGED vars
  <2>1. /\ UNCHANGED <<status, left, timerfd_, readable, calling, steps>>
        /\ active => active'
        /\ active' => active \/ readable
    BY <1>2 DEF RunTimer, Poll, vars
  <2>2. timers_' = timers_ /\ Expired' = Expired
    BY <2>1 DEF timers_, Expired
  <2>3. ArmedForEarliest'
    BY <2>1, <2>2 DEF ArmedInv, ArmedForEarliest
  <2>. QED BY <1>1, <2>1, <2>3 DEF ArmedInv
<1>3. CASE StepBack
  <2>1. steps' \in Nat /\ steps' # 0 /\ timerfd_' = timerfd_
    BY <1>3 DEF StepBack, ArmedInv
  <2>2. left' \in [Timers -> 0..MaxDelay]
    BY <1>3, TimerAssumption DEF StepBack, ArmedInv
  <2>. QED BY <1>1, <2>1, <2>2 DEF ArmedInv, ArmedForEarliest
<1>. QED BY <1>2, <1>3

\* While timers wait and the clocks agree, the timerfd is armed for the first
\* of them, or its wakeup is under way (TimerQueue.cpp:58-68, 143-166).
THEOREM AlwaysArmed == Spec => []ArmedForEarliest
<1>1. ArmedInv /\ [Next]_vars => ArmedInv'
  BY AddArmed, HandleReadArmed, ResetArmed, TickArmed, OtherArmed DEF Next
<1>2. ArmedInv => ArmedForEarliest
  BY DEF ArmedInv
<1>. QED BY ArmedInit, <1>1, <1>2, PTL DEF Spec
==============================================================================
