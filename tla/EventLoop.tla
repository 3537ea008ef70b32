------------------------------ MODULE EventLoop ------------------------------
(***************************************************************************)
(* One EventLoop (src/src/Net/EventLoop.cpp): the thread that owns it and  *)
(* runs loop(), and the other threads that call queueInLoop, runInLoop and *)
(* quit on it.  The loop sleeps in epoll_wait; the other threads rouse it  *)
(* by writing to an eventfd that the poller watches.  Three steps of three *)
(* lines each have to fit together for no functor to be left behind: the   *)
(* push under mutex_, the write to wakeupFd_ after the unlock, and the     *)
(* swap of pendingFunctors_ into a local vector.                           *)
(*                                                                         *)
(* Abstractions.  A functor is an element of Functors and is handed in at  *)
(* most once, so an element names one call of queueInLoop.  The eventfd    *)
(* counter is only ever compared with zero, so wakeupFd says whether it is *)
(* readable.  The other descriptors of the poller appear as PollIO: some   *)
(* of them is ready.  looping_ and pollReturnTime_ are written and never   *)
(* read by the loop; they are left out.                                    *)
(***************************************************************************)
EXTENDS Naturals, Sequences

CONSTANTS
  Callers,      \* the threads other than the loop's own
  Functors,     \* the calls of queueInLoop / runInLoop that may happen
  EarlyQueue    \* may the loop's thread queue a functor before loop()?

ASSUME EarlyQueueAssumption == EarlyQueue \in BOOLEAN

VARIABLES
  quit_,        \* EventLoop::quit_
  calling,      \* EventLoop::callingPendingFunctors_
  pending,      \* EventLoop::pendingFunctors_, guarded by mutex_
  functors,     \* what is left of the local vector of doPendingFunctors
  wakeupFd,     \* is the eventfd readable?
  active,       \* is wakeupChannel_ still to be handled in activeChannels_?
  pc,           \* where the loop's thread is
  callerPc,     \* where each other thread is in queueInLoop
  posted,       \* history: the functors handed in
  ran           \* history: the functors executed, in order

vars == <<quit_, calling, pending, functors, wakeupFd, active, pc, callerPc,
          posted, ran>>

Phases == {"ready", "test", "poll", "dispatch", "pending", "functors",
           "running", "exited"}

\* The loop's thread executes user code: a channel handler or a functor.
InCallback == pc \in {"dispatch", "running"}

\* Some thread is between the unlock in queueInLoop and its write to the
\* eventfd.
Waking == \E t \in Callers : callerPc[t] = "wake"

Init ==
  /\ quit_ = FALSE
  /\ calling = FALSE
  /\ pending = <<>>
  /\ functors = <<>>
  /\ wakeupFd = FALSE
  /\ active = FALSE
  /\ pc = "ready"
  /\ callerPc = [t \in Callers |-> "idle"]
  /\ posted = {}
  /\ ran = <<>>

------------------------------------------------------------------------------
\* The loop's own thread.

\* loop() is entered: quit_ is cleared, whoever set it before.
EnterLoop ==
  /\ pc = "ready"
  /\ quit_' = FALSE
  /\ pc' = "test"
  /\ UNCHANGED <<calling, pending, functors, wakeupFd, active, callerPc,
                 posted, ran>>

\* while (!quit_), then activeChannels_.clear() and the call of poll().
TestQuit ==
  /\ pc = "test"
  /\ pc' = IF quit_ THEN "exited" ELSE "poll"
  /\ active' = FALSE
  /\ UNCHANGED <<quit_, calling, pending, functors, wakeupFd, callerPc,
                 posted, ran>>

\* epoll_wait reports the eventfd, perhaps among other descriptors.
PollWakeup ==
  /\ pc = "poll"
  /\ wakeupFd
  /\ active' = TRUE
  /\ pc' = "dispatch"
  /\ UNCHANGED <<quit_, calling, pending, functors, wakeupFd, callerPc,
                 posted, ran>>

\* epoll_wait reports other descriptors only.
PollIO ==
  /\ pc = "poll"
  /\ ~wakeupFd
  /\ pc' = "dispatch"
  /\ UNCHANGED <<quit_, calling, pending, functors, wakeupFd, active,
                 callerPc, posted, ran>>

\* Mutant: after a timeout epoll_wait is called again at once.
PollTimeout_WaitsAgain ==
  /\ pc = "poll"
  /\ ~wakeupFd
  /\ UNCHANGED vars

\* kPollTimeMs pass without an event.
PollTimeout ==
  /\ pc = "poll"
  /\ ~wakeupFd
  /\ pc' = "pending"
  /\ UNCHANGED <<quit_, calling, pending, functors, wakeupFd, active,
                 callerPc, posted, ran>>

\* wakeupChannel_'s read callback drains the eventfd.
HandleRead ==
  /\ pc = "dispatch"
  /\ active
  /\ wakeupFd' = FALSE
  /\ active' = FALSE
  /\ UNCHANGED <<quit_, calling, pending, functors, pc, callerPc, posted, ran>>

\* All active channels are handled.
EndDispatch ==
  /\ pc = "dispatch"
  /\ ~active
  /\ pc' = "pending"
  /\ UNCHANGED <<quit_, calling, pending, functors, wakeupFd, active,
                 callerPc, posted, ran>>

\* Mutant: the queue is copied, not swapped.
TakePending_Copies ==
  /\ pc = "pending"
  /\ calling' = TRUE
  /\ functors' = pending
  /\ pc' = "functors"
  /\ UNCHANGED <<quit_, pending, wakeupFd, active, callerPc, posted, ran>>

\* doPendingFunctors: the flag is raised and the queue is swapped with an
\* empty local vector under mutex_.
TakePending ==
  /\ pc = "pending"
  /\ calling' = TRUE
  /\ functors' = pending
  /\ pending' = <<>>
  /\ pc' = "functors"
  /\ UNCHANGED <<quit_, wakeupFd, active, callerPc, posted, ran>>

\* The next functor of the local vector is called ...
RunFunctor ==
  /\ pc = "functors"
  /\ functors # <<>>
  /\ ran' = Append(ran, Head(functors))
  /\ functors' = Tail(functors)
  /\ pc' = "running"
  /\ UNCHANGED <<quit_, calling, pending, wakeupFd, active, callerPc, posted>>

\* ... and returns.
EndFunctor ==
  /\ pc = "running"
  /\ pc' = "functors"
  /\ UNCHANGED <<quit_, calling, pending, functors, wakeupFd, active,
                 callerPc, posted, ran>>

\* Mutant: the flag is left raised after the batch.
DonePending_KeepsFlag ==
  /\ pc = "functors"
  /\ functors = <<>>
  /\ pc' = "test"
  /\ UNCHANGED <<quit_, calling, pending, functors, wakeupFd, active,
                 callerPc, posted, ran>>

\* The local vector is exhausted: back to the head of the while loop.
DonePending ==
  /\ pc = "functors"
  /\ functors = <<>>
  /\ calling' = FALSE
  /\ pc' = "test"
  /\ UNCHANGED <<quit_, pending, functors, wakeupFd, active, callerPc,
                 posted, ran>>

\* Mutant: "|| callingPendingFunctors_" is dropped from the condition.
OwnerQueueInLoop_NoFlagTest(f) ==
  /\ InCallback \/ (EarlyQueue /\ pc = "ready")
  /\ f \notin posted
  /\ posted' = posted \cup {f}
  /\ pending' = Append(pending, f)
  /\ UNCHANGED <<quit_, calling, functors, wakeupFd, active, pc, callerPc, ran>>

\* queueInLoop called on the loop's thread: it writes to the eventfd only
\* while doPendingFunctors is executing functors.
OwnerQueueInLoop(f) ==
  /\ InCallback \/ (EarlyQueue /\ pc = "ready")
  /\ f \notin posted
  /\ posted' = posted \cup {f}
  /\ pending' = Append(pending, f)
  /\ wakeupFd' = (wakeupFd \/ calling)
  /\ UNCHANGED <<quit_, calling, functors, active, pc, callerPc, ran>>

\* runInLoop called on the loop's thread: the functor is called in place.
OwnerRunInLoop(f) ==
  /\ InCallback
  /\ f \notin posted
  /\ posted' = posted \cup {f}
  /\ ran' = Append(ran, f)
  /\ UNCHANGED <<quit_, calling, pending, functors, wakeupFd, active, pc,
                 callerPc>>

\* quit called on the loop's thread: isInLoopThread(), so wakeup() follows.
OwnerQuit ==
  /\ InCallback
  /\ quit_' = TRUE
  /\ wakeupFd' = TRUE
  /\ UNCHANGED <<calling, pending, functors, active, pc, callerPc, posted, ran>>

------------------------------------------------------------------------------
\* The other threads.

\* Mutant: the thread id is not compared, so the write is skipped as on the
\* loop's own thread.
CallerPush_Silent(t, f) ==
  /\ callerPc[t] = "idle"
  /\ f \notin posted
  /\ posted' = posted \cup {f}
  /\ pending' = Append(pending, f)
  /\ UNCHANGED <<quit_, calling, functors, wakeupFd, active, pc, callerPc, ran>>

\* queueInLoop, and runInLoop which calls it: the push under mutex_ ...
CallerPush(t, f) ==
  /\ callerPc[t] = "idle"
  /\ f \notin posted
  /\ posted' = posted \cup {f}
  /\ pending' = Append(pending, f)
  /\ callerPc' = [callerPc EXCEPT ![t] = "wake"]
  /\ UNCHANGED <<quit_, calling, functors, wakeupFd, active, pc, ran>>

\* ... and the write to the eventfd after the unlock.
CallerWakeup(t) ==
  /\ callerPc[t] = "wake"
  /\ wakeupFd' = TRUE
  /\ callerPc' = [callerPc EXCEPT ![t] = "idle"]
  /\ UNCHANGED <<quit_, calling, pending, functors, active, pc, posted, ran>>

\* quit called by another thread: isInLoopThread() is false, and the code
\* calls wakeup() only when it is true.
CallerQuit(t) ==
  /\ callerPc[t] = "idle"
  /\ quit_' = TRUE
  /\ UNCHANGED <<calling, pending, functors, wakeupFd, active, pc, callerPc,
                 posted, ran>>

------------------------------------------------------------------------------
\* The steps the loop's thread takes by itself, whatever its callbacks do.
LoopStep ==
  \/ EnterLoop \/ TestQuit \/ PollWakeup \/ HandleRead \/ EndDispatch
  \/ TakePending \/ RunFunctor \/ EndFunctor \/ DonePending

Callback ==
  \/ \E f \in Functors : OwnerQueueInLoop(f) \/ OwnerRunInLoop(f)
  \/ OwnerQuit

CallerStep(t) ==
  \/ \E f \in Functors : CallerPush(t, f)
  \/ CallerWakeup(t)
  \/ CallerQuit(t)

Next ==
  \/ LoopStep
  \/ PollIO
  \/ PollTimeout
  \/ Callback
  \/ \E t \in Callers : CallerStep(t)

Spec == Init /\ [][Next]_vars

\* The loop's thread is scheduled, callbacks return, and a thread that has
\* pushed a functor gets to its write.  Neither traffic on other descriptors
\* nor the poll timeout is relied upon.
Fairness ==
  /\ WF_vars(LoopStep)
  /\ \A t \in Callers : WF_vars(CallerWakeup(t))

FairSpec == Spec /\ Fairness

\* epoll_wait returns, at the latest when kPollTimeMs have passed.
PollReturns == PollWakeup \/ PollTimeout

------------------------------------------------------------------------------
\* Every variable has the type of the member it models, and the flags of
\* doPendingFunctors and of the active list follow the phase of loop().
TypeOK ==
  /\ quit_ \in BOOLEAN
  /\ calling \in BOOLEAN
  /\ calling <=> pc \in {"functors", "running"}
  /\ pending \in Seq(Functors)
  /\ functors \in Seq(Functors)
  /\ functors # <<>> => calling
  /\ wakeupFd \in BOOLEAN
  /\ active \in BOOLEAN
  /\ active => pc = "dispatch"
  /\ pc \in Phases
  /\ callerPc \in [Callers -> {"idle", "wake"}]
  /\ posted \in SUBSET Functors
  /\ ran \in Seq(Functors)

\* The loop never sleeps in epoll_wait on queued work: if a functor is
\* pending while the loop is (or is about to be) in poll(), the eventfd is
\* readable or the thread that pushed is about to make it so.  This is what
\* the condition of queueInLoop (EventLoop.cpp:140) is for.
NoBlockedWork ==
  pc \in {"test", "poll"} /\ pending # <<>> => wakeupFd \/ Waking

\* The inductive form: from the moment the queue is swapped out, whoever
\* refills it wakes the loop, and nothing drains the eventfd before the next
\* dispatch.
WakeupInv ==
  pc \notin {"dispatch", "pending"} /\ pending # <<>> => wakeupFd \/ Waking

\* Batching, nested queueing and direct calls together still implement one
\* FIFO queue in which each functor is executed exactly once.
Queue == INSTANCE TaskQueue WITH
           Tasks <- Functors, posted <- posted,
           queue <- functors \o pending, done <- ran
ImplementsTaskQueue == Queue!Spec

\* A queued functor is executed, unless the loop is told to quit or never
\* entered: wakeups alone get it there, without the poll timeout.
Executed(f) == \E i \in DOMAIN ran : ran[i] = f
Delivered ==
  \A f \in Functors : (f \in posted) ~> (Executed(f) \/ quit_)

\* A call of quit that comes after loop() was entered ends it, whichever
\* thread makes it, provided that epoll_wait returns (EventLoop.cpp:100): for
\* another thread's call it takes the poll timeout.
QuitEndsLoop ==
  WF_vars(PollReturns) => ((quit_ /\ pc # "ready") ~> (pc = "exited"))
==============================================================================
