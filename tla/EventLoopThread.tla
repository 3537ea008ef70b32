--------------------------- MODULE EventLoopThread ---------------------------
(***************************************************************************)
(* EventLoopThread (src/src/Net/EventLoopThread.cpp): the thread that      *)
(* constructs an EventLoop on its stack, publishes a pointer to it and     *)
(* runs it, and the thread that owns the EventLoopThread object (one       *)
(* element of a thread pool): it calls startLoop, then uses the loop, then *)
(* runs the destructor.  Thread (src/src/Base/Thread.cpp) gives it start,  *)
(* join and detach.  The module extends EventLoop: its actions happen here *)
(* as they do there, but only while the loop runs and only for a thread    *)
(* that holds a pointer to it.                                             *)
(*                                                                         *)
(* The destructor reads loop_ twice and without the lock, so each of its   *)
(* reads is a step of its own.  cond_.wait may also return spuriously.     *)
(***************************************************************************)
EXTENDS EventLoop

CONSTANT
  Starter    \* the thread that owns the EventLoopThread object

ASSUME StarterAssumption == Starter \in Callers

VARIABLES
  loop_,     \* EventLoopThread::loop_ # nullptr
  mutex_,    \* EventLoopThread::mutex_: who holds it
  sem,       \* the semaphore of Thread::start has been posted
  thr,       \* where the new thread is in threadFunc
  own,       \* where the owner is in startLoop and in the destructor
  selfQuit   \* history: a callback of the loop has called quit on it

threadVars == <<loop_, mutex_, sem, thr, own, selfQuit>>
allVars == <<vars, threadVars>>

ThreadPhases == {"none", "spawned", "callback", "publish", "loop", "nulling",
                 "unlock", "teardown", "gone"}
OwnerPhases == {"new", "semWait", "lock", "check", "waiting", "started",
                "quit", "inQuit", "join", "skip", "destroyed", "crashed"}

ThreadInit ==
  /\ Init
  /\ loop_ = FALSE
  /\ mutex_ = "free"
  /\ sem = FALSE
  /\ thr = "none"
  /\ own = "new"
  /\ selfQuit = FALSE

------------------------------------------------------------------------------
\* The owner: startLoop.

\* thread_.start() spawns the thread and waits for its semaphore.
ThreadStart ==
  /\ own = "new"
  /\ own' = "semWait"
  /\ thr' = "spawned"
  /\ UNCHANGED <<vars, loop_, mutex_, sem, selfQuit>>

SemWait ==
  /\ own = "semWait"
  /\ sem
  /\ sem' = FALSE
  /\ own' = "lock"
  /\ UNCHANGED <<vars, loop_, mutex_, thr, selfQuit>>

\* mutex_ is taken, at first or on the way out of cond_.wait.
StartLock ==
  /\ own = "lock"
  /\ mutex_ = "free"
  /\ mutex_' = "owner"
  /\ own' = "check"
  /\ UNCHANGED <<vars, loop_, sem, thr, selfQuit>>

\* while (loop_ == nullptr) wait; both ways out of the test release mutex_.
StartCheck ==
  /\ own = "check"
  /\ own' = IF loop_ THEN "started" ELSE "waiting"
  /\ mutex_' = "free"
  /\ UNCHANGED <<vars, loop_, sem, thr, selfQuit>>

\* Mutant: "if" in the place of "while" around cond_.wait.
SpuriousWakeup_NotRetested ==
  /\ own = "waiting"
  /\ own' = "started"
  /\ UNCHANGED <<vars, loop_, mutex_, sem, thr, selfQuit>>

SpuriousWakeup ==
  /\ own = "waiting"
  /\ own' = "lock"
  /\ UNCHANGED <<vars, loop_, mutex_, sem, thr, selfQuit>>

\* The destructor of the EventLoopThread, run before startLoop or once the
\* owner is back from its calls on the loop.
DtorTest ==
  /\ own \in {"new", "started"}
  /\ callerPc[Starter] = "idle"
  /\ own' = IF loop_ THEN "quit" ELSE "skip"
  /\ UNCHANGED <<vars, loop_, mutex_, sem, thr, selfQuit>>

\* Mutant: exiting_ is set, but the loop is not told.
DtorQuit_Untold ==
  /\ own = "quit"
  /\ loop_
  /\ own' = "inQuit"
  /\ UNCHANGED <<vars, loop_, mutex_, sem, thr, selfQuit>>

\* loop_->quit(): loop_ is read a second time.
DtorQuit ==
  /\ own = "quit"
  /\ loop_
  /\ quit_' = TRUE
  /\ own' = "inQuit"
  /\ UNCHANGED <<calling, pending, functors, wakeupFd, active, pc, callerPc,
                 posted, ran, loop_, mutex_, sem, thr, selfQuit>>

DtorCrash ==
  /\ own = "quit"
  /\ ~loop_
  /\ own' = "crashed"
  /\ UNCHANGED <<vars, loop_, mutex_, sem, thr, selfQuit>>

\* Still in quit: isInLoopThread() is false, nothing is written.
DtorQuitReturns ==
  /\ own = "inQuit"
  /\ own' = "join"
  /\ UNCHANGED <<vars, loop_, mutex_, sem, thr, selfQuit>>

\* Mutant: the thread is detached, not joined.
DtorJoin_Detaches ==
  /\ own = "join"
  /\ own' = "destroyed"
  /\ UNCHANGED <<vars, loop_, mutex_, sem, thr, selfQuit>>

DtorJoin ==
  /\ own = "join"
  /\ thr = "gone"
  /\ own' = "destroyed"
  /\ UNCHANGED <<vars, loop_, mutex_, sem, thr, selfQuit>>

\* No loop to quit: the members go at once, and ~Thread detaches the thread.
DtorSkip ==
  /\ own = "skip"
  /\ own' = "destroyed"
  /\ UNCHANGED <<vars, loop_, mutex_, sem, thr, selfQuit>>

Destroy == DtorTest
StartLoop == SemWait \/ StartLock \/ StartCheck
FinishDestroy ==
  DtorQuit \/ DtorCrash \/ DtorQuitReturns \/ DtorJoin \/ DtorSkip

------------------------------------------------------------------------------
\* The new thread: threadFunc.

\* The thread posts the semaphore, constructs the EventLoop and calls
\* callback_ with it.
SemPost ==
  /\ thr = "spawned"
  /\ sem' = TRUE
  /\ thr' = "callback"
  /\ UNCHANGED <<vars, loop_, mutex_, own, selfQuit>>

\* Mutant: loop_ is published without mutex_.
PublishLock_Unlocked ==
  /\ thr = "callback"
  /\ mutex_' = "thread"
  /\ thr' = "publish"
  /\ UNCHANGED <<vars, loop_, sem, own, selfQuit>>

\* loop_ is set and the owner notified, under mutex_.
PublishLock ==
  /\ thr = "callback"
  /\ mutex_ = "free"
  /\ mutex_' = "thread"
  /\ thr' = "publish"
  /\ UNCHANGED <<vars, loop_, sem, own, selfQuit>>

\* Mutant: cond_.notify_one() is forgotten.
Publish_NoNotify ==
  /\ thr = "publish"
  /\ loop_' = TRUE
  /\ mutex_' = "free"
  /\ thr' = "loop"
  /\ UNCHANGED <<vars, sem, own, selfQuit>>

Publish ==
  /\ thr = "publish"
  /\ loop_' = TRUE
  /\ own' = IF own = "waiting" THEN "lock" ELSE own
  /\ mutex_' = "free"
  /\ thr' = "loop"
  /\ UNCHANGED <<vars, sem, selfQuit>>

\* loop.loop() has returned: loop_ is cleared under mutex_ ...
NullLock ==
  /\ thr = "loop"
  /\ pc = "exited"
  /\ mutex_ = "free"
  /\ mutex_' = "thread"
  /\ thr' = "nulling"
  /\ UNCHANGED <<vars, loop_, sem, own, selfQuit>>

NullLoop ==
  /\ thr = "nulling"
  /\ loop_' = FALSE
  /\ thr' = "unlock"
  /\ UNCHANGED <<vars, mutex_, sem, own, selfQuit>>

\* ... the lock goes first, being the younger of the two locals ...
NullUnlock ==
  /\ thr = "unlock"
  /\ mutex_' = "free"
  /\ thr' = "teardown"
  /\ UNCHANGED <<vars, loop_, sem, own, selfQuit>>

\* ... then the EventLoop itself, and the thread ends.
LoopDestroyed ==
  /\ thr = "teardown"
  /\ thr' = "gone"
  /\ UNCHANGED <<vars, loop_, mutex_, sem, own, selfQuit>>

ThreadFunc ==
  \/ SemPost \/ PublishLock \/ Publish
  \/ NullLock \/ NullLoop \/ NullUnlock \/ LoopDestroyed

------------------------------------------------------------------------------
\* The steps of module EventLoop, where this program takes them.

LoopRuns == thr = "loop" /\ LoopStep /\ UNCHANGED threadVars

LoopPolls == thr = "loop" /\ (PollIO \/ PollTimeout) /\ UNCHANGED threadVars

\* callback_ may queue functors too: it has the loop before loop() is called.
LoopCallback ==
  /\ \/ thr = "loop" /\ (\E f \in Functors : OwnerQueueInLoop(f)
                                             \/ OwnerRunInLoop(f))
     \/ thr = "callback" /\ (\E f \in Functors : OwnerQueueInLoop(f))
  /\ UNCHANGED threadVars

\* A callback of the loop calls quit on it.
LoopQuitsItself ==
  /\ thr = "loop"
  /\ OwnerQuit
  /\ selfQuit' = TRUE
  /\ UNCHANGED <<loop_, mutex_, sem, thr, own>>

\* The owner hands functors to the loop between startLoop and the destructor.
OwnerUsesLoop ==
  /\ own = "started"
  /\ (\E f \in Functors : CallerPush(Starter, f)) \/ CallerWakeup(Starter)
  /\ UNCHANGED threadVars

ThreadNext ==
  \/ ThreadStart \/ SpuriousWakeup \/ Destroy
  \/ StartLoop \/ FinishDestroy
  \/ ThreadFunc
  \/ LoopRuns \/ LoopPolls \/ LoopCallback \/ LoopQuitsItself
  \/ OwnerUsesLoop

ThreadSpec == ThreadInit /\ [][ThreadNext]_allVars

\* Both threads are scheduled, and epoll_wait returns when kPollTimeMs have
\* passed.  Strong fairness for the two lock operations of the new thread: it
\* is not beaten to mutex_ for ever by an owner that wakes up spuriously
\* again and again.
ThreadFairness ==
  /\ WF_allVars(StartLoop)
  /\ WF_allVars(FinishDestroy)
  /\ WF_allVars(ThreadFunc)
  /\ SF_allVars(PublishLock)
  /\ SF_allVars(NullLock)
  /\ WF_allVars(LoopRuns)
  /\ WF_allVars(thr = "loop" /\ PollReturns /\ UNCHANGED threadVars)
  /\ WF_allVars(OwnerUsesLoop /\ callerPc[Starter] = "wake")

FairThreadSpec == ThreadSpec /\ ThreadFairness

------------------------------------------------------------------------------
\* The members have their types; mutex_ is held where the code holds it, and
\* loop_ is set exactly between the two critical sections of threadFunc.
ThreadTypeOK ==
  /\ TypeOK
  /\ thr \in ThreadPhases
  /\ own \in OwnerPhases
  /\ sem \in BOOLEAN
  /\ sem <=> own = "semWait" /\ thr \notin {"none", "spawned"}
  /\ loop_ \in BOOLEAN
  /\ loop_ <=> thr \in {"loop", "nulling"}
  /\ mutex_ \in {"free", "owner", "thread"}
  /\ mutex_ = "owner" <=> own = "check"
  /\ mutex_ = "thread" <=> thr \in {"publish", "nulling", "unlock"}

\* The pointer that startLoop returned stays good until the destructor has
\* told the loop to quit: the loop it points to is constructed and is not on
\* its way out.  The owner relies on it in every call it makes on the loop.
\* A loop that one of its own callbacks told to quit is gone before that.
PointerIsLive ==
  own \in {"started", "quit"} /\ ~selfQuit => thr = "loop" /\ pc # "exited"

\* ~EventLoopThread does not dereference a null loop_ between its two reads
\* of it (EventLoopThread.cpp:19 and 28), and does not free mutex_, cond_ and
\* loop_ under the thread that still has to clear loop_ under mutex_, unless
\* a callback told the loop to quit before it.
DestructorSafe ==
  ~selfQuit => /\ own # "crashed"
               /\ own = "destroyed" => thr \in {"none", "gone"}

\* The inductive form: nobody but the destructor stops the loop, so until it
\* has set quit_ the loop cannot have left its while loop, and a destructor
\* that finds loop_ null belongs to a thread that was never started.
BeforeQuit == {"new", "semWait", "lock", "check", "waiting", "started", "quit"}

OwnershipInv ==
  /\ thr = "none" => own \in {"new", "skip", "destroyed"}
  /\ own = "new" => thr = "none"
  /\ thr = "spawned" => own = "semWait"
  /\ ~selfQuit =>
       /\ own \in BeforeQuit => ~quit_ /\ pc # "exited"
       /\ own = "skip" => thr = "none"
       /\ own \in {"started", "quit"} => thr = "loop"
       /\ own = "destroyed" => thr \in {"none", "gone"}
       /\ own # "crashed"
  /\ thr \in {"nulling", "unlock", "teardown", "gone"} => pc = "exited"

\* startLoop returns: the notification cannot fall between the owner's test
\* of loop_ and its wait (EventLoopThread.cpp:36-45).  A loop that quits by
\* itself may be gone before the owner has looked, and then it waits for ever.
StartLoopReturns == (own = "semWait") ~> (own = "started" \/ selfQuit)

\* A quit is obeyed by a loop that is in loop().  When the destructor told it,
\* join returns and the destructor too (the crash of a destructor that finds
\* loop_ cleared between its reads is left to the loops that quit by
\* themselves); and whoever told it, the destructor or a callback of the loop
\* itself, the thread gets out of loop(), past mutex_ and to its end
\* (EventLoop.cpp:66-68, EventLoopThread.cpp:16-23, 66-72).
QuitIsObeyed ==
  /\ (own = "quit" /\ pc # "ready")
       ~> (own = "destroyed" \/ (selfQuit /\ own = "crashed"))
  /\ (thr = "loop" /\ quit_ /\ pc # "ready") ~> (thr = "gone")
==============================================================================
