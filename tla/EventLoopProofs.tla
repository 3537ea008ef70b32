--------------------------- MODULE EventLoopProofs ---------------------------
(***************************************************************************)
(* What module EventLoop's runs check with two threads and three functors, *)
(* proved for any sets of threads and functors: the types, the wakeup      *)
(* protocol, and the FIFO queue that a loop implements; and the safety of  *)
(* EventLoopThread's handshake and destructor, whatever the callbacks of   *)
(* its loop do.                                                            *)
(***************************************************************************)
EXTENDS EventLoopThread, SequenceTheorems, TLAPS

------------------------------------------------------------------------------
\* Every variable keeps the type of the member it models; in particular
\* callingPendingFunctors_ is raised exactly while doPendingFunctors executes
\* its local vector (EventLoop.cpp:182).
LEMMA TypeInit == Init => TypeOK
<1> SUFFICES ASSUME Init
             PROVE  TypeOK
  OBVIOUS
<1>1. quit_ \in BOOLEAN /\ wakeupFd \in BOOLEAN
  BY Zenon DEF Init
<1>2. calling \in BOOLEAN /\ active \in BOOLEAN /\ ~calling /\ ~active
  BY Zenon DEF Init
<1>3. /\ pending \in Seq(Functors) /\ functors \in Seq(Functors)
      /\ functors = <<>> /\ ran \in Seq(Functors)
  BY DEF Init
<1>4. /\ pc \in Phases /\ pc = "ready" /\ posted \in SUBSET Functors
      /\ callerPc \in [Callers -> {"idle", "wake"}]
  BY DEF Init, Phases
<1> QED
  BY <1>1, <1>2, <1>3, <1>4 DEF TypeOK

\* Every step of the loop, its callbacks and its callers keeps the types.
LEMMA TypeStep == TypeOK /\ [Next]_vars => TypeOK'
<1> SUFFICES ASSUME TypeOK, [Next]_vars
             PROVE  TypeOK'
  OBVIOUS
<1> USE DEF TypeOK, Phases
<1>1. CASE EnterLoop
  BY <1>1 DEF EnterLoop
<1>2. CASE TestQuit
  BY <1>2 DEF TestQuit
<1>3. CASE PollWakeup
  BY <1>3 DEF PollWakeup
<1>4. CASE PollIO
  BY <1>4 DEF PollIO
<1>5. CASE PollTimeout
  BY <1>5 DEF PollTimeout
<1>6. CASE HandleRead
  BY <1>6 DEF HandleRead
<1>7. CASE EndDispatch
  BY <1>7 DEF EndDispatch
<1>8. CASE TakePending
  BY <1>8 DEF TakePending
<1>9. CASE RunFunctor
  BY <1>9 DEF RunFunctor
<1>10. CASE EndFunctor
  BY <1>10 DEF EndFunctor
<1>11. CASE DonePending
  BY <1>11 DEF DonePending
<1>12. CASE \E f \in Functors : OwnerQueueInLoop(f)
  BY <1>12 DEF OwnerQueueInLoop
<1>13. CASE \E f \in Functors : OwnerRunInLoop(f)
  BY <1>13 DEF OwnerRunInLoop
<1>14. CASE OwnerQuit
  BY <1>14 DEF OwnerQuit
<1>15. CASE \E t \in Callers : \E f \in Functors : CallerPush(t, f)
  BY <1>15 DEF CallerPush
<1>16. CASE \E t \in Callers : CallerWakeup(t)
  BY <1>16 DEF CallerWakeup
<1>17. CASE \E t \in Callers : CallerQuit(t)
  BY <1>17 DEF CallerQuit
<1>18. CASE UNCHANGED vars
  BY <1>18 DEF vars
<1> QED
  BY <1>1, <1>2, <1>3, <1>4, <1>5, <1>6, <1>7, <1>8, <1>9, <1>10, <1>11,
     <1>12, <1>13, <1>14, <1>15, <1>16, <1>17, <1>18
     DEF Next, LoopStep, Callback, CallerStep

\* The specification keeps the type invariant of EventLoop's members.
THEOREM TypeCorrect == Spec => []TypeOK
BY TypeInit, TypeStep, PTL DEF Spec

------------------------------------------------------------------------------
\* The wakeup protocol.  A queue that is refilled after the swap is refilled
\* either by another thread, which then writes to the eventfd, or by a
\* functor of this very batch, which finds callingPendingFunctors_ raised
\* and writes as well; the eventfd is drained in the dispatch phase only,
\* which the swap always follows.  Functors queued before loop() escape it,
\* so it is proved for programs that queue none.
LEMMA WakeupStep ==
  ASSUME ~EarlyQueue, TypeOK, WakeupInv, [Next]_vars
  PROVE  WakeupInv'
<1> USE DEF WakeupInv, Waking, TypeOK, Phases
<1>1. CASE EnterLoop
  BY <1>1 DEF EnterLoop
<1>2. CASE TestQuit
  BY <1>2 DEF TestQuit
<1>3. CASE PollWakeup
  BY <1>3 DEF PollWakeup
<1>4. CASE PollIO
  BY <1>4 DEF PollIO
<1>5. CASE PollTimeout
  BY <1>5 DEF PollTimeout
<1>6. CASE HandleRead
  BY <1>6 DEF HandleRead
<1>7. CASE EndDispatch
  BY <1>7 DEF EndDispatch
<1>8. CASE TakePending
  BY <1>8 DEF TakePending
<1>9. CASE RunFunctor
  BY <1>9 DEF RunFunctor
<1>10. CASE EndFunctor
  BY <1>10 DEF EndFunctor
<1>11. CASE DonePending
  BY <1>11 DEF DonePending
<1>12. CASE \E f \in Functors : OwnerQueueInLoop(f)
  BY <1>12 DEF OwnerQueueInLoop, InCallback
<1>13. CASE \E f \in Functors : OwnerRunInLoop(f)
  BY <1>13 DEF OwnerRunInLoop
<1>14. CASE OwnerQuit
  BY <1>14 DEF OwnerQuit
<1>15. CASE \E t \in Callers : \E f \in Functors : CallerPush(t, f)
  BY <1>15 DEF CallerPush
<1>16. CASE \E t \in Callers : CallerWakeup(t)
  BY <1>16 DEF CallerWakeup
<1>17. CASE \E t \in Callers : CallerQuit(t)
  BY <1>17 DEF CallerQuit
<1>18. CASE UNCHANGED vars
  BY <1>18 DEF vars
<1> QED
  BY <1>1, <1>2, <1>3, <1>4, <1>5, <1>6, <1>7, <1>8, <1>9, <1>10, <1>11,
     <1>12, <1>13, <1>14, <1>15, <1>16, <1>17, <1>18
     DEF Next, LoopStep, Callback, CallerStep

\* The loop never goes to sleep on queued work (queueInLoop's condition,
\* EventLoop.cpp:140), provided nothing is queued before loop().
THEOREM NeverSleepsOnWork ==
  ASSUME ~EarlyQueue
  PROVE  Spec => [](WakeupInv /\ NoBlockedWork)
<1>1. Init => WakeupInv
  BY DEF Init, WakeupInv
<1>2. WakeupInv => NoBlockedWork
  BY DEF WakeupInv, NoBlockedWork
<1>3. TypeOK /\ WakeupInv /\ [Next]_vars => WakeupInv'
  BY WakeupStep
<1> QED
  BY <1>1, <1>2, <1>3, TypeCorrect, PTL DEF Spec

------------------------------------------------------------------------------
\* The refinement of TaskQueue.  The abstract queue is the unexecuted rest of
\* the batch followed by the pending vector.

\* Appending to the second part of a concatenation appends to the whole.
LEMMA ConcatAppend ==
  ASSUME NEW S, NEW s \in Seq(S), NEW t \in Seq(S), NEW x \in S
  PROVE  s \o Append(t, x) = Append(s \o t, x)
  OBVIOUS

\* Taking from the first part of a concatenation takes from the whole.
LEMMA ConcatHeadTail ==
  ASSUME NEW S, NEW s \in Seq(S), NEW t \in Seq(S), s # <<>>
  PROVE  /\ s \o t # <<>>
         /\ Head(s \o t) = Head(s)
         /\ Tail(s \o t) = Tail(s) \o t
  OBVIOUS

\* Swapping a vector into an empty batch leaves the concatenation alone.
LEMMA ConcatEmpty ==
  ASSUME NEW S, NEW t \in Seq(S)
  PROVE  <<>> \o t = t \o <<>>
  OBVIOUS

\* An EventLoop is constructed with an empty queue (EventLoop.cpp:25-51).
LEMMA RefineInit == Init => Queue!Init
BY DEF Init, Queue!Init

\* Each step appends to the queue, takes its head, runs a functor in place, or
\* leaves the queue alone, as TaskQueue allows.
LEMMA RefineStep ==
  ASSUME TypeOK, [Next]_vars
  PROVE  [Queue!Next]_(Queue!vars)
<1> USE DEF TypeOK, Queue!vars
<1> DEFINE q == functors \o pending
<1>1. CASE TakePending
  <2>1. functors = <<>>
    BY <1>1 DEF TakePending, Phases
  <2>2. q' = q
    BY <1>1, <2>1, ConcatEmpty DEF TakePending
  <2> QED
    BY <1>1, <2>2 DEF TakePending
<1>2. CASE RunFunctor
  <2>1. q # <<>> /\ Head(q) = Head(functors) /\ Tail(q) = Tail(functors) \o pending
    BY <1>2, ConcatHeadTail DEF RunFunctor
  <2>2. Queue!Execute
    BY <1>2, <2>1 DEF RunFunctor, Queue!Execute
  <2> QED
    BY <2>2 DEF Queue!Next
<1>3. CASE \E f \in Functors : OwnerQueueInLoop(f)
  <2> PICK f \in Functors : OwnerQueueInLoop(f)
    BY <1>3
  <2>1. q' = Append(q, f)
    BY ConcatAppend DEF OwnerQueueInLoop
  <2>2. Queue!Submit(f)
    BY <2>1 DEF OwnerQueueInLoop, Queue!Submit
  <2> QED
    BY <2>2 DEF Queue!Next
<1>4. CASE \E f \in Functors : OwnerRunInLoop(f)
  <2> PICK f \in Functors : OwnerRunInLoop(f)
    BY <1>4
  <2>1. Queue!RunNow(f)
    BY DEF OwnerRunInLoop, Queue!RunNow
  <2> QED
    BY <2>1 DEF Queue!Next
<1>5. CASE \E t \in Callers : \E f \in Functors : CallerPush(t, f)
  <2> PICK t \in Callers, f \in Functors : CallerPush(t, f)
    BY <1>5
  <2>1. q' = Append(q, f)
    BY ConcatAppend DEF CallerPush
  <2>2. Queue!Submit(f)
    BY <2>1 DEF CallerPush, Queue!Submit
  <2> QED
    BY <2>2 DEF Queue!Next
<1>6. CASE \/ EnterLoop \/ TestQuit \/ PollWakeup \/ PollIO \/ PollTimeout
           \/ HandleRead \/ EndDispatch \/ EndFunctor \/ DonePending
           \/ OwnerQuit \/ UNCHANGED vars
  <2>1. UNCHANGED <<posted, functors, pending, ran>>
    BY <1>6 DEF EnterLoop, TestQuit, PollWakeup, PollIO, PollTimeout,
       HandleRead, EndDispatch, EndFunctor, DonePending, OwnerQuit, vars
  <2> QED
    BY <2>1
<1>7. CASE \E t \in Callers : CallerWakeup(t) \/ CallerQuit(t)
  <2>1. UNCHANGED <<posted, functors, pending, ran>>
    BY <1>7 DEF CallerWakeup, CallerQuit
  <2> QED
    BY <2>1
<1> QED
  BY <1>1, <1>2, <1>3, <1>4, <1>5, <1>6, <1>7
     DEF Next, LoopStep, Callback, CallerStep

\* Batches, nested calls of queueInLoop and direct calls together implement
\* one FIFO queue in which every functor is executed exactly once
\* (EventLoop.cpp:110-145 and 182-204).
THEOREM Refinement == Spec => ImplementsTaskQueue
<1>1. Init => Queue!Init
  BY RefineInit
<1>2. TypeOK /\ [Next]_vars => [Queue!Next]_(Queue!vars)
  BY RefineStep
<1> QED
  BY <1>1, <1>2, TypeCorrect, PTL DEF Spec, ImplementsTaskQueue, Queue!Spec

------------------------------------------------------------------------------
\* EventLoopThread.

\* A step of this program is a step of EventLoop, or leaves its variables
\* alone, or is the destructor's call of quit; the types survive each.
LEMMA LoopTypeStep ==
  ASSUME TypeOK, [ThreadNext]_allVars
  PROVE  TypeOK'
<1>1. CASE [Next]_vars
  BY <1>1, TypeStep
<1>2. CASE DtorQuit
  BY <1>2 DEF DtorQuit, TypeOK
<1>3. [Next]_vars \/ DtorQuit
  <2> USE DEF vars
  <2>1. CASE ThreadStart \/ SpuriousWakeup \/ Destroy \/ StartLoop \/ ThreadFunc
    BY <2>1 DEF ThreadStart, SpuriousWakeup, Destroy, DtorTest, StartLoop,
       SemWait, StartLock, StartCheck, ThreadFunc, SemPost, PublishLock,
       Publish, NullLock, NullLoop, NullUnlock, LoopDestroyed
  <2>2. CASE FinishDestroy
    BY <2>2 DEF FinishDestroy, DtorCrash, DtorQuitReturns, DtorJoin, DtorSkip
  <2>3. CASE LoopRuns \/ LoopPolls
    BY <2>3 DEF LoopRuns, LoopPolls, Next
  <2>4. CASE LoopCallback \/ LoopQuitsItself
    BY <2>4 DEF LoopCallback, LoopQuitsItself, Next, Callback
  <2>5. CASE OwnerUsesLoop
    BY <2>5, StarterAssumption DEF OwnerUsesLoop, Next, CallerStep
  <2>6. CASE UNCHANGED allVars
    BY <2>6 DEF allVars
  <2> QED
    BY <2>1, <2>2, <2>3, <2>4, <2>5, <2>6 DEF ThreadNext
<1> QED
  BY <1>1, <1>2, <1>3

\* The object is constructed with no loop and no thread (EventLoopThread.cpp:4).
LEMMA ThreadInvInit == ThreadInit => ThreadTypeOK /\ OwnershipInv
<1> SUFFICES ASSUME ThreadInit
             PROVE  ThreadTypeOK /\ OwnershipInv
  OBVIOUS
<1>1. TypeOK
  BY TypeInit DEF ThreadInit
<1>2. sem \in BOOLEAN /\ ~sem /\ loop_ \in BOOLEAN /\ ~loop_ /\ ~quit_
  BY Zenon DEF ThreadInit, Init
<1>3. thr = "none" /\ own = "new" /\ mutex_ = "free" /\ pc = "ready"
  BY DEF ThreadInit, Init
<1> QED
  BY <1>1, <1>2, <1>3
     DEF ThreadTypeOK, OwnershipInv, ThreadPhases, OwnerPhases, BeforeQuit

\* Each step of the owner, of the thread and of its loop keeps the ownership of
\* mutex_, loop_ and the object.
LEMMA ThreadInvStep ==
  ASSUME ThreadTypeOK, OwnershipInv, [ThreadNext]_allVars
  PROVE  (ThreadTypeOK /\ OwnershipInv)'
<1> USE DEF ThreadTypeOK, OwnershipInv, ThreadPhases, OwnerPhases, BeforeQuit
<1>1. TypeOK'
  BY LoopTypeStep
<1>2. CASE ThreadStart
  BY <1>1, <1>2 DEF ThreadStart, vars
<1>3. CASE SpuriousWakeup
  BY <1>1, <1>3 DEF SpuriousWakeup, vars
<1>4. CASE Destroy
  BY <1>1, <1>4 DEF Destroy, DtorTest, vars
<1>5. CASE StartLoop
  <2>1. CASE SemWait
    BY <1>1, <2>1 DEF SemWait, vars
  <2>2. CASE StartLock
    BY <1>1, <2>2 DEF StartLock, vars
  <2>3. CASE StartCheck
    BY <1>1, <2>3 DEF StartCheck, vars
  <2> QED
    BY <1>5, <2>1, <2>2, <2>3 DEF StartLoop
<1>6. CASE FinishDestroy
  <2>1. CASE DtorQuit
    BY <1>1, <2>1 DEF DtorQuit
  <2>2. CASE DtorCrash
    BY <1>1, <2>2 DEF DtorCrash, vars
  <2>3. CASE DtorQuitReturns \/ DtorJoin \/ DtorSkip
    BY <1>1, <2>3 DEF DtorQuitReturns, DtorJoin, DtorSkip, vars
  <2> QED
    BY <1>6, <2>1, <2>2, <2>3 DEF FinishDestroy
<1>7. CASE ThreadFunc
  <2>1. CASE SemPost
    BY <1>1, <2>1 DEF SemPost, vars
  <2>2. CASE PublishLock
    BY <1>1, <2>2 DEF PublishLock, vars
  <2>3. CASE Publish
    BY <1>1, <2>3 DEF Publish, vars
  <2>4. CASE NullLock
    BY <1>1, <2>4 DEF NullLock, vars
  <2>5. CASE NullLoop
    BY <1>1, <2>5 DEF NullLoop, vars
  <2>6. CASE NullUnlock
    BY <1>1, <2>6 DEF NullUnlock, vars
  <2>7. CASE LoopDestroyed
    BY <1>1, <2>7 DEF LoopDestroyed, vars
  <2> QED
    BY <1>7, <2>1, <2>2, <2>3, <2>4, <2>5, <2>6, <2>7 DEF ThreadFunc
<1>8. CASE LoopRuns
  \* Only TestQuit leaves the while loop, and only with quit_ set.
  <2>1. (~quit_ => ~quit_') /\ (~quit_ /\ pc # "exited" => pc' # "exited")
    BY <1>8 DEF LoopRuns, LoopStep, EnterLoop, TestQuit, PollWakeup,
       HandleRead, EndDispatch, TakePending, RunFunctor, EndFunctor,
       DonePending, TypeOK
  <2>2. UNCHANGED threadVars /\ thr = "loop"
    BY <1>8 DEF LoopRuns
  <2> QED
    BY <1>1, <2>1, <2>2 DEF threadVars
<1>9. CASE LoopPolls
  BY <1>1, <1>9 DEF LoopPolls, PollIO, PollTimeout, threadVars
<1>10. CASE LoopCallback
  BY <1>1, <1>10 DEF LoopCallback, OwnerQueueInLoop, OwnerRunInLoop, threadVars
<1>11. CASE OwnerUsesLoop
  BY <1>1, <1>11 DEF OwnerUsesLoop, CallerPush, CallerWakeup, threadVars
<1>12. CASE LoopQuitsItself
  BY <1>1, <1>12 DEF LoopQuitsItself, OwnerQuit
<1>13. CASE UNCHANGED allVars
  BY <1>1, <1>13 DEF allVars, vars, threadVars
<1> QED
  BY <1>2, <1>3, <1>4, <1>5, <1>6, <1>7, <1>8, <1>9, <1>10, <1>11, <1>12, <1>13
     DEF ThreadNext

\* The invariant holds in every state of the program.
LEMMA OwnershipInvariant == ThreadSpec => [](ThreadTypeOK /\ OwnershipInv)
<1>1. ThreadInit => ThreadTypeOK /\ OwnershipInv
  BY ThreadInvInit
<1>2. ThreadTypeOK /\ OwnershipInv /\ [ThreadNext]_allVars
      => (ThreadTypeOK /\ OwnershipInv)'
  BY ThreadInvStep
<1> QED
  BY <1>1, <1>2, PTL DEF ThreadSpec

\* Owner and thread stay in the phases of their functions, whatever the loop
\* and its callbacks do in between.
THEOREM ThreadTypesCorrect == ThreadSpec => []ThreadTypeOK
  BY OwnershipInvariant, PTL

\* startLoop hands out a pointer that is good until the destructor's quit
\* (EventLoopThread.cpp:27-48), as long as no callback makes the loop quit.
THEOREM PointerStaysLive == ThreadSpec => []PointerIsLive
<1>1. OwnershipInv => PointerIsLive
  BY DEF OwnershipInv, PointerIsLive, BeforeQuit
<1> QED
  BY <1>1, OwnershipInvariant, PTL

\* The destructor neither dereferences a null loop_ nor frees the members under
\* a running thread (EventLoopThread.cpp:16-23): as long as no callback tells
\* it to, the loop stops for nobody but the destructor, which then joins the
\* thread.
THEOREM OwnershipSafe == ThreadSpec => []DestructorSafe
<1>1. OwnershipInv => DestructorSafe
  BY DEF OwnershipInv, DestructorSafe, BeforeQuit
<1> QED
  BY <1>1, OwnershipInvariant, PTL
==============================================================================
