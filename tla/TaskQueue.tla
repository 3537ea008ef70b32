------------------------------ MODULE TaskQueue ------------------------------
(***************************************************************************)
(* What an EventLoop promises to the threads that hand it work: one FIFO   *)
(* queue of tasks, each accepted once and executed once, in the order in   *)
(* which it was accepted.  The loop's own thread may also run a task at    *)
(* once, without queueing it (runInLoop called on the loop's thread).      *)
(* Nothing is said here of batches, of the wakeup descriptor or of the     *)
(* poller: module EventLoop shows that they implement this queue.          *)
(***************************************************************************)
EXTENDS Sequences

CONSTANT Tasks

VARIABLES
  posted,   \* the tasks handed to the loop so far
  queue,    \* those that wait, oldest first
  done      \* those executed, in execution order

vars == <<posted, queue, done>>

Init ==
  /\ posted = {}
  /\ queue = <<>>
  /\ done = <<>>

\* A thread queues a task it has not queued before.
Submit(task) ==
  /\ task \notin posted
  /\ posted' = posted \cup {task}
  /\ queue' = Append(queue, task)
  /\ UNCHANGED done

\* The loop's own thread runs a task in place.
RunNow(task) ==
  /\ task \notin posted
  /\ posted' = posted \cup {task}
  /\ done' = Append(done, task)
  /\ UNCHANGED queue

\* The loop executes the oldest waiting task.
Execute ==
  /\ queue # <<>>
  /\ done' = Append(done, Head(queue))
  /\ queue' = Tail(queue)
  /\ UNCHANGED posted

Next ==
  \/ \E task \in Tasks : Submit(task) \/ RunNow(task)
  \/ Execute

Spec == Init /\ [][Next]_vars
==============================================================================
