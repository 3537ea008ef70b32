----------------------------- MODULE SqlConnPool -----------------------------
(***************************************************************************)
(* The MySQL connection pool (src/src/Mysql/sqlConnectPool.cpp): a queue   *)
(* of idle connections under one mutex, a detached producer thread that    *)
(* opens a connection when the queue is empty, a detached recycler thread  *)
(* that closes what has been idle too long, and the threads that call      *)
(* getConnection, whose shared_ptr puts the connection back.               *)
(*                                                                         *)
(* Every critical section is one action, since each runs under mutex_ and  *)
(* the condition variable is waited on between two of them.  The timed     *)
(* wait of getConnection is an action that is enabled whenever the queue   *)
(* has something: a notification or the timeout gets the thread there.     *)
(* The producer waits without a timeout, so whether it sleeps is state.    *)
(* Abstractions: a connection is an element of Objects, and one that was   *)
(* deleted may be made again; the time is two flags of a connection, that  *)
(* the database has dropped it and that it has exceeded maxIdleTime_.      *)
(***************************************************************************)
EXTENDS Naturals, FiniteSets, SequencesExt

CONSTANTS
  Users,      \* the threads that call getConnection, one call at a time
  Objects,    \* the MysqlConn objects
  minSize_,
  maxSize_,
  None        \* no connection

ASSUME PoolAssumption ==
  /\ minSize_ \in Nat
  /\ maxSize_ \in Nat \ {0}
  /\ minSize_ <= maxSize_
  /\ IsFiniteSet(Objects)
  /\ Cardinality(Objects) >= maxSize_
  /\ None \notin Objects

VARIABLES
  connectionQueue_,   \* SqlConnPool::connectionQueue_
  currentSize_,       \* SqlConnPool::currentSize_
  producer,           \* proConn: init, running, or waiting in cond_.wait
  pc,                 \* each user: idle, waiting in getConnection, holding
  held,               \* the connection each user holds
  valid,              \* the open connections that mysql_ping finds alive
  aged                \* the queued ones idle for more than maxIdleTime_

vars == <<connectionQueue_, currentSize_, producer, pc, held, valid, aged>>

Queued == ToSet(connectionQueue_)
Held == { held[u] : u \in Users } \ {None}
Open == Queued \cup Held
Closed == Objects \ Open

Init ==
  /\ connectionQueue_ = <<>>
  /\ currentSize_ = 0
  /\ producer = "init"
  /\ pc = [u \in Users |-> "idle"]
  /\ held = [u \in Users |-> None]
  /\ valid = {}
  /\ aged = {}

------------------------------------------------------------------------------
\* addConn: whether the connection was made is logged, and the object is
\* queued in any case.
AddConn ==
  \E c \in Closed :
    /\ connectionQueue_' = Append(connectionQueue_, c)
    /\ currentSize_' = currentSize_ + 1
    /\ \/ valid' = valid \cup {c}
       \/ UNCHANGED valid
    /\ UNCHANGED aged

\* Init opens minSize_ connections and starts the two threads.
InitAdds ==
  /\ producer = "init"
  /\ currentSize_ < minSize_
  /\ AddConn
  /\ UNCHANGED <<producer, pc, held>>

InitStarts ==
  /\ producer = "init"
  /\ currentSize_ >= minSize_
  /\ producer' = "running"
  /\ UNCHANGED <<connectionQueue_, currentSize_, pc, held, valid, aged>>

\* cond_.notify_all() as far as the producer is concerned.
Notified == IF producer = "waiting" THEN "running" ELSE producer

------------------------------------------------------------------------------
\* The producer.

ProducerWaits ==
  /\ producer = "running"
  /\ connectionQueue_ # <<>>
  /\ producer' = "waiting"
  /\ UNCHANGED <<connectionQueue_, currentSize_, pc, held, valid, aged>>

\* With maxSize_ connections out the thread goes round and round instead.
ProducerAdds ==
  /\ producer = "running"
  /\ connectionQueue_ = <<>>
  /\ currentSize_ < maxSize_
  /\ AddConn
  /\ UNCHANGED <<producer, pc, held>>

ProducerWakes ==
  /\ producer = "waiting"
  /\ producer' = "running"
  /\ UNCHANGED <<connectionQueue_, currentSize_, pc, held, valid, aged>>

------------------------------------------------------------------------------
\* getConnection.

\* Mutant: the dead connection is counted down twice.
GetChecks_CountsAgain(u) ==
  /\ producer # "init"
  /\ pc[u] = "idle"
  /\ pc' = [pc EXCEPT ![u] = "waiting"]
  /\ connectionQueue_ # <<>> /\ Head(connectionQueue_) \notin valid
  /\ connectionQueue_' = <<>>
  /\ currentSize_' = currentSize_ - Len(connectionQueue_) - 1
  /\ valid' = valid \ Queued
  /\ aged' = {}
  /\ UNCHANGED <<producer, held>>

\* The first critical section: if the oldest connection is dead the queue is
\* emptied.  Nobody is notified.
GetChecks(u) ==
  /\ producer # "init"
  /\ pc[u] = "idle"
  /\ pc' = [pc EXCEPT ![u] = "waiting"]
  /\ IF connectionQueue_ # <<>> /\ Head(connectionQueue_) \notin valid
     THEN /\ connectionQueue_' = <<>>
          /\ currentSize_' = currentSize_ - Len(connectionQueue_)
          /\ valid' = valid \ Queued
          /\ aged' = {}
     ELSE UNCHANGED <<connectionQueue_, currentSize_, valid, aged>>
  /\ UNCHANGED <<producer, held>>

\* Mutant: the connection handed out stays in the queue.
GetTakes_KeepsQueued(u) ==
  /\ pc[u] = "waiting"
  /\ connectionQueue_ # <<>>
  /\ held' = [held EXCEPT ![u] = Head(connectionQueue_)]
  /\ pc' = [pc EXCEPT ![u] = "holding"]
  /\ producer' = Notified
  /\ UNCHANGED <<connectionQueue_, currentSize_, valid, aged>>

\* Mutant: the producer is not notified.
GetTakes_Silent(u) ==
  /\ pc[u] = "waiting"
  /\ connectionQueue_ # <<>>
  /\ held' = [held EXCEPT ![u] = Head(connectionQueue_)]
  /\ connectionQueue_' = Tail(connectionQueue_)
  /\ pc' = [pc EXCEPT ![u] = "holding"]
  /\ aged' = aged \ {Head(connectionQueue_)}
  /\ UNCHANGED <<currentSize_, producer, valid>>

\* The second one: the oldest connection of a queue that is not empty.
GetTakes(u) ==
  /\ pc[u] = "waiting"
  /\ connectionQueue_ # <<>>
  /\ held' = [held EXCEPT ![u] = Head(connectionQueue_)]
  /\ connectionQueue_' = Tail(connectionQueue_)
  /\ pc' = [pc EXCEPT ![u] = "holding"]
  /\ producer' = Notified
  /\ aged' = aged \ {Head(connectionQueue_)}
  /\ UNCHANGED <<currentSize_, valid>>

\* The deleter of the shared_ptr: the connection goes back.  Nobody is
\* notified; a waiting user finds it when its wait times out.
GiveBack(u) ==
  /\ pc[u] = "holding"
  /\ connectionQueue_' = Append(connectionQueue_, held[u])
  /\ held' = [held EXCEPT ![u] = None]
  /\ pc' = [pc EXCEPT ![u] = "idle"]
  /\ UNCHANGED <<currentSize_, producer, valid, aged>>

------------------------------------------------------------------------------
\* The recycler: one pass closes the aged connections at the head of the
\* queue until it meets a younger one or only minSize_ are queued.

Passes(k) ==
  /\ producer # "init"
  /\ Len(connectionQueue_) - k >= minSize_
  /\ \A i \in 1..k : connectionQueue_[i] \in aged
  /\ Len(connectionQueue_) - k > minSize_ => connectionQueue_[k + 1] \notin aged
  /\ connectionQueue_' = SubSeq(connectionQueue_, k + 1, Len(connectionQueue_))
  /\ LET closed == ToSet(SubSeq(connectionQueue_, 1, k))
     IN  valid' = valid \ closed /\ aged' = aged \ closed
  /\ producer' = Notified
  /\ UNCHANGED <<pc, held>>

\* Mutant: currentSize_ is not counted down.
RemoveConn_Uncounted ==
  \E k \in 1..Len(connectionQueue_) : Passes(k) /\ UNCHANGED currentSize_

RemoveConn ==
  \E k \in 1..Len(connectionQueue_) :
    Passes(k) /\ currentSize_' = currentSize_ - k

------------------------------------------------------------------------------
\* The database and the clock.

Drops(c) ==
  /\ c \in valid
  /\ valid' = valid \ {c}
  /\ UNCHANGED <<connectionQueue_, currentSize_, producer, pc, held, aged>>

Ages(c) ==
  /\ c \in Queued \ aged
  /\ aged' = aged \cup {c}
  /\ UNCHANGED <<connectionQueue_, currentSize_, producer, pc, held, valid>>

------------------------------------------------------------------------------
User(u) == GetChecks(u) \/ GetTakes(u) \/ GiveBack(u)

Producer == ProducerWaits \/ ProducerAdds

Next ==
  \/ InitAdds \/ InitStarts
  \/ Producer \/ ProducerWakes
  \/ RemoveConn
  \/ \E u \in Users : User(u)
  \/ \E c \in Objects : Drops(c) \/ Ages(c)

Spec == Init /\ [][Next]_vars

\* The producer is scheduled, and a user gets mutex_ after some of the
\* wakeups that find a connection.  Nobody has to give a connection back, and
\* no wakeup is spurious.
Fairness ==
  /\ WF_vars(Producer)
  /\ \A u \in Users : SF_vars(GetTakes(u))

FairSpec == Spec /\ Fairness

------------------------------------------------------------------------------
\* The members have their types.
TypeOK ==
  /\ connectionQueue_ \in Seq(Objects)
  /\ currentSize_ \in Nat
  /\ producer \in {"init", "running", "waiting"}
  /\ pc \in [Users -> {"idle", "waiting", "holding"}]
  /\ held \in [Users -> Objects \cup {None}]
  /\ \A u \in Users : held[u] # None <=> pc[u] = "holding"
  /\ valid \subseteq Open
  /\ aged \subseteq Queued

\* No connection is used by two threads, or used by one while it waits in the
\* queue, where it could be handed out again or closed.
Exclusive ==
  /\ \A u, v \in Users : held[u] = held[v] => u = v \/ held[u] = None
  /\ \A u \in Users : held[u] \notin Queued
  /\ IsInjective(connectionQueue_)

\* currentSize_ counts the open connections, those in the queue and those
\* handed out, through every way in and out of the pool.
CountExact == currentSize_ = Cardinality(Open)

\* A thread in getConnection gets a connection, or the pool has all it may
\* open in use, as the comment in getConnection has it
\* (sqlConnectPool.cpp:12); violated once a queue of dead connections was
\* emptied, because nobody wakes the producer then.
Served ==
  \A u \in Users :
    (pc[u] = "waiting")
      ~> (pc[u] = "holding" \/ Cardinality(Held) = maxSize_)

\* So it is as long as the database takes and keeps every connection, whoever
\* notifies whom: the producer that sleeps is woken by the user that leaves
\* the queue empty, and the user that waits times out.
ServedWhenReliable == [](Open \subseteq valid) => Served
==============================================================================
