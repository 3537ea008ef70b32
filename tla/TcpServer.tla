------------------------------ MODULE TcpServer ------------------------------
(***************************************************************************)
(* TcpServer (src/src/Net/TcpServer.cpp) with its base loop, the loops of  *)
(* its thread pool and its connections.  A new connection is registered in *)
(* connections_ by the base loop and handed to one of the pool's loops; it *)
(* is closed by that loop, unregistered by the base loop and destroyed by  *)
(* its own loop again, each time through the queue of the other loop.      *)
(* Every hop carries a shared_ptr, and the connection lives as long as the *)
(* map or a queued functor refers to it.                                   *)
(*                                                                         *)
(* A loop is what module EventLoop is shown to implement: a FIFO queue of  *)
(* functors executed one at a time, with the channels' handlers between    *)
(* them.  As in loop(), the handlers of everything one epoll_wait reports  *)
(* run before the next functor, on the events reported then.               *)
(***************************************************************************)
EXTENDS TcpConnection, FiniteSets, SequencesExt

CONSTANTS
  Base,    \* the base loop, which accepts
  Setups   \* the ways in which the program is set up, each a record of
           \*   conns     the connections that may be accepted,
           \*   pool      the sequence of the pool's loops (setThreadNum),
           \*   users     threads other than the loops that use connections,
           \*   requests  bound: requests a client sends on one connection

ASSUME ServerAssumption ==
  \A s \in Setups : s.requests \in Nat /\ s.pool \in Seq(ToSet(s.pool))

VARIABLES
  setup,          \* the one of Setups that this program has
  up,             \* the TcpServer has not been destroyed
  next_,          \* EventLoopThreadPool::next_
  connections_,   \* TcpServer::connections_
  conn,           \* the connections, None before they are accepted
  revents,        \* events reported by epoll_wait and not yet handled
  queue,          \* the functors queued in each loop
  requests,       \* the requests each client has sent
  user            \* what each of Users is doing with each connection

vars == <<setup, up, next_, connections_, conn, revents, queue, requests, user>>

Conns == UNION { s.conns : s \in Setups }
Users == UNION { s.users : s \in Setups }
Loops == {Base} \cup UNION { ToSet(s.pool) : s \in Setups }
Pool == setup.pool

None == [state |-> "none"]
Accepted(c) == conn[c] # None

Functor(op, c) == [op |-> op, conn |-> c]

\* The shared_ptrs: of the map, of the queued functors and of Users.
Referenced(c) ==
  \/ c \in connections_
  \/ \E l \in Loops : \E i \in DOMAIN queue[l] : queue[l][i].conn = c
  \/ \E u \in Users : user[c][u] # "none"

\* The last reference is gone: ~TcpConnection has closed the socket.
Destroyed(c) == Accepted(c) /\ ~Referenced(c)

Live(c) == Accepted(c) /\ Referenced(c)
OnLoop(l) == { c \in Conns : Live(c) /\ conn[c].loop = l }

Init ==
  /\ setup \in Setups
  /\ up = TRUE
  /\ next_ = 0
  /\ connections_ = {}
  /\ conn = [c \in Conns |-> None]
  /\ revents = [c \in Conns |-> {}]
  /\ queue = [l \in Loops |-> <<>>]
  /\ requests = [c \in Conns |-> 0]
  /\ user = [c \in Conns |-> [u \in Users |-> "none"]]

------------------------------------------------------------------------------
\* What a handler or functor of connection c leaves behind: its record s and
\* the functors it queued.  removeConnection goes to the base loop; there,
\* runInLoop runs it in place, and connectDestroyed is queued.

InPlace(s) == s.loop = Base /\ "removeConnection" \in ToSet(s.posts)

Enqueued(q, c, s) ==
  LET step(r, op) ==
        LET l == IF op = "removeConnection" THEN Base ELSE s.loop
            f == IF op = "removeConnection" /\ s.loop = Base
                 THEN "connectDestroyed" ELSE op
        IN  [r EXCEPT ![l] = Append(@, Functor(f, c))]
  IN  FoldLeft(step, q, s.posts)

\* The connection callback gives the connection to Users when it is up.
Given(c) ==
  [user EXCEPT ![c] = [u \in Users |->
                         IF u \in setup.users THEN "idle" ELSE "none"]]

Leave(c, s, q) ==
  /\ conn' = [conn EXCEPT ![c] = [s EXCEPT !.posts = <<>>]]
  /\ queue' = Enqueued(q, c, s)
  /\ user' = IF s.ups > conn[c].ups THEN Given(c) ELSE user

------------------------------------------------------------------------------
\* The base loop.

\* Acceptor::handleRead and TcpServer::newConnection; getNextLoop goes round
\* the pool, or gives the base loop when the pool is empty.  connectEstablished
\* runs in place on the base loop and is queued for the others.
NewConnectionOn(c, loop) ==
  /\ up
  /\ c \in setup.conns
  /\ ~Accepted(c)
  /\ connections_' = connections_ \cup {c}
  /\ IF loop = Base
     THEN /\ conn' = [conn EXCEPT ![c] =
                        ConnectEstablished(NewConnection(loop))]
          /\ user' = Given(c)
          /\ UNCHANGED queue
     ELSE /\ conn' = [conn EXCEPT ![c] = NewConnection(loop)]
          /\ queue' = [queue EXCEPT ![loop] =
                         Append(@, Functor("connectEstablished", c))]
          /\ UNCHANGED user

\* Mutant: next_ goes back to 0 one connection late.
Accept_WrapsLate(c) ==
  /\ NewConnectionOn(c, Pool[next_ + 1])
  /\ next_' = IF next_ + 1 > Len(Pool) THEN 0 ELSE next_ + 1
  /\ UNCHANGED <<setup, up, revents, requests>>

Accept(c) ==
  /\ IF Pool = <<>>
     THEN NewConnectionOn(c, Base) /\ UNCHANGED next_
     ELSE /\ NewConnectionOn(c, Pool[next_ + 1])
          /\ next_' = IF next_ + 1 >= Len(Pool) THEN 0 ELSE next_ + 1
  /\ UNCHANGED <<setup, up, revents, requests>>

\* ~TcpServer, after the base loop has ended, between two of its iterations.
\* connectDestroyed is queued for the pool's loops; for the base loop's own
\* connections it runs in place.
ServerDestroyed ==
  /\ up
  /\ \A c \in OnLoop(Base) : revents[c] = {}
  /\ up' = FALSE
  /\ connections_' = {}
  /\ conn' = [c \in Conns |->
                IF c \in connections_ /\ conn[c].loop = Base
                THEN ConnectDestroyed(conn[c]) ELSE conn[c]]
  /\ queue' = [l \in Loops |-> queue[l] \o
       SetToSeq({ Functor("connectDestroyed", c) : c \in
         { d \in connections_ : conn[d].loop = l /\ l # Base } })]
  /\ UNCHANGED <<setup, next_, revents, requests, user>>

------------------------------------------------------------------------------
\* Any loop.

Runs(l) == l = Base => up

\* epoll_wait returns.
Poll(l) ==
  /\ Runs(l)
  /\ \A c \in OnLoop(l) : revents[c] = {}
  /\ \E c \in OnLoop(l) : Revents(conn[c]) # {}
  /\ revents' = [c \in Conns |-> IF c \in OnLoop(l) THEN Revents(conn[c])
                                 ELSE revents[c]]
  /\ UNCHANGED <<setup, up, next_, connections_, conn, queue, requests, user>>

\* The events of one channel are handled.
Handle(l) ==
  \E c \in OnLoop(l) :
    /\ revents[c] # {}
    /\ \E s \in HandleEvent(conn[c], revents[c]) :
         /\ Leave(c, s, queue)
         /\ connections_' = IF InPlace(s) THEN connections_ \ {c}
                                          ELSE connections_
    /\ revents' = [revents EXCEPT ![c] = {}]
    /\ UNCHANGED <<setup, up, next_, requests>>

\* The oldest functor of the queue is executed.
Execute(l) ==
  /\ Runs(l)
  /\ queue[l] # <<>>
  /\ \A c \in OnLoop(l) : revents[c] = {}
  /\ LET f == Head(queue[l])
         c == f.conn
         rest == [queue EXCEPT ![l] = Tail(@)]
     IN  \/ /\ f.op = "connectEstablished"
            /\ Leave(c, ConnectEstablished(conn[c]), rest)
            /\ UNCHANGED connections_
         \/ /\ f.op = "writeComplete"
            /\ Leave(c, OnDestroy(conn[c]), rest)
            /\ UNCHANGED connections_
         \/ /\ f.op = "sendInLoop"
            /\ \E s \in SendInLoop(conn[c]) : Leave(c, s, rest)
            /\ UNCHANGED connections_
         \/ /\ f.op = "shutdownInLoop"
            /\ Leave(c, ShutdownInLoop(conn[c]), rest)
            /\ UNCHANGED connections_
         \/ /\ f.op = "removeConnection"
            /\ connections_' = connections_ \ {c}
            /\ queue' = [rest EXCEPT ![conn[c].loop] =
                           Append(@, Functor("connectDestroyed", c))]
            /\ UNCHANGED <<conn, user>>
         \/ /\ f.op = "connectDestroyed"
            /\ Leave(c, ConnectDestroyed(conn[c]), rest)
            /\ UNCHANGED connections_
  /\ UNCHANGED <<setup, up, next_, revents, requests>>

------------------------------------------------------------------------------
\* The clients.

ClientSends(c) ==
  /\ Live(c)
  /\ conn[c].peer = "open"
  /\ requests[c] < setup.requests
  /\ requests' = [requests EXCEPT ![c] = @ + 1]
  /\ conn' = [conn EXCEPT ![c].unread = @ + 1]
  /\ UNCHANGED <<setup, up, next_, connections_, revents, queue, user>>

\* The client reads: the socket's send buffer has room again.
ClientReads(c) ==
  /\ Live(c)
  /\ conn[c].full
  /\ conn' = [conn EXCEPT ![c].full = FALSE]
  /\ UNCHANGED <<setup, up, next_, connections_, revents, queue,
                 requests, user>>

ClientCloses(c) ==
  /\ Live(c)
  /\ conn[c].peer = "open"
  /\ conn' = [conn EXCEPT ![c].peer = "closed"]
  /\ UNCHANGED <<setup, up, next_, connections_, revents, queue,
                 requests, user>>

ClientResets(c) ==
  /\ Live(c)
  /\ conn[c].peer \in {"open", "closed"}
  /\ conn' = [conn EXCEPT ![c].peer = "reset"]
  /\ UNCHANGED <<setup, up, next_, connections_, revents, queue,
                 requests, user>>

------------------------------------------------------------------------------
\* Threads other than the loops, each with the shared_ptr of a connection.
\* send and shutdown test state_ in one step and do the rest in another.

UserTests(c, u) ==
  /\ user[c][u] = "idle"
  /\ conn[c].state = "kConnected"
  /\ \E op \in {"send", "shutdown"} : user' = [user EXCEPT ![c][u] = op]
  /\ UNCHANGED <<setup, up, next_, connections_, conn, revents, queue,
                 requests>>

UserSends(c, u) ==
  /\ user[c][u] = "send"
  /\ queue' = [queue EXCEPT ![conn[c].loop] =
                 Append(@, Functor("sendInLoop", c))]
  /\ user' = [user EXCEPT ![c][u] = "none"]
  /\ UNCHANGED <<setup, up, next_, connections_, conn, revents, requests>>

UserShutsDown(c, u) ==
  /\ user[c][u] = "shutdown"
  /\ conn' = [conn EXCEPT ![c].state = "kDisconnecting"]
  /\ queue' = [queue EXCEPT ![conn[c].loop] =
                 Append(@, Functor("shutdownInLoop", c))]
  /\ user' = [user EXCEPT ![c][u] = "none"]
  /\ UNCHANGED <<setup, up, next_, connections_, revents, requests>>

UserDrops(c, u) ==
  /\ user[c][u] = "idle"
  /\ user' = [user EXCEPT ![c][u] = "none"]
  /\ UNCHANGED <<setup, up, next_, connections_, conn, revents, queue,
                 requests>>

------------------------------------------------------------------------------
LoopStep(l) == Poll(l) \/ Handle(l) \/ Execute(l)

Client(c) ==
  ClientSends(c) \/ ClientReads(c) \/ ClientCloses(c) \/ ClientResets(c)

User(c, u) ==
  UserTests(c, u) \/ UserSends(c, u) \/ UserShutsDown(c, u) \/ UserDrops(c, u)

Next ==
  \/ \E c \in Conns : Accept(c) \/ Client(c)
  \/ \E c \in Conns : \E u \in Users : User(c, u)
  \/ \E l \in Loops : LoopStep(l)
  \/ ServerDestroyed

Spec == Init /\ [][Next]_vars

\* Every loop keeps running, and so a channel reported by its epoll_wait is
\* handled and a queued functor reaches the head of its queue.
Fairness ==
  \A l \in Loops : WF_vars(Poll(l)) /\ WF_vars(Handle(l)) /\ WF_vars(Execute(l))

FairSpec == Spec /\ Fairness

\* The client reads what it is sent as long as it has not closed or reset.
ReadingSpec == FairSpec /\ \A c \in Conns : WF_vars(ClientReads(c))

------------------------------------------------------------------------------
ConnType ==
  [loop : Loops,
   state : {"kConnecting", "kConnected", "kDisconnecting", "kDisconnected"},
   channel : ChannelType,
   out : Seq(Nat),
   unread : Nat,
   peer : {"open", "closed", "reset", "gone"},
   full : BOOLEAN,
   shut : BOOLEAN,
   taken : Nat,
   wire : Seq(Nat),
   ups : Nat,
   downs : Nat,
   posts : {<<>>}]

Ops == {"connectEstablished", "writeComplete", "sendInLoop", "shutdownInLoop",
        "removeConnection", "connectDestroyed"}

\* Every variable has the type of the member it models.
TypeOK ==
  /\ setup \in Setups
  /\ up \in BOOLEAN
  /\ next_ \in Nat
  /\ next_ < Len(Pool) \/ next_ = 0
  /\ connections_ \subseteq Conns
  /\ \A c \in Conns : conn[c] \in ConnType \cup {None}
  /\ revents \in [Conns -> SUBSET {"IN", "OUT", "ERR", "HUP"}]
  /\ queue \in [Loops -> Seq([op : Ops, conn : Conns])]
  /\ requests \in [Conns -> 0..setup.requests]
  /\ user \in [Conns -> [Users -> {"none", "idle", "send", "shutdown"}]]

\* One other thread at most uses a connection.  With two, a send that passed
\* its test of state_ may be executed after connectDestroyed while state_ is
\* kDisconnecting, which a shutdown by the other thread has stored; its
\* enableWriting then registers the removed channel again.
Lone == \A u, v \in setup.users : u = v

\* When the last shared_ptr goes and the object with its channel is freed,
\* no raw pointer to it is left: not in the interest list, not in channels_
\* and not in activeChannels_ of the iteration that is under way.
NoDanglingChannel ==
  Lone => \A c \in Conns : Destroyed(c) =>
    /\ ~conn[c].channel.inEpoll
    /\ ~conn[c].channel.channels
    /\ revents[c] = {}

\* Only the loops use the connection.  A shutdown by another thread that
\* passed its test of state_ before the connection was closed stores
\* kDisconnecting over kDisconnected and so undoes it.
Unshared == setup.users = {}

\* No epoll_ctl fails, and a connection that no other thread uses is watched
\* for what it needs and for nothing else: for input as long as it is up, and
\* for output exactly while something is buffered, so that neither a buffered
\* byte is forgotten nor the loop spins on a socket that is always writable.
WatchedAsNeeded ==
  \A c \in Conns : Accepted(c) /\ Unshared =>
    LET ch == conn[c].channel IN
    /\ Consistent(ch)
    /\ conn[c].state \in {"kConnected", "kDisconnecting"} /\ ch.channels =>
         ch.events = {kReadEvent} \cup IF conn[c].out = <<>> THEN {}
                                       ELSE {kWriteEvent}
    /\ conn[c].state = "kDisconnected" => ch.events = {}

\* The client gets a prefix of what the server sent, in order, across direct
\* writes, short writes and the output buffer.
StreamInOrder ==
  \A c \in Conns : Accepted(c) =>
    LET bytes == conn[c].wire \o conn[c].out
    IN  \A i \in 1..Len(bytes) : bytes[i] = i

\* The write side of a connection that only the loops use is shut down only
\* when everything that was sent is with the kernel, unless the socket is
\* broken.
ShutdownFlushes ==
  \A c \in Conns : Accepted(c) /\ Unshared /\ conn[c].shut =>
    /\ conn[c].out = <<>>
    /\ Len(conn[c].wire) = conn[c].taken \/ conn[c].peer \in {"reset", "gone"}

\* The connection callback reports a connection up once, and down at most
\* once, after that; and it has reported it down when it is closed.
CallbacksPaired ==
  \A c \in Conns : Accepted(c) /\ Unshared =>
    /\ conn[c].ups = IF conn[c].state = "kConnecting" THEN 0 ELSE 1
    /\ conn[c].downs = IF conn[c].state = "kDisconnected" THEN 1 ELSE 0

\* Closed is for ever: no later handler or queued functor opens a connection
\* again, as long as the loops alone use it.
ClosedIsFinal ==
  [][\A c \in Conns : Accepted(c) /\ conn[c].state = "kDisconnected" /\ Unshared
                      => conn'[c].state = "kDisconnected"]_vars

\* A connection whose client has closed or reset it is unregistered and
\* destroyed, through the two queues, while the server is up, when no other
\* thread holds on to it.
ClosedIsDestroyed ==
  \A c \in Conns :
    (Accepted(c) /\ Unshared /\ conn[c].peer # "open") ~> (Destroyed(c) \/ ~up)

\* A shutdown is carried out: what is buffered is flushed and the write side
\* is shut down, or the connection is closed, or its socket broken.
ShutdownCompletes ==
  \A c \in Conns :
    (Accepted(c) /\ conn[c].state = "kDisconnecting")
      ~> (up => /\ Accepted(c)
                /\ \/ conn[c].shut
                   \/ conn[c].state = "kDisconnected"
                   \/ conn[c].peer \in {"reset", "gone"})
==============================================================================
