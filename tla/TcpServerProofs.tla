--------------------------- MODULE TcpServerProofs ---------------------------
(***************************************************************************)
(* TcpServer with its loops and connections, for any setups: any number of *)
(* connections, loops in the pool and other threads, and any length of a   *)
(* response.  First the channels and the poller, which any sequence of     *)
(* calls leaves in agreement; then what one handler does to the record of  *)
(* its connection, what the queues of the loops say of it, and the         *)
(* properties.                                                             *)
(***************************************************************************)
EXTENDS TcpServer, Poller, SequenceTheorems, FiniteSetTheorems, TLAPS

------------------------------------------------------------------------------
\* The record of a connection.

\* The functors that one handler leaves behind: one at most.
Posts == {<<>>, <<"writeComplete">>, <<"removeConnection">>}

States == {"kConnecting", "kConnected", "kDisconnecting", "kDisconnected"}
Peers == {"open", "closed", "reset", "gone"}

\* A connection in the middle of a handler.
HandlerType ==
  [loop : Loops, state : States, channel : ChannelType, out : Seq(Nat),
   unread : Nat, peer : Peers, full : BOOLEAN, shut : BOOLEAN, taken : Nat,
   wire : Seq(Nat), ups : Nat, downs : Nat, posts : Posts]

Broken(c) == c.peer \in {"reset", "gone"}

\* What is with the kernel and what is buffered is numbered from 1 on.  Nothing
\* of what sendInLoop took is missing, unless it fell to a broken socket, and
\* then nothing is buffered any more.
Numbered(c) ==
  /\ \A i \in 1..Len(c.wire) : c.wire[i] = i
  /\ \A i \in 1..Len(c.out) : c.out[i] = Len(c.wire) + i
  /\ \/ c.taken = Len(c.wire) + Len(c.out)
     \/ WriteFails(c) /\ c.out = <<>> /\ ~IsWriting(c.channel)

\* The channel is registered as the state wants it.
Registered(c) ==
  /\ Consistent(c.channel)
  /\ c.state = "kConnecting" => c.channel = NewChannel /\ c.out = <<>>
  /\ c.state = "kConnected" =>
       c.channel.index = "kAdded" /\ kReadEvent \in c.channel.events
  /\ c.channel.index = "kAdded" => c.state \in {"kConnected", "kDisconnecting"}
  /\ c.state = "kConnected" /\ ~IsWriting(c.channel) => c.out = <<>>

\* A handler that has queued a functor has nothing left to write.
PostsOnce(c) == c.posts # <<>> => ~IsWriting(c.channel)

Rec(c) ==
  c \in HandlerType /\ Numbered(c) /\ Registered(c) /\ PostsOnce(c)

\* A shutdown that has begun waits for the output buffer or is done, so that a
\* send that comes late does not register the channel again.
ShutdownWaits(c) ==
  c.state = "kDisconnecting" =>
    IsWriting(c.channel) \/ (c.shut /\ c.out = <<>>)

\* How a connection stands that only the loops use.
Kept(c) ==
  /\ ShutdownWaits(c)
  /\ c.ups = IF c.state = "kConnecting" THEN 0 ELSE 1
  /\ c.downs = IF c.state = "kDisconnected" THEN 1 ELSE 0
  /\ c.state \in {"kConnected", "kDisconnecting"} =>
       /\ c.channel.index # "kDeleted"
       /\ c.channel.index = "kAdded" =>
            c.channel.events = {kReadEvent} \cup IF c.out = <<>> THEN {}
                                                 ELSE {kWriteEvent}
  /\ c.state = "kDisconnected" => c.channel.events = {}
  /\ c.shut =>
       /\ c.state \in {"kDisconnecting", "kDisconnected"}
       /\ c.out = <<>>
       /\ Len(c.wire) = c.taken \/ Broken(c)

\* What every handler of an established connection does to its record.
Handled(c, s) ==
  /\ Rec(s)
  /\ s.loop = c.loop /\ s.ups = c.ups
  /\ s.state # "kConnecting"
  /\ c.state = "kDisconnected" => s.state = "kDisconnected"
  /\ ShutdownWaits(c) => ShutdownWaits(s)
  /\ Kept(c) => Kept(s)

------------------------------------------------------------------------------
\* The loops.

Functors == [op : Ops, conn : Conns]

\* A functor waits in the queue of a loop.
Queued(l, f) == \E i \in DOMAIN queue[l] : queue[l][i] = f

\* Everything has its shape.
Shapes ==
  /\ setup \in Setups /\ up \in BOOLEAN
  /\ next_ \in Nat
  /\ next_ < Len(Pool) \/ next_ = 0
  /\ connections_ \subseteq Conns /\ IsFiniteSet(connections_)
  /\ conn \in [Conns -> HandlerType \cup {None}]
  /\ revents \in [Conns -> SUBSET {"IN", "OUT", "ERR", "HUP"}]
  /\ queue \in [Loops -> Seq(Functors)]
  /\ requests \in [Conns -> 0..setup.requests]
  /\ user \in [Conns -> [Users -> {"none", "idle", "send", "shutdown"}]]

\* The connections, between two handlers.
Settled ==
  /\ \A c \in connections_ : Accepted(c)
  /\ \A c \in Conns : Accepted(c) => Rec(conn[c]) /\ conn[c].posts = <<>>
  /\ \A c \in Conns : revents[c] # {} =>
       Accepted(c) /\ conn[c].channel.index = "kAdded"

\* A functor waits in the queue of the loop that is to run it.
InItsQueue ==
  \A l \in Loops : \A i \in DOMAIN queue[l] :
    /\ Accepted(queue[l][i].conn)
    /\ IF queue[l][i].op = "removeConnection" THEN l = Base
       ELSE l = conn[queue[l][i].conn].loop

\* connectEstablished is the first functor of its connection.
EstablishedFirst ==
  /\ \A c \in Conns : Accepted(c) /\ conn[c].state = "kConnecting" =>
       /\ conn[c].loop # Base
       /\ Queued(conn[c].loop, Functor("connectEstablished", c))
  /\ \A l \in Loops : \A i \in DOMAIN queue[l] :
       LET f == queue[l][i] IN
       /\ f.op = "connectEstablished" =>
            /\ conn[f.conn].state = "kConnecting"
            /\ \A j \in DOMAIN queue[l] : queue[l][j].conn = f.conn => j >= i
       /\ f.op \in {"removeConnection", "sendInLoop", "shutdownInLoop"} =>
            conn[f.conn].state # "kConnecting"

\* Only threads that were given a connection use it.
Used ==
  \A c \in Conns : \A u \in Users : user[c][u] # "none" =>
    /\ Accepted(c) /\ conn[c].state # "kConnecting"
    /\ u \in setup.users

LoopsInv == Shapes /\ Settled /\ InItsQueue /\ EstablishedFirst /\ Used

\* The thread has not decided on a shutdown.
SendPending(c) ==
  \/ \E u \in Users : user[c][u] \in {"idle", "send"}
  \/ \E l \in Loops : Queued(l, Functor("sendInLoop", c))

\* A lone thread has one call in a queue at most, and a connection whose
\* channel is registered, or will be, is in connections_ or on its way to
\* connectDestroyed.
LoneInv ==
  Lone =>
    /\ \A c \in Conns : (\E u \in Users : user[c][u] # "none") =>
         \A l \in Loops : ~Queued(l, Functor("sendInLoop", c)) /\
                          ~Queued(l, Functor("shutdownInLoop", c))
    /\ \A c \in Conns : SendPending(c) => ShutdownWaits(conn[c])
    /\ \A c \in Conns : Accepted(c) =>
         \/ conn[c].channel.index = "kNew" /\ conn[c].state # "kConnecting"
         \/ c \in connections_
         \/ Queued(conn[c].loop, Functor("connectDestroyed", c))

\* The loops alone use a connection.
UnsharedInv ==
  Unshared =>
    /\ \A c \in Conns : \A l \in Loops :
         ~Queued(l, Functor("sendInLoop", c)) /\
         ~Queued(l, Functor("shutdownInLoop", c))
    /\ \A c \in Conns : Accepted(c) => Kept(conn[c])

ServerInv == LoopsInv /\ LoneInv /\ UnsharedInv
------------------------------------------------------------------------------
\* Lemmas about the channel.

\* Events of a channel.
LEMMA Updated ==
  ASSUME NEW ch \in ChannelType, Consistent(ch),
         NEW ev \in SUBSET {kReadEvent, kWriteEvent}
  PROVE  LET d == UpdateChannel([ch EXCEPT !.events = ev])
         IN  /\ d \in ChannelType /\ Consistent(d) /\ d.events = ev
             /\ d.index = IF ch.index = "kAdded" /\ ev = {} THEN "kDeleted"
                                                           ELSE "kAdded"
BY DEF ChannelType, Consistent, UpdateChannel, CtlAdd, CtlMod, CtlDel,
       IsNoneEvent

\* EnableReading, EnableWriting, DisableWriting and DisableAll.
LEMMA Switched ==
  ASSUME NEW ch \in ChannelType, Consistent(ch)
  PROVE  /\ EnableReading(ch) \in ChannelType /\ Consistent(EnableReading(ch))
         /\ EnableReading(ch).events = ch.events \cup {kReadEvent}
         /\ EnableReading(ch).index = "kAdded"
         /\ EnableWriting(ch) \in ChannelType /\ Consistent(EnableWriting(ch))
         /\ EnableWriting(ch).events = ch.events \cup {kWriteEvent}
         /\ EnableWriting(ch).index = "kAdded"
         /\ DisableWriting(ch) \in ChannelType
         /\ Consistent(DisableWriting(ch))
         /\ DisableWriting(ch).events = ch.events \ {kWriteEvent}
         /\ DisableWriting(ch).index =
              IF ch.index = "kAdded" /\ ch.events \subseteq {kWriteEvent}
              THEN "kDeleted" ELSE "kAdded"
         /\ DisableAll(ch) \in ChannelType /\ Consistent(DisableAll(ch))
         /\ DisableAll(ch).events = {}
         /\ DisableAll(ch).index =
              IF ch.index = "kAdded" THEN "kDeleted" ELSE "kAdded"
<1>1. ch.events \in SUBSET {kReadEvent, kWriteEvent}
  BY DEF ChannelType
<1>2. /\ ch.events \cup {kReadEvent} \in SUBSET {kReadEvent, kWriteEvent}
      /\ ch.events \cup {kReadEvent} # {}
      /\ ch.events \cup {kWriteEvent} \in SUBSET {kReadEvent, kWriteEvent}
      /\ ch.events \cup {kWriteEvent} # {}
      /\ ch.events \ {kWriteEvent} \in SUBSET {kReadEvent, kWriteEvent}
      /\ ch.events \ {kWriteEvent} = {} <=> ch.events \subseteq {kWriteEvent}
  BY <1>1
<1>3. \A ev \in SUBSET {kReadEvent, kWriteEvent} :
        LET d == UpdateChannel([ch EXCEPT !.events = ev])
        IN  /\ d \in ChannelType /\ Consistent(d) /\ d.events = ev
            /\ d.index = IF ch.index = "kAdded" /\ ev = {} THEN "kDeleted"
                                                          ELSE "kAdded"
  BY Updated
<1>4. /\ EnableReading(ch) \in ChannelType /\ Consistent(EnableReading(ch))
      /\ EnableReading(ch).events = ch.events \cup {kReadEvent}
      /\ EnableReading(ch).index = "kAdded"
  BY <1>2, <1>3 DEF EnableReading
<1>5. /\ EnableWriting(ch) \in ChannelType /\ Consistent(EnableWriting(ch))
      /\ EnableWriting(ch).events = ch.events \cup {kWriteEvent}
      /\ EnableWriting(ch).index = "kAdded"
  BY <1>2, <1>3 DEF EnableWriting
<1>6. /\ DisableWriting(ch) \in ChannelType /\ Consistent(DisableWriting(ch))
      /\ DisableWriting(ch).events = ch.events \ {kWriteEvent}
      /\ DisableWriting(ch).index =
           IF ch.index = "kAdded" /\ ch.events \subseteq {kWriteEvent}
           THEN "kDeleted" ELSE "kAdded"
  BY <1>2, <1>3 DEF DisableWriting
<1>7. /\ DisableAll(ch) \in ChannelType /\ Consistent(DisableAll(ch))
      /\ DisableAll(ch).events = {}
      /\ DisableAll(ch).index =
           IF ch.index = "kAdded" THEN "kDeleted" ELSE "kAdded"
  BY <1>3 DEF DisableAll
<1>. QED BY <1>4, <1>5, <1>6, <1>7

LEMMA Removed ==
  ASSUME NEW ch \in ChannelType, Consistent(ch)
  PROVE  /\ RemoveChannel(ch) \in ChannelType /\ Consistent(RemoveChannel(ch))
         /\ RemoveChannel(ch).events = ch.events
         /\ RemoveChannel(ch).index = "kNew"
BY DEF ChannelType, Consistent, RemoveChannel, CtlDel

------------------------------------------------------------------------------
\* The poller, for any channels and any calls.

\* The inductive invariant: the type, and the agreement of every channel.
PollerInv == PollerTypeOK /\ RegistrationAgrees

\* Every call of the channels' interface keeps the invariant.
LEMMA PollerStep == PollerInv /\ [PollerNext]_channel => PollerInv'
<1> SUFFICES ASSUME PollerInv, [PollerNext]_channel  PROVE PollerInv'
  OBVIOUS
<1>1. CASE UNCHANGED channel
  BY <1>1 DEF PollerInv, PollerTypeOK, RegistrationAgrees
<1>2. ASSUME NEW c \in Channels, NEW ch \in ChannelType, Consistent(ch),
             Store(c, ch)
      PROVE  PollerInv'
  BY <1>2 DEF PollerInv, PollerTypeOK, RegistrationAgrees, Store
<1>3. CASE PollerNext
  <2>1. PICK c \in Channels :
          \/ Store(c, EnableReading(channel[c]))
          \/ Store(c, DisableReading(channel[c]))
          \/ Store(c, EnableWriting(channel[c]))
          \/ Store(c, DisableWriting(channel[c]))
          \/ Store(c, DisableAll(channel[c]))
          \/ Store(c, RemoveChannel(channel[c]))
    BY <1>3 DEF PollerNext
  <2> DEFINE ch == channel[c]
             Agrees(u) == u \in ChannelType /\ Consistent(u)
  <2>2. Agrees(ch)
    BY DEF PollerInv, PollerTypeOK, RegistrationAgrees
  <2>3. /\ Agrees(EnableReading(ch)) /\ Agrees(EnableWriting(ch))
        /\ Agrees(DisableWriting(ch)) /\ Agrees(DisableAll(ch))
    BY <2>2, Switched
  <2>4. Agrees(DisableReading(ch))
    <3>1. ch.events \ {kReadEvent} \in SUBSET {kReadEvent, kWriteEvent}
      BY <2>2 DEF ChannelType
    <3>. QED BY <2>2, <3>1, Updated DEF DisableReading
  <2>5. Agrees(RemoveChannel(ch))
    BY <2>2, Removed
  <2>. QED BY <1>2, <2>1, <2>3, <2>4, <2>5
<1>. QED BY <1>1, <1>3

\* For any set of channels and any sequence of calls no epoll_ctl fails, and
\* index_, channels_ and the interest list agree.
THEOREM RegistrationSound == PollerSpec => []RegistrationAgrees
<1>1. PollerInit => PollerInv
  BY DEF PollerInit, PollerInv, PollerTypeOK, RegistrationAgrees, NewChannel,
         ChannelType, Consistent
<1>2. PollerInv => RegistrationAgrees
  BY DEF PollerInv
<1>. QED BY <1>1, <1>2, PollerStep, PTL DEF PollerSpec

------------------------------------------------------------------------------
\* Lemmas about the handlers.

LEMMA HandledStays ==
  ASSUME NEW c, Rec(c), c.state # "kConnecting"
  PROVE  Handled(c, c)
BY DEF Handled

LEMMA HandledThenHandled ==
  ASSUME NEW c, NEW s, NEW t, Handled(c, s), Handled(s, t)
  PROVE  Handled(c, t)
BY DEF Handled

\* The close of a connection whose channel is registered.
LEMMA CloseHandled ==
  ASSUME NEW c, Rec(c), c.posts = <<>>, c.channel.index = "kAdded"
  PROVE  /\ Handled(c, HandleClose(c))
         /\ ~IsWriting(HandleClose(c).channel)
<1> DEFINE s == HandleClose(c)
<1>1. c \in HandlerType /\ c.channel \in ChannelType /\ Consistent(c.channel)
  BY DEF Rec, HandlerType, Registered
<1>2. c.state \in {"kConnected", "kDisconnecting"}
  BY DEF Rec, Registered
<1> DEFINE ch == DisableAll(c.channel)
<1>3. /\ ch \in ChannelType /\ Consistent(ch) /\ ch.events = {}
      /\ ch.index = "kDeleted"
  BY <1>1, Switched
<1>4. s = [c EXCEPT !.state = "kDisconnected", !.channel = ch,
                    !.downs = @ + 1, !.posts = <<"removeConnection">>]
  <2>1. Append(<<>>, "removeConnection") = <<"removeConnection">>
    OBVIOUS
  <2>. QED BY <1>1, <2>1 DEF HandleClose, OnConnection, Post, HandlerType
<1> HIDE DEF s, ch
<1>5. s \in HandlerType
  <2>1. c.downs + 1 \in Nat /\ "kDisconnected" \in States
    BY <1>1 DEF HandlerType, States
  <2>2. <<"removeConnection">> \in Posts
    BY DEF Posts
  <2>. QED BY <1>1, <1>3, <1>4, <2>1, <2>2 DEF HandlerType
<1>6. /\ s.state = "kDisconnected" /\ s.channel = ch /\ s.downs = c.downs + 1
      /\ s.loop = c.loop /\ s.ups = c.ups /\ s.out = c.out
      /\ s.wire = c.wire /\ s.taken = c.taken /\ s.shut = c.shut
      /\ s.peer = c.peer
  BY <1>1, <1>4 DEF HandlerType
<1>7. ~IsWriting(s.channel)
  BY <1>3, <1>6 DEF IsWriting
<1>8. Numbered(s)
  BY <1>6, <1>7 DEF Rec, Numbered, WriteFails
<1>9. Registered(s) /\ PostsOnce(s)
  BY <1>3, <1>6, <1>7 DEF Registered, PostsOnce
<1>10. Kept(c) => Kept(s)
  BY <1>2, <1>3, <1>6 DEF Kept, ShutdownWaits, Broken
<1>. QED BY <1>5, <1>6, <1>7, <1>8, <1>9, <1>10
         DEF Handled, Rec, ShutdownWaits, s

\* SO_ERROR is read, or a write fails: only the peer is touched.
LEMMA PeerHandled ==
  ASSUME NEW c, Rec(c), c.state # "kConnecting"
  PROVE  /\ Handled(c, HandleError(c)) /\ Handled(c, Failed(c))
         /\ HandleError(c).channel = c.channel
         /\ HandleError(c).posts = c.posts
<1> DEFINE s == [c EXCEPT !.peer = "gone"]
<1>1. c \in HandlerType
  BY DEF Rec
<1>2. HandleError(c) = IF c.peer = "reset" THEN s ELSE c
  BY <1>1 DEF HandleError, HandlerType
<1>3. Failed(c) = IF c.peer = "reset" THEN s ELSE c
  BY <1>1 DEF Failed, HandlerType
<1>4. s \in HandlerType
  BY <1>1 DEF HandlerType, Peers
<1>5. /\ s.peer = "gone" /\ s.state = c.state /\ s.channel = c.channel
      /\ s.loop = c.loop /\ s.ups = c.ups /\ s.downs = c.downs
      /\ s.out = c.out /\ s.wire = c.wire /\ s.taken = c.taken
      /\ s.shut = c.shut /\ s.posts = c.posts
  BY <1>1 DEF HandlerType
<1> HIDE DEF s
<1>6. c.peer = "reset" => Numbered(s)
  BY <1>5 DEF Rec, Numbered, WriteFails
<1>7. Registered(s) /\ PostsOnce(s)
  BY <1>5 DEF Rec, Registered, PostsOnce
<1>8. Kept(c) => Kept(s)
  BY <1>5 DEF Kept, ShutdownWaits, Broken
<1>9. c.peer = "reset" => Handled(c, s)
  BY <1>4, <1>5, <1>6, <1>7, <1>8 DEF Handled, Rec, ShutdownWaits
<1>. QED BY <1>2, <1>3, <1>5, <1>9, HandledStays

\* The write side is shut down if nothing is being written.
LEMMA ShutdownInLoopHandled ==
  ASSUME NEW c, Rec(c), c.state # "kConnecting"
  PROVE  LET s == ShutdownInLoop(c)
         IN  /\ Rec(s)
             /\ s.loop = c.loop /\ s.ups = c.ups /\ s.downs = c.downs
             /\ s.state = c.state /\ s.channel = c.channel
             /\ s.out = c.out /\ s.wire = c.wire /\ s.taken = c.taken
             /\ s.peer = c.peer /\ s.posts = c.posts
             /\ s.shut = IF IsWriting(c.channel) THEN c.shut ELSE TRUE
             /\ ShutdownWaits(c) => ShutdownWaits(s)
<1> DEFINE s == [c EXCEPT !.shut = TRUE]
<1>1. c \in HandlerType
  BY DEF Rec
<1>2. s \in HandlerType
  BY <1>1 DEF HandlerType
<1>3. /\ s.peer = c.peer /\ s.state = c.state /\ s.channel = c.channel
      /\ s.loop = c.loop /\ s.ups = c.ups /\ s.downs = c.downs
      /\ s.out = c.out /\ s.wire = c.wire /\ s.taken = c.taken
      /\ s.shut = TRUE /\ s.posts = c.posts
  BY <1>1 DEF HandlerType
<1> HIDE DEF s
<1>4. Numbered(s) /\ Registered(s) /\ PostsOnce(s)
  BY <1>3 DEF Rec, Numbered, WriteFails, Registered, PostsOnce
<1>5. ShutdownWaits(c) /\ ~IsWriting(c.channel) => ShutdownWaits(s)
  BY <1>3 DEF ShutdownWaits
<1>6. ShutdownInLoop(c) = IF IsWriting(c.channel) THEN c ELSE s
  BY DEF ShutdownInLoop, s
<1>7. Rec(s)
  BY <1>2, <1>4 DEF Rec
<1>. QED BY <1>3, <1>5, <1>6, <1>7

\* shutdown on the loop's thread: the connection goes on to kDisconnecting.
LEMMA ShutdownHandled ==
  ASSUME NEW c, Rec(c), c.state # "kConnecting"
  PROVE  /\ Handled(c, Shutdown(c))
         /\ Shutdown(c).state # "kConnected"
         /\ Shutdown(c).channel = c.channel
         /\ Shutdown(c).posts = c.posts
<1>1. CASE c.state # "kConnected"
  BY <1>1, HandledStays DEF Shutdown
<1>2. CASE c.state = "kConnected"
  <2> DEFINE d == [c EXCEPT !.state = "kDisconnecting"]
             s == ShutdownInLoop(d)
  <2>1. c \in HandlerType /\ Shutdown(c) = s
    BY <1>2 DEF Rec, Shutdown
  <2>2. d \in HandlerType
    BY <2>1 DEF HandlerType, States
  <2>3. /\ d.peer = c.peer /\ d.state = "kDisconnecting"
        /\ d.channel = c.channel
        /\ d.loop = c.loop /\ d.ups = c.ups /\ d.downs = c.downs
        /\ d.out = c.out /\ d.wire = c.wire /\ d.taken = c.taken
        /\ d.shut = c.shut /\ d.posts = c.posts
    BY <2>1 DEF HandlerType
  <2> HIDE DEF d
  <2>4. Numbered(d) /\ Registered(d) /\ PostsOnce(d)
    BY <1>2, <2>3 DEF Rec, Numbered, WriteFails, Registered, PostsOnce
  <2>5. Rec(d)
    BY <2>2, <2>4 DEF Rec
  <2> HIDE DEF s
  <2>6. /\ Rec(s) /\ s.loop = c.loop /\ s.ups = c.ups /\ s.downs = c.downs
        /\ s.state = "kDisconnecting" /\ s.channel = c.channel
        /\ s.out = c.out /\ s.wire = c.wire /\ s.taken = c.taken
        /\ s.peer = c.peer /\ s.posts = c.posts
        /\ s.shut = IF IsWriting(c.channel) THEN c.shut ELSE TRUE
    BY <2>3, <2>5, ShutdownInLoopHandled DEF s
  <2>7. ~IsWriting(c.channel) => c.out = <<>>
    BY <1>2 DEF Rec, Registered
  <2>8. ShutdownWaits(s)
    BY <2>6, <2>7 DEF ShutdownWaits
  <2>9. Kept(c) /\ s.shut => s.out = <<>> /\ (Len(s.wire) = s.taken \/ Broken(s))
    <3>1. ASSUME Kept(c), s.shut  PROVE ~IsWriting(c.channel) /\ ~c.shut
      BY <1>2, <2>6, <3>1 DEF Kept
    <3>2. ASSUME Kept(c), s.shut
          PROVE  s.out = <<>> /\ (Len(s.wire) = s.taken \/ Broken(s))
      <4>1. c.out = <<>> /\ Len(c.out) = 0
        BY <2>7, <3>1, <3>2
      <4>2. c.taken = Len(c.wire) + Len(c.out) \/ WriteFails(c)
        BY DEF Rec, Numbered
      <4>3. c.wire \in Seq(Nat) /\ c.taken \in Nat
        BY <2>1 DEF HandlerType
      <4>. QED BY <2>6, <3>1, <3>2, <4>1, <4>2, <4>3 DEF WriteFails, Broken
    <3>. QED BY <3>2
  <2>10. Kept(c) => Kept(s)
    BY <1>2, <2>6, <2>8, <2>9 DEF Kept
  <2>. QED BY <1>2, <2>1, <2>6, <2>8, <2>10 DEF Handled
<1>. QED BY <1>1, <1>2

\* connectEstablished: the connection is up and reads.
LEMMA EstablishedHandled ==
  ASSUME NEW c, Rec(c), c.state = "kConnecting", c.posts = <<>>
  PROVE  LET s == ConnectEstablished(c)
         IN  /\ Rec(s) /\ s.state = "kConnected" /\ s.posts = <<>>
             /\ s.loop = c.loop /\ s.ups = c.ups + 1
             /\ Kept(c) => Kept(s)
<1> DEFINE ch == EnableReading(c.channel)
           s == [c EXCEPT !.state = "kConnected", !.channel = ch, !.ups = @ + 1]
<1>1. c \in HandlerType /\ c.channel = NewChannel /\ c.out = <<>>
  BY DEF Rec, Registered
<1>2. /\ c.channel \in ChannelType /\ Consistent(c.channel)
      /\ c.channel.events = {}
  <2>1. Consistent(c.channel)
    BY DEF Rec, Registered
  <2>2. c.channel \in ChannelType
    BY <1>1 DEF HandlerType
  <2>3. NewChannel.events = {}
    BY DEF NewChannel
  <2>. QED BY <1>1, <2>1, <2>2, <2>3
<1>3. /\ ch \in ChannelType /\ Consistent(ch) /\ ch.events = {kReadEvent}
      /\ ch.index = "kAdded"
  BY <1>2, Switched
<1> HIDE DEF ch
<1>4. ConnectEstablished(c) = s
  BY <1>1 DEF ConnectEstablished, OnConnection, HandlerType, ch
<1>5. c.ups + 1 \in Nat /\ "kConnected" \in States
  BY <1>1 DEF HandlerType, States
<1>6. s \in HandlerType
  BY <1>1, <1>3, <1>5 DEF HandlerType
<1>7. /\ s.peer = c.peer /\ s.state = "kConnected" /\ s.channel = ch
      /\ s.loop = c.loop /\ s.ups = c.ups + 1 /\ s.downs = c.downs
      /\ s.out = c.out /\ s.wire = c.wire /\ s.taken = c.taken
      /\ s.shut = c.shut /\ s.posts = c.posts
  BY <1>1 DEF HandlerType
<1> HIDE DEF s
<1>8. ~IsWriting(c.channel) /\ ~IsWriting(s.channel)
  BY <1>2, <1>3, <1>7 DEF IsWriting, kReadEvent, kWriteEvent
<1>9. Numbered(s) /\ Registered(s) /\ PostsOnce(s)
  BY <1>1, <1>3, <1>7, <1>8
     DEF Rec, Numbered, WriteFails, Registered, PostsOnce
<1>10. Kept(c) => Kept(s)
  BY <1>1, <1>3, <1>7 DEF Kept, ShutdownWaits, Broken
<1>. QED BY <1>4, <1>6, <1>7, <1>9, <1>10 DEF Rec

\* connectDestroyed: the channel leaves the poller.
LEMMA DestroyedHandled ==
  ASSUME NEW c, Rec(c), c.state # "kConnecting"
  PROVE  /\ Handled(c, ConnectDestroyed(c))
         /\ ConnectDestroyed(c).channel.index = "kNew"
         /\ ConnectDestroyed(c).posts = c.posts
<1> DEFINE all == DisableAll(c.channel)
           ch == RemoveChannel(IF c.state = "kConnected" THEN all
                                                       ELSE c.channel)
           s == ConnectDestroyed(c)
<1>1. c \in HandlerType /\ c.channel \in ChannelType /\ Consistent(c.channel)
  BY DEF Rec, HandlerType, Registered
<1>2. all \in ChannelType /\ Consistent(all) /\ all.events = {}
  BY <1>1, Switched
<1>3. /\ ch \in ChannelType /\ Consistent(ch) /\ ch.index = "kNew"
      /\ ch.events = IF c.state = "kConnected" THEN {} ELSE c.channel.events
  BY <1>1, <1>2, Removed
<1>4. s = IF c.state = "kConnected"
          THEN [c EXCEPT !.state = "kDisconnected", !.channel = ch,
                         !.downs = @ + 1]
          ELSE [c EXCEPT !.channel = ch]
  BY <1>1 DEF ConnectDestroyed, OnConnection, HandlerType
<1> HIDE DEF s, ch
<1>5. c.downs + 1 \in Nat /\ "kDisconnected" \in States
  BY <1>1 DEF HandlerType, States
<1>6. s \in HandlerType
  BY <1>1, <1>3, <1>4, <1>5 DEF HandlerType
<1>7. /\ s.peer = c.peer /\ s.channel = ch /\ s.loop = c.loop
      /\ s.ups = c.ups /\ s.out = c.out /\ s.wire = c.wire
      /\ s.taken = c.taken /\ s.shut = c.shut /\ s.posts = c.posts
      /\ s.state = IF c.state = "kConnected" THEN "kDisconnected" ELSE c.state
      /\ s.downs = IF c.state = "kConnected" THEN c.downs + 1 ELSE c.downs
  BY <1>1, <1>4 DEF HandlerType
<1>8. IsWriting(s.channel) => IsWriting(c.channel)
  BY <1>3, <1>7 DEF IsWriting
<1>9. c.state # "kConnected" => (IsWriting(s.channel) <=> IsWriting(c.channel))
  BY <1>3, <1>7 DEF IsWriting
<1>10. Numbered(s)
  BY <1>7, <1>8 DEF Rec, Numbered, WriteFails
<1>11. s.state \in {"kDisconnecting", "kDisconnected"}
  BY <1>1, <1>7 DEF HandlerType, States
<1>12. Registered(s) /\ PostsOnce(s)
  BY <1>3, <1>7, <1>8, <1>11 DEF Rec, Registered, PostsOnce
<1>13. ShutdownWaits(c) => ShutdownWaits(s)
  BY <1>7, <1>9 DEF ShutdownWaits
<1>14. Kept(c) => Kept(s)
  BY <1>3, <1>7, <1>11, <1>13 DEF Kept, Broken
<1>. QED BY <1>3, <1>6, <1>7, <1>10, <1>11, <1>12, <1>13, <1>14
         DEF Handled, Rec, s

LEMMA PlusAssociates ==
  ASSUME NEW a \in Nat, NEW b \in Nat, NEW m \in Nat
  PROVE  a + b + m = a + (b + m)
OBVIOUS

\* Bytes that are numbered from k + 1 on.
From(k, data) == \A i \in 1..Len(data) : data[i] = k + i

LEMMA Joined ==
  ASSUME NEW k \in Nat, NEW a \in Seq(Nat), NEW b \in Seq(Nat),
         From(k, a), From(k + Len(a), b)
  PROVE  /\ a \o b \in Seq(Nat) /\ Len(a \o b) = Len(a) + Len(b)
         /\ From(k, a \o b)
<1>1. a \o b \in Seq(Nat) /\ Len(a \o b) = Len(a) + Len(b)
  OBVIOUS
<1>2. ASSUME NEW i \in 1..Len(a \o b)  PROVE (a \o b)[i] = k + i
  <2>1. Len(a) \in Nat /\ Len(b) \in Nat /\ i \in 1..(Len(a) + Len(b))
    BY <1>1
  <2>2. CASE i <= Len(a)
    <3>1. (a \o b)[i] = a[i] /\ i \in 1..Len(a)
      BY <2>1, <2>2
    <3>. QED BY <3>1 DEF From
  <2>3. CASE i > Len(a)
    <3>1. (a \o b)[i] = b[i - Len(a)] /\ i - Len(a) \in 1..Len(b)
      BY <2>1, <2>3
    <3>2. b[i - Len(a)] = k + Len(a) + (i - Len(a))
      BY <3>1 DEF From
    <3>. QED BY <2>1, <3>1, <3>2
  <2>. QED BY <2>1, <2>2, <2>3
<1>. QED BY <1>1, <1>2 DEF From

LEMMA Split ==
  ASSUME NEW k \in Nat, NEW a \in Seq(Nat), From(k, a), NEW n \in 0..Len(a)
  PROVE  /\ SubSeq(a, 1, n) \in Seq(Nat) /\ Len(SubSeq(a, 1, n)) = n
         /\ From(k, SubSeq(a, 1, n))
         /\ SubSeq(a, n + 1, Len(a)) \in Seq(Nat)
         /\ Len(SubSeq(a, n + 1, Len(a))) = Len(a) - n
         /\ From(k + n, SubSeq(a, n + 1, Len(a)))
<1>1. Len(a) \in Nat /\ n \in Nat /\ n <= Len(a)
  OBVIOUS
<1>2. SubSeq(a, 1, n) \in Seq(Nat) /\ Len(SubSeq(a, 1, n)) = n
  BY <1>1
<1>3. \A i \in 1..n : SubSeq(a, 1, n)[i] = a[i]
  BY <1>1
<1>4. /\ SubSeq(a, n + 1, Len(a)) \in Seq(Nat)
      /\ Len(SubSeq(a, n + 1, Len(a))) = Len(a) - n
  BY <1>1
<1>5. \A i \in 1..(Len(a) - n) : SubSeq(a, n + 1, Len(a))[i] = a[n + i]
  BY <1>1
<1>6. \A i \in 1..(Len(a) - n) : a[n + i] = k + n + i
  BY <1>1 DEF From
<1>. QED BY <1>1, <1>2, <1>3, <1>4, <1>5, <1>6 DEF From

\* What sendInLoop leaves: the bytes are with the kernel, or buffered, or lost
\* to a broken socket.
LEMMA SendInLoopHandled ==
  ASSUME NEW c, Rec(c), c.state # "kConnecting", c.posts = <<>>,
         NEW s \in SendInLoop(c)
  PROVE  /\ Rec(s) /\ s.loop = c.loop /\ s.ups = c.ups /\ s.state = c.state
         /\ ShutdownWaits(c) => ShutdownWaits(s)
         /\ ShutdownWaits(c) /\ c.channel.index = "kNew" =>
              s.channel.index = "kNew"
         /\ c.state = "kConnected" /\ Kept(c) => Kept(s)
         /\ s.posts # <<"removeConnection">>
<1> DEFINE data == [i \in 1..MsgLen |-> c.taken + i]
           t == [c EXCEPT !.taken = @ + MsgLen]
<1>1. /\ c \in HandlerType /\ c.channel \in ChannelType
      /\ Consistent(c.channel) /\ c.taken \in Nat /\ c.wire \in Seq(Nat)
      /\ c.out \in Seq(Nat) /\ MsgLen \in Nat /\ MsgLen > 0
      /\ Numbered(c) /\ Registered(c)
  BY MsgLenAssumption DEF Rec, HandlerType, Registered
<1>2. data \in Seq(Nat) /\ Len(data) = MsgLen /\ From(c.taken, data)
  <2>1. \A i \in 1..MsgLen : c.taken + i \in Nat
    BY <1>1
  <2>. QED BY <1>1, <2>1 DEF From
<1>3. /\ t \in HandlerType /\ t.taken = c.taken + MsgLen
      /\ t.peer = c.peer /\ t.state = c.state /\ t.channel = c.channel
      /\ t.loop = c.loop /\ t.ups = c.ups /\ t.downs = c.downs
      /\ t.out = c.out /\ t.wire = c.wire /\ t.shut = c.shut
      /\ t.posts = <<>>
  <2>1. c.taken + MsgLen \in Nat
    BY <1>1
  <2>. QED BY <1>1, <2>1 DEF HandlerType
<1>4. /\ c.state = "kDisconnected" => s = c
      /\ c.state # "kDisconnected" /\ ~Direct(c) => s = Buffered(t, data)
      /\ c.state # "kDisconnected" /\ Direct(c) /\ WriteFails(c) =>
           s = Failed(t)
      /\ c.state # "kDisconnected" /\ Direct(c) /\ ~WriteFails(c) =>
           \E n \in Accepts(c, MsgLen) :
             s = IF n = MsgLen THEN Post(Written(t, data, n), "writeComplete")
                 ELSE Buffered(Written(t, data, n),
                               SubSeq(data, n + 1, MsgLen))
  BY DEF SendInLoop
<1> HIDE DEF data, t
<1>5. CASE c.state = "kDisconnected"
  BY <1>4, <1>5
<1>6. CASE c.state # "kDisconnected" /\ ~Direct(c)
  <2> DEFINE ch == IF IsWriting(c.channel) THEN c.channel
                   ELSE EnableWriting(c.channel)
             r == [t EXCEPT !.out = c.out \o data, !.channel = ch]
  <2>1. /\ ch \in ChannelType /\ Consistent(ch)
        /\ ch.events = c.channel.events \cup {kWriteEvent}
        /\ ch.index = IF IsWriting(c.channel) THEN c.channel.index ELSE "kAdded"
    BY <1>1, Switched DEF IsWriting
  <2> HIDE DEF ch
  <2>2. s = r
    BY <1>3, <1>4, <1>6 DEF Buffered, HandlerType, ch
  <2>3. c.taken = Len(c.wire) + Len(c.out)
    BY <1>1, <1>6 DEF Numbered, Direct
  <2>4. /\ c.out \o data \in Seq(Nat)
        /\ Len(c.out \o data) = Len(c.out) + MsgLen
        /\ From(Len(c.wire), c.out \o data)
    <3>1. Len(c.wire) \in Nat
      BY <1>1
    <3>2. From(Len(c.wire), c.out)
      BY <1>1 DEF Numbered, From
    <3>. QED BY <1>1, <1>2, <2>3, <3>1, <3>2, Joined
  <2>5. r \in HandlerType
    BY <1>3, <2>1, <2>4 DEF HandlerType
  <2>6. /\ r.taken = c.taken + MsgLen /\ r.out = c.out \o data
        /\ r.channel = ch /\ r.peer = c.peer /\ r.state = c.state
        /\ r.loop = c.loop /\ r.ups = c.ups /\ r.downs = c.downs
        /\ r.wire = c.wire /\ r.shut = c.shut /\ r.posts = <<>>
    BY <1>3 DEF HandlerType
  <2> HIDE DEF r
  <2>7. IsWriting(r.channel) /\ r.out # <<>>
    <3>1. Len(r.out) # 0
      BY <1>1, <2>4, <2>6
    <3>. QED BY <2>1, <2>6, <3>1 DEF IsWriting
  <2>8. Numbered(r)
    <3>1. r.taken = Len(r.wire) + Len(r.out)
      <4>1. Len(c.wire) \in Nat /\ Len(c.out) \in Nat
        BY <1>1
      <4>2. /\ r.taken = c.taken + MsgLen /\ Len(r.wire) = Len(c.wire)
            /\ Len(r.out) = Len(c.out) + MsgLen
        BY <2>4, <2>6
      <4>3. MsgLen \in Nat
        BY <1>1
      <4>4. Len(c.wire) + Len(c.out) + MsgLen = Len(c.wire) + (Len(c.out) + MsgLen)
        BY <4>1, <4>3, PlusAssociates
      <4>. QED BY <2>3, <4>2, <4>4
    <3>2. /\ \A i \in 1..Len(r.wire) : r.wire[i] = i
          /\ \A i \in 1..Len(r.out) : r.out[i] = Len(r.wire) + i
      BY <1>1, <2>4, <2>6 DEF Numbered, From
    <3>. QED BY <3>1, <3>2 DEF Numbered
  <2>9. c.state = "kConnected" => IsWriting(c.channel)
    BY <1>1, <1>6 DEF Direct, Registered
  <2>10. Registered(r) /\ PostsOnce(r)
    <3>1. r.channel.index = "kAdded" => r.state \in {"kConnected", "kDisconnecting"}
      BY <1>1, <1>3, <1>5, <1>6, <2>6 DEF HandlerType, States
    <3>2. r.state = "kConnected" =>
            r.channel.index = "kAdded" /\ kReadEvent \in r.channel.events
      BY <1>1, <2>1, <2>6 DEF Registered
    <3>. QED BY <2>1, <2>6, <2>7, <3>1, <3>2 DEF Registered, PostsOnce
  <2>11. ShutdownWaits(r)
    BY <2>7 DEF ShutdownWaits
  <2>12. ShutdownWaits(c) /\ c.channel.index = "kNew" =>
           r.channel.index = "kNew"
    <3>1. c.channel.index = "kNew" => c.state = "kDisconnecting"
      BY <1>1, <1>6 DEF HandlerType, States, Registered
    <3>2. ShutdownWaits(c) /\ c.channel.index = "kNew" => IsWriting(c.channel)
      BY <1>6, <3>1 DEF ShutdownWaits, Direct, WriteFails
    <3>. QED BY <2>1, <2>6, <3>2
  <2>13. c.state = "kConnected" /\ Kept(c) => Kept(r)
    BY <1>1, <2>1, <2>6, <2>7, <2>9, <2>11 DEF Kept, Registered, IsWriting
  <2>. QED BY <2>2, <2>5, <2>6, <2>8, <2>10, <2>11, <2>12, <2>13 DEF Rec
<1>7. CASE c.state # "kDisconnected" /\ Direct(c) /\ WriteFails(c)
  <2>1. Rec(t)
    <3>1. Numbered(t)
      BY <1>1, <1>3, <1>7 DEF Numbered, WriteFails, Direct
    <3>. QED BY <1>1, <1>3, <3>1 DEF Rec, Registered, PostsOnce
  <2>2. Handled(t, s)
    BY <1>3, <1>4, <1>7, <2>1, PeerHandled
  <2>3. s.state = t.state /\ s.channel = t.channel /\ s.posts = t.posts
    BY <1>3, <1>4, <1>7 DEF Failed, HandlerType
  <2>4. ShutdownWaits(c) => ShutdownWaits(t)
    BY <1>3 DEF ShutdownWaits
  <2>5. c.state = "kConnected" /\ Kept(c) => Kept(t)
    BY <1>3, <2>4 DEF Kept, Broken
  <2>. QED BY <1>3, <2>2, <2>3, <2>4, <2>5 DEF Handled
<1>8. CASE c.state # "kDisconnected" /\ Direct(c) /\ ~WriteFails(c)
  <2>1. PICK n \in Accepts(c, MsgLen) :
          s = IF n = MsgLen THEN Post(Written(t, data, n), "writeComplete")
              ELSE Buffered(Written(t, data, n), SubSeq(data, n + 1, MsgLen))
    BY <1>4, <1>8
  <2>2. n \in 0..MsgLen
    BY <1>1 DEF Accepts
  <2> DEFINE wire == c.wire \o SubSeq(data, 1, n)
             rest == SubSeq(data, n + 1, MsgLen)
             w == [t EXCEPT !.wire = wire, !.full = n < MsgLen]
  <2>3. c.out = <<>> /\ ~IsWriting(c.channel) /\ c.taken = Len(c.wire)
    <3>1. c.out = <<>> /\ ~IsWriting(c.channel) /\ Len(c.out) = 0
      BY <1>8 DEF Direct
    <3>2. c.taken = Len(c.wire) + Len(c.out)
      BY <1>1, <1>8 DEF Numbered
    <3>3. Len(c.wire) \in Nat
      BY <1>1
    <3>. QED BY <3>1, <3>2, <3>3
  <2>4. /\ SubSeq(data, 1, n) \in Seq(Nat) /\ Len(SubSeq(data, 1, n)) = n
        /\ From(c.taken, SubSeq(data, 1, n))
        /\ rest \in Seq(Nat) /\ Len(rest) = MsgLen - n
        /\ From(c.taken + n, rest)
    <3>1. /\ c.taken \in Nat /\ data \in Seq(Nat) /\ From(c.taken, data)
          /\ n \in 0..Len(data) /\ Len(data) = MsgLen
      BY <1>1, <1>2, <2>2
    <3> HIDE DEF data
    <3>. QED BY <3>1, Split
  <2>5. /\ wire \in Seq(Nat) /\ Len(wire) = Len(c.wire) + n
        /\ From(0, wire)
    <3>1. From(0, c.wire) /\ Len(c.wire) \in Nat /\ 0 + Len(c.wire) = Len(c.wire)
      BY <1>1 DEF Numbered, From
    <3>2. From(0 + Len(c.wire), SubSeq(data, 1, n))
      BY <2>3, <2>4, <3>1
    <3>3. /\ wire \in Seq(Nat) /\ Len(wire) = Len(c.wire) + Len(SubSeq(data, 1, n))
          /\ From(0, wire)
      BY <1>1, <2>4, <3>1, <3>2, Joined
    <3>. QED BY <2>4, <3>3
  <2>6. Written(t, data, n) = w
    BY <1>2, <1>3 DEF Written
  <2> HIDE DEF wire, rest
  <2>7. /\ w \in HandlerType /\ w.taken = c.taken + MsgLen /\ w.out = <<>>
        /\ w.channel = c.channel /\ w.peer = c.peer /\ w.state = c.state
        /\ w.loop = c.loop /\ w.ups = c.ups /\ w.downs = c.downs
        /\ w.wire = wire /\ w.shut = c.shut /\ w.posts = <<>>
    <3>1. (n < MsgLen) \in BOOLEAN
      OBVIOUS
    <3>2. w \in HandlerType
      BY <1>3, <2>5, <3>1 DEF HandlerType
    <3>. QED BY <1>3, <2>3, <3>2 DEF HandlerType
  <2> HIDE DEF w
  <2>8. \A i \in 1..Len(wire) : wire[i] = i
    BY <2>5 DEF From
  <2>9. c.state \in {"kConnected", "kDisconnecting"}
    BY <1>1, <1>8 DEF HandlerType, States
  <2>10. ~ShutdownWaits(c) \/ c.state = "kConnected"
    BY <1>8, <2>3, <2>9 DEF ShutdownWaits, WriteFails
  <2>11. CASE n = MsgLen
    <3> DEFINE r == [w EXCEPT !.posts = <<"writeComplete">>]
    <3>1. s = r
      <4>1. Append(<<>>, "writeComplete") = <<"writeComplete">>
        OBVIOUS
      <4>2. s = Post(w, "writeComplete")
        BY <2>1, <2>6, <2>11
      <4>. QED BY <2>7, <4>1, <4>2 DEF Post, HandlerType
    <3>2. r \in HandlerType
      <4>1. <<"writeComplete">> \in Posts
        BY DEF Posts
      <4>. QED BY <2>7, <4>1 DEF HandlerType
    <3>3. /\ r.taken = c.taken + MsgLen /\ r.out = <<>>
          /\ r.channel = c.channel /\ r.peer = c.peer /\ r.state = c.state
          /\ r.loop = c.loop /\ r.ups = c.ups /\ r.downs = c.downs
          /\ r.wire = wire /\ r.shut = c.shut /\ r.posts = <<"writeComplete">>
      BY <2>7 DEF HandlerType
    <3> HIDE DEF r
    <3>4. Numbered(r)
      <4>1. r.taken = Len(r.wire) + Len(r.out)
        BY <1>1, <2>3, <2>5, <2>11, <3>3
      <4>2. \A i \in 1..Len(r.out) : r.out[i] = Len(r.wire) + i
        BY <3>3
      <4>. QED BY <2>8, <3>3, <4>1, <4>2 DEF Numbered
    <3>5. Registered(r) /\ PostsOnce(r)
      BY <1>1, <2>3, <3>3 DEF Registered, PostsOnce
    <3>6. Kept(c) /\ c.state = "kConnected" => Kept(r)
      BY <2>3, <3>3 DEF Kept, ShutdownWaits
    <3>7. c.state = "kConnected" => c.channel.index # "kNew"
      BY <1>1 DEF Registered
    <3>. QED BY <2>10, <3>1, <3>2, <3>3, <3>4, <3>5, <3>6, <3>7
             DEF Rec, ShutdownWaits
  <2>12. CASE n # MsgLen
    <3> DEFINE ch == EnableWriting(c.channel)
               r == [w EXCEPT !.out = rest, !.channel = ch]
    <3>1. /\ ch \in ChannelType /\ Consistent(ch) /\ ch.index = "kAdded"
          /\ ch.events = c.channel.events \cup {kWriteEvent}
      BY <1>1, Switched
    <3> HIDE DEF ch
    <3>2. s = r
      <4>1. <<>> \o rest = rest
        BY <2>4
      <4>2. s = Buffered(w, rest)
        BY <2>1, <2>6, <2>12 DEF rest
      <4>. QED BY <2>3, <2>7, <4>1, <4>2 DEF Buffered, HandlerType, ch
    <3>3. r \in HandlerType
      BY <2>4, <2>7, <3>1 DEF HandlerType
    <3>4. /\ r.taken = c.taken + MsgLen /\ r.out = rest
          /\ r.channel = ch /\ r.peer = c.peer /\ r.state = c.state
          /\ r.loop = c.loop /\ r.ups = c.ups /\ r.downs = c.downs
          /\ r.wire = wire /\ r.shut = c.shut /\ r.posts = <<>>
      BY <2>7 DEF HandlerType
    <3> HIDE DEF r
    <3>5. rest # <<>>
      <4>1. Len(rest) # 0
        BY <1>1, <2>2, <2>4, <2>12
      <4>. QED BY <4>1
    <3>6. Numbered(r)
      <4>1. r.taken = Len(r.wire) + Len(r.out)
        <5>1. Len(c.wire) \in Nat
          BY <1>1
        <5>2. /\ r.taken = c.taken + MsgLen /\ Len(r.wire) = Len(c.wire) + n
              /\ Len(r.out) = MsgLen - n
          BY <2>4, <2>5, <3>4
        <5>3. MsgLen \in Nat /\ n \in Nat
          BY <1>1, <2>2
        <5>. QED BY <2>3, <5>1, <5>2, <5>3
      <4>2. \A i \in 1..Len(r.out) : r.out[i] = Len(r.wire) + i
        BY <2>3, <2>4, <2>5, <3>4 DEF From
      <4>. QED BY <2>8, <3>4, <4>1, <4>2 DEF Numbered
    <3>7. IsWriting(r.channel)
      BY <3>1, <3>4 DEF IsWriting
    <3>8. Registered(r) /\ PostsOnce(r)
      BY <1>1, <2>9, <3>1, <3>4, <3>7 DEF Registered, PostsOnce
    <3>9. Kept(c) /\ c.state = "kConnected" => Kept(r)
      BY <1>1, <2>3, <3>1, <3>4, <3>5 DEF Kept, ShutdownWaits, Registered
    <3>10. c.state = "kConnected" => c.channel.index # "kNew"
      BY <1>1 DEF Registered
    <3>. QED BY <2>10, <3>2, <3>3, <3>4, <3>6, <3>7, <3>8, <3>9, <3>10
             DEF Rec, ShutdownWaits
  <2>. QED BY <2>11, <2>12
<1>. QED BY <1>5, <1>6, <1>7, <1>8

\* A channel that asks for EPOLLOUT is with the poller.
Armed(c) == IsWriting(c.channel) => c.channel.index = "kAdded"

\* The functors have been queued, the requests have been read, more have come:
\* the counts that no handler looks back at.
LEMMA CountsHandled ==
  ASSUME NEW c, Rec(c), c.state # "kConnecting", NEW n \in Nat
  PROVE  /\ Handled(c, [c EXCEPT !.unread = n])
         /\ Handled(c, [c EXCEPT !.posts = <<>>])
<1>1. c \in HandlerType /\ <<>> \in Posts
  BY DEF Rec, Posts
<1>2. ASSUME NEW s \in {[c EXCEPT !.unread = n], [c EXCEPT !.posts = <<>>]}
      PROVE  Handled(c, s)
  <2>1. s \in HandlerType
    BY <1>1, <1>2 DEF HandlerType
  <2>2. /\ s.peer = c.peer /\ s.state = c.state /\ s.channel = c.channel
        /\ s.loop = c.loop /\ s.ups = c.ups /\ s.downs = c.downs
        /\ s.out = c.out /\ s.wire = c.wire /\ s.taken = c.taken
        /\ s.shut = c.shut /\ (s.posts = c.posts \/ s.posts = <<>>)
    BY <1>1, <1>2 DEF HandlerType
  <2>3. Numbered(s) /\ Registered(s) /\ PostsOnce(s)
    BY <2>2 DEF Rec, Numbered, WriteFails, Registered, PostsOnce
  <2>4. Kept(c) => Kept(s)
    BY <2>2 DEF Kept, ShutdownWaits, Broken
  <2>. QED BY <2>1, <2>2, <2>3, <2>4 DEF Handled, Rec, ShutdownWaits
<1>. QED BY <1>2

LEMMA SendHandled ==
  ASSUME NEW c, Rec(c), c.state # "kConnecting", c.posts = <<>>, Armed(c),
         NEW s \in Send(c)
  PROVE  Handled(c, s) /\ Armed(s)
<1>1. CASE c.state = "kConnected"
  <2>1. s \in SendInLoop(c)
    BY <1>1 DEF Send
  <2>2. /\ Rec(s) /\ s.loop = c.loop /\ s.ups = c.ups /\ s.state = c.state
        /\ ShutdownWaits(c) => ShutdownWaits(s)
        /\ Kept(c) => Kept(s)
    BY <1>1, <2>1, SendInLoopHandled
  <2>. QED BY <1>1, <2>2 DEF Handled, Armed, Rec, Registered
<1>2. CASE c.state # "kConnected"
  BY <1>2, HandledStays DEF Send
<1>. QED BY <1>1, <1>2

\* The response; or an error response, a shutdown and the response.
LEMMA OnMessageHandled ==
  ASSUME NEW c, Rec(c), c.state # "kConnecting", c.posts = <<>>, Armed(c),
         NEW s \in OnMessage(c)
  PROVE  Handled(c, s) /\ Armed(s)
<1>1. CASE s \in Send(c)
  BY <1>1, SendHandled
<1>2. ASSUME NEW t \in Send(c), s \in Send(Shutdown(t))
      PROVE  Handled(c, s) /\ Armed(s)
  <2>1. Handled(c, t) /\ Armed(t)
    BY SendHandled
  <2>2. Rec(t) /\ t.state # "kConnecting"
    BY <2>1 DEF Handled
  <2>3. /\ Handled(t, Shutdown(t)) /\ Shutdown(t).state # "kConnected"
        /\ Shutdown(t).channel = t.channel
    BY <2>2, ShutdownHandled
  <2>4. s = Shutdown(t)
    BY <1>2, <2>3 DEF Send
  <2>. QED BY <2>1, <2>3, <2>4, HandledThenHandled DEF Armed
<1>. QED BY <1>1, <1>2 DEF OnMessage

LEMMA ReadHandled ==
  ASSUME NEW c, Rec(c), c.posts = <<>>, c.channel.index = "kAdded",
         NEW s \in HandleRead(c)
  PROVE  Handled(c, s) /\ Armed(s)
<1>1. c \in HandlerType /\ c.state # "kConnecting" /\ c.unread \in Nat
  BY DEF Rec, Registered, HandlerType
<1>2. CASE c.unread > 0
  <2> DEFINE d == [c EXCEPT !.unread = 0]
  <2>1. s \in OnMessage(d)
    BY <1>2 DEF HandleRead
  <2>2. Handled(c, d)
    BY <1>1, CountsHandled
  <2>3. d.posts = <<>> /\ d.channel = c.channel
    BY <1>1 DEF HandlerType
  <2> HIDE DEF d
  <2>4. Rec(d) /\ d.state # "kConnecting" /\ Armed(d)
    BY <2>2, <2>3 DEF Handled, Armed
  <2>5. Handled(d, s) /\ Armed(s)
    BY <2>1, <2>3, <2>4, OnMessageHandled
  <2>. QED BY <2>2, <2>5, HandledThenHandled
<1>3. CASE c.unread = 0 /\ c.peer \in {"closed", "gone"}
  <2>1. s = HandleClose(c)
    BY <1>3 DEF HandleRead
  <2>. QED BY <2>1, CloseHandled DEF Armed
<1>4. CASE c.unread = 0 /\ c.peer \notin {"closed", "gone"}
  <2>1. s = HandleError(c)
    BY <1>4 DEF HandleRead
  <2>. QED BY <1>1, <2>1, PeerHandled DEF Armed
<1>. QED BY <1>1, <1>2, <1>3, <1>4

\* The write that handleWrite makes, with room for n bytes, on a socket that
\* is not broken.
Wrote(c, n) ==
  [Written(c, c.out, n) EXCEPT !.out = SubSeq(@, n + 1, Len(@))]

LEMMA WroteFacts ==
  ASSUME NEW c, Rec(c), ~WriteFails(c), IsWriting(c.channel),
         c.channel.index = "kAdded", NEW n \in Accepts(c, Len(c.out))
  PROVE  LET w == Wrote(c, n)
         IN  /\ Rec(w) /\ w.taken = Len(w.wire) + Len(w.out)
             /\ w.peer = c.peer /\ w.state = c.state /\ w.channel = c.channel
             /\ w.loop = c.loop /\ w.ups = c.ups /\ w.downs = c.downs
             /\ w.shut = c.shut /\ w.taken = c.taken /\ w.posts = <<>>
             /\ n = 0 => (w.out = <<>> <=> c.out = <<>>)
             /\ n # 0 => c.out # <<>>
<1>1. /\ c \in HandlerType /\ Numbered(c) /\ Registered(c) /\ c.posts = <<>>
      /\ c.out \in Seq(Nat) /\ c.wire \in Seq(Nat)
      /\ Len(c.out) \in Nat /\ Len(c.wire) \in Nat
  BY DEF Rec, PostsOnce, HandlerType
<1>2. n \in 0..Len(c.out)
  BY <1>1 DEF Accepts
<1>3. c.taken = Len(c.wire) + Len(c.out)
  BY <1>1 DEF Numbered
<1> DEFINE sent == SubSeq(c.out, 1, n)
           rest == SubSeq(c.out, n + 1, Len(c.out))
           wire == c.wire \o sent
           w == [c EXCEPT !.wire = wire, !.full = n < Len(c.out), !.out = rest]
<1>4. From(Len(c.wire), c.out) /\ From(0, c.wire)
  BY <1>1 DEF Numbered, From
<1>5. /\ sent \in Seq(Nat) /\ Len(sent) = n /\ From(Len(c.wire), sent)
      /\ rest \in Seq(Nat) /\ Len(rest) = Len(c.out) - n
      /\ From(Len(c.wire) + n, rest)
  <2> DEFINE k == Len(c.wire)
             a == c.out
  <2>1. k \in Nat /\ a \in Seq(Nat) /\ From(k, a) /\ n \in 0..Len(a)
    BY <1>1, <1>2, <1>4
  <2> HIDE DEF k, a
  <2>2. /\ SubSeq(a, 1, n) \in Seq(Nat) /\ Len(SubSeq(a, 1, n)) = n
        /\ From(k, SubSeq(a, 1, n))
        /\ SubSeq(a, n + 1, Len(a)) \in Seq(Nat)
        /\ Len(SubSeq(a, n + 1, Len(a))) = Len(a) - n
        /\ From(k + n, SubSeq(a, n + 1, Len(a)))
    BY <2>1, Split
  <2>. QED BY <2>2 DEF k, a
<1>6. wire \in Seq(Nat) /\ Len(wire) = Len(c.wire) + n /\ From(0, wire)
  <2>1. 0 + Len(c.wire) = Len(c.wire)
    BY <1>1
  <2>2. From(0 + Len(c.wire), sent)
    BY <1>5, <2>1
  <2>3. /\ wire \in Seq(Nat) /\ Len(wire) = Len(c.wire) + Len(sent)
        /\ From(0, wire)
    BY <1>1, <1>4, <1>5, <2>2, Joined
  <2>. QED BY <1>5, <2>3
<1> HIDE DEF wire, sent
<1>7. Wrote(c, n) = w
  BY <1>1 DEF Wrote, Written, HandlerType, wire, sent
<1>8. n = 0 => (rest = <<>> <=> c.out = <<>>)
  <2>1. n = 0 => Len(rest) = Len(c.out)
    BY <1>1, <1>5
  <2>. QED BY <1>1, <1>5, <2>1
<1> HIDE DEF rest
<1>9. w \in HandlerType
  <2>1. (n < Len(c.out)) \in BOOLEAN
    OBVIOUS
  <2>. QED BY <1>1, <1>5, <1>6, <2>1 DEF HandlerType
<1>10. /\ w.peer = c.peer /\ w.state = c.state /\ w.channel = c.channel
       /\ w.loop = c.loop /\ w.ups = c.ups /\ w.downs = c.downs
       /\ w.shut = c.shut /\ w.taken = c.taken /\ w.posts = <<>>
       /\ w.wire = wire /\ w.out = rest
  BY <1>1 DEF HandlerType
<1> HIDE DEF w
<1>11. w.taken = Len(w.wire) + Len(w.out)
  <2>1. /\ Len(w.wire) = Len(c.wire) + n /\ Len(w.out) = Len(c.out) - n
        /\ w.taken = Len(c.wire) + Len(c.out)
    BY <1>3, <1>5, <1>6, <1>10
  <2>2. \A a, b \in Nat : \A k \in 0..b : a + b = a + k + (b - k)
    OBVIOUS
  <2>3. Len(c.wire) + Len(c.out) = Len(c.wire) + n + (Len(c.out) - n)
    BY <1>1, <1>2, <2>2
  <2>. QED BY <2>1, <2>3
<1>12. Numbered(w)
  <2>1. \A i \in 1..Len(w.wire) : w.wire[i] = i
    BY <1>6, <1>10 DEF From
  <2>2. \A i \in 1..Len(w.out) : w.out[i] = Len(w.wire) + i
    BY <1>5, <1>6, <1>10 DEF From
  <2>. QED BY <1>11, <2>1, <2>2 DEF Numbered
<1>13. Registered(w) /\ PostsOnce(w)
  BY <1>1, <1>10 DEF Registered, PostsOnce
<1>14. n # 0 => c.out # <<>>
  BY <1>2
<1>. QED BY <1>7, <1>8, <1>9, <1>10, <1>11, <1>12, <1>13, <1>14 DEF Rec

\* The write that empties the output buffer.
LEMMA FlushedHandled ==
  ASSUME NEW c, Rec(c), ~WriteFails(c), IsWriting(c.channel),
         c.channel.index = "kAdded", NEW n \in Accepts(c, Len(c.out)),
         n # 0, Wrote(c, n).out = <<>>
  PROVE  Handled(c, Flushed(Wrote(c, n)))
<1> DEFINE w == Wrote(c, n)
           ch == DisableWriting(w.channel)
           d == [w EXCEPT !.channel = ch, !.posts = <<"writeComplete">>]
           s == Flushed(w)
<1>1. /\ Rec(w) /\ w.taken = Len(w.wire) + Len(w.out)
      /\ w.peer = c.peer /\ w.state = c.state /\ w.channel = c.channel
      /\ w.loop = c.loop /\ w.ups = c.ups /\ w.downs = c.downs
      /\ w.shut = c.shut /\ w.taken = c.taken /\ w.posts = <<>>
      /\ c.out # <<>> /\ w.out = <<>>
  BY WroteFacts
<1> HIDE DEF w
<1>2. /\ w \in HandlerType /\ w.channel \in ChannelType
      /\ Consistent(w.channel) /\ Numbered(w) /\ Registered(w)
      /\ w.wire \in Seq(Nat)
  BY <1>1 DEF Rec, HandlerType, Registered
<1>3. w.state \in {"kConnected", "kDisconnecting"}
  BY <1>1, <1>2 DEF Registered
<1>4. /\ ch \in ChannelType /\ Consistent(ch)
      /\ ch.events = w.channel.events \ {kWriteEvent}
      /\ ch.index = IF w.channel.events \subseteq {kWriteEvent}
                    THEN "kDeleted" ELSE "kAdded"
  BY <1>1, <1>2, Switched
<1>5. /\ kReadEvent # kWriteEvent
      /\ kReadEvent \in w.channel.events => ch.index = "kAdded"
  BY <1>4 DEF kReadEvent, kWriteEvent
<1> HIDE DEF ch
<1>6. d \in HandlerType
  <2>1. <<"writeComplete">> \in Posts
    BY DEF Posts
  <2>. QED BY <1>2, <1>4, <2>1 DEF HandlerType
<1>7. /\ d.peer = c.peer /\ d.state = c.state /\ d.channel = ch
      /\ d.loop = c.loop /\ d.ups = c.ups /\ d.downs = c.downs
      /\ d.shut = c.shut /\ d.taken = w.taken /\ d.wire = w.wire
      /\ d.out = <<>> /\ d.posts = <<"writeComplete">>
  BY <1>1, <1>2 DEF HandlerType
<1>8. s = IF d.state = "kDisconnecting" THEN ShutdownInLoop(d) ELSE d
  <2>1. Append(<<>>, "writeComplete") = <<"writeComplete">>
    OBVIOUS
  <2>2. Post([w EXCEPT !.channel = DisableWriting(@)], "writeComplete") = d
    BY <1>1, <1>2, <2>1 DEF Post, HandlerType, ch
  <2>. QED BY <2>2 DEF Flushed
<1> HIDE DEF d, s
<1>9. ~IsWriting(d.channel)
  BY <1>4, <1>7 DEF IsWriting
<1>10. d.taken = Len(d.wire)
  <2>1. Len(w.out) = 0 /\ Len(w.wire) \in Nat
    BY <1>1, <1>2
  <2>. QED BY <1>1, <1>7, <2>1
<1>11. Rec(d)
  <2>1. Numbered(d)
    <3>1. d.taken = Len(d.wire) + Len(d.out)
      <4>1. Len(d.out) = 0 /\ Len(d.wire) \in Nat
        BY <1>2, <1>7
      <4>. QED BY <1>10, <4>1
    <3>2. \A i \in 1..Len(d.out) : d.out[i] = Len(d.wire) + i
      BY <1>7
    <3>. QED BY <1>2, <1>7, <3>1, <3>2 DEF Numbered
  <2>2. Registered(d) /\ PostsOnce(d)
    BY <1>1, <1>2, <1>3, <1>4, <1>5, <1>7, <1>9 DEF Registered, PostsOnce
  <2>. QED BY <1>6, <2>1, <2>2 DEF Rec
<1>12. Kept(c) => /\ ~c.shut /\ d.channel.events = {kReadEvent}
                  /\ d.channel.index = "kAdded"
                  /\ c.downs = 0 /\ c.ups = 1
  BY <1>1, <1>3, <1>4, <1>5, <1>7 DEF Kept
<1>13. CASE c.state = "kDisconnecting"
  <2>1. /\ Rec(s) /\ s.loop = d.loop /\ s.ups = d.ups /\ s.downs = d.downs
        /\ s.state = d.state /\ s.channel = d.channel /\ s.out = d.out
        /\ s.wire = d.wire /\ s.taken = d.taken /\ s.shut = TRUE
    BY <1>1, <1>3, <1>7, <1>8, <1>9, <1>11, <1>13, ShutdownInLoopHandled
  <2>2. Kept(c) => Kept(s)
    BY <1>7, <1>10, <1>12, <1>13, <2>1 DEF Kept, ShutdownWaits
  <2>. QED BY <1>7, <1>13, <2>1, <2>2 DEF Handled, ShutdownWaits, s, w
<1>14. CASE c.state = "kConnected"
  <2>1. s = d
    BY <1>7, <1>8, <1>14
  <2>2. Kept(c) => Kept(d)
    BY <1>7, <1>10, <1>12, <1>14 DEF Kept, ShutdownWaits
  <2>. QED BY <1>7, <1>11, <1>14, <2>1, <2>2
           DEF Handled, ShutdownWaits, s, w
<1>. QED BY <1>1, <1>3, <1>13, <1>14 DEF s, w

LEMMA WriteHandled ==
  ASSUME NEW c, Rec(c), c.state # "kConnecting", Armed(c),
         NEW s \in HandleWrite(c)
  PROVE  Handled(c, s)
<1>1. CASE ~IsWriting(c.channel)
  <2>1. s = c
    BY <1>1 DEF HandleWrite
  <2>. QED BY <2>1, HandledStays
<1>2. CASE IsWriting(c.channel) /\ WriteFails(c)
  <2>1. s = Failed(c)
    BY <1>2 DEF HandleWrite
  <2>. QED BY <2>1, PeerHandled
<1>3. CASE IsWriting(c.channel) /\ ~WriteFails(c)
  <2>1. PICK n \in Accepts(c, Len(c.out)) :
          s = IF n > 0 /\ Wrote(c, n).out = <<>> THEN Flushed(Wrote(c, n))
                                                 ELSE Wrote(c, n)
    BY <1>3 DEF HandleWrite, Wrote
  <2>2. c.channel.index = "kAdded" /\ c.out \in Seq(Nat)
    BY <1>3 DEF Armed, Rec, HandlerType
  <2>3. n \in Nat
    BY <2>2 DEF Accepts
  <2>4. CASE n > 0 /\ Wrote(c, n).out = <<>>
    BY <1>3, <2>1, <2>2, <2>3, <2>4, FlushedHandled
  <2>5. CASE ~(n > 0 /\ Wrote(c, n).out = <<>>)
    <3> DEFINE w == Wrote(c, n)
    <3>1. /\ Rec(w) /\ w.taken = Len(w.wire) + Len(w.out)
          /\ w.peer = c.peer /\ w.state = c.state /\ w.channel = c.channel
          /\ w.loop = c.loop /\ w.ups = c.ups /\ w.downs = c.downs
          /\ w.shut = c.shut /\ w.taken = c.taken /\ w.posts = <<>>
          /\ n = 0 => (w.out = <<>> <=> c.out = <<>>)
          /\ n # 0 => c.out # <<>>
      BY <1>3, <2>2, WroteFacts
    <3>2. s = w
      BY <2>1, <2>5
    <3> HIDE DEF w
    <3>3. w.out = <<>> <=> c.out = <<>>
      BY <2>3, <2>5, <3>1 DEF w
    <3>4. Kept(c) => ~c.shut
      BY <1>3 DEF Kept, WriteFails
    <3>5. Kept(c) => Kept(w)
      BY <1>3, <3>1, <3>3, <3>4 DEF Kept, ShutdownWaits
    <3>6. ShutdownWaits(w)
      BY <1>3, <3>1 DEF ShutdownWaits
    <3>. QED BY <3>1, <3>2, <3>5, <3>6 DEF Handled
  <2>. QED BY <2>4, <2>5
<1>. QED BY <1>1, <1>2, <1>3

\* The handlers of one channel, for the events that were reported.
LEMMA EventHandled ==
  ASSUME NEW c, Rec(c), c.posts = <<>>, c.channel.index = "kAdded",
         NEW r, NEW s \in HandleEvent(c, r)
  PROVE  Handled(c, s)
<1> DEFINE hup == "HUP" \in r /\ "IN" \notin r
           closed == IF hup THEN HandleClose(c) ELSE c
           errored == IF "ERR" \in r THEN HandleError(closed) ELSE closed
           read == IF "IN" \in r THEN HandleRead(errored) ELSE {errored}
<1>1. c.state # "kConnecting"
  BY DEF Rec, Registered
<1>2. /\ Handled(c, closed) /\ Armed(closed)
      /\ "IN" \in r => closed = c
  BY <1>1, CloseHandled, HandledStays DEF Armed
<1> HIDE DEF closed
<1>3. /\ Handled(c, errored) /\ Armed(errored)
      /\ "IN" \in r => errored.posts = <<>> /\ errored.channel.index = "kAdded"
  <2>1. Rec(closed) /\ closed.state # "kConnecting"
    BY <1>2 DEF Handled
  <2>2. /\ Handled(closed, HandleError(closed))
        /\ HandleError(closed).channel = closed.channel
        /\ HandleError(closed).posts = closed.posts
    BY <2>1, PeerHandled
  <2>3. Handled(c, HandleError(closed))
    BY <1>2, <2>2, HandledThenHandled
  <2>. QED BY <1>2, <2>2, <2>3 DEF Armed
<1> HIDE DEF errored
<1>4. \A t \in read : Handled(c, t) /\ Armed(t)
  <2>1. Rec(errored)
    BY <1>3 DEF Handled
  <2>2. ASSUME "IN" \in r, NEW t \in HandleRead(errored)
        PROVE  Handled(c, t) /\ Armed(t)
    <3>1. Handled(errored, t) /\ Armed(t)
      BY <1>3, <2>1, <2>2, ReadHandled
    <3>. QED BY <1>3, <3>1, HandledThenHandled
  <2>. QED BY <1>3, <2>2
<1> HIDE DEF read
<1>5. HandleEvent(c, r) =
        IF "OUT" \in r THEN UNION { HandleWrite(t) : t \in read } ELSE read
  BY DEF HandleEvent, read, errored, closed
<1>6. ASSUME NEW t \in read, s \in HandleWrite(t)
      PROVE  Handled(c, s)
  <2>1. Handled(c, t) /\ Armed(t) /\ Rec(t) /\ t.state # "kConnecting"
    BY <1>4 DEF Handled
  <2>2. Handled(t, s)
    BY <1>6, <2>1, WriteHandled
  <2>. QED BY <2>1, <2>2, HandledThenHandled
<1>. QED BY <1>4, <1>5, <1>6

------------------------------------------------------------------------------
\* Lemmas about the queues.

\* The functor that a handler has queued: writeComplete on its own loop,
\* removeConnection on the base loop, which on the base loop is done in place
\* and leaves connectDestroyed.
Posted(q, c, s, op) ==
  LET l == IF op = "removeConnection" THEN Base ELSE s.loop
      f == IF op = "removeConnection" /\ s.loop = Base
           THEN "connectDestroyed" ELSE op
  IN  [q EXCEPT ![l] = Append(@, Functor(f, c))]

LEMMA EnqueuedNone ==
  ASSUME NEW q, NEW c, NEW s, s.posts = <<>>
  PROVE  Enqueued(q, c, s) = q
<1>1. DOMAIN s.posts = {}
  OBVIOUS
<1> DEFINE step(r, op) ==
             LET l == IF op = "removeConnection" THEN Base ELSE s.loop
                 f == IF op = "removeConnection" /\ s.loop = Base
                      THEN "connectDestroyed" ELSE op
             IN  [r EXCEPT ![l] = Append(@, Functor(f, c))]
<1>. QED BY <1>1 DEF Enqueued, FoldLeft, MapThenFoldSet

\* FoldLeft over one functor is one step.
LEMMA EnqueuedOne ==
  ASSUME NEW q, NEW c, NEW s, NEW op, s.posts = <<op>>
  PROVE  Enqueued(q, c, s) = Posted(q, c, s, op)
<1>1. DOMAIN s.posts = {1} /\ s.posts[1] = op
  OBVIOUS
<1> DEFINE P(g) == g = [t \in SUBSET {1} |->
                          IF t = {} THEN q
                          ELSE Posted(g[t \ {Max(t)}], c, s, s.posts[Max(t)])]
           h == [t \in SUBSET {1} |-> IF t = {} THEN q ELSE Posted(q, c, s, op)]
<1>2. Enqueued(q, c, s) = (CHOOSE g : P(g))[{1}]
  BY <1>1 DEF Enqueued, FoldLeft, MapThenFoldSet, Posted
<1>3. Max({1}) = 1
  BY DEF Max
<1>4. \A t \in SUBSET {1} : t # {} => t = {1} /\ t \ {Max(t)} = {}
  <2>1. \A t \in SUBSET {1} : t # {} => t = {1}
    OBVIOUS
  <2>. QED BY <2>1, <1>3
<1>5. P(h)
  <2>1. \A t \in SUBSET {1} :
          h[t] = IF t = {} THEN q
                 ELSE Posted(h[t \ {Max(t)}], c, s, s.posts[Max(t)])
    BY <1>1, <1>3, <1>4
  <2>. QED BY <2>1
<1> DEFINE k == CHOOSE g : P(g)
<1>6. P(k)
  BY <1>5
<1>7. k[{}] = q /\ k[{1}] = Posted(k[{}], c, s, op)
  <2> HIDE DEF k
  <2>1. {} \in SUBSET {1} /\ {1} \in SUBSET {1} /\ {1} # {}
    OBVIOUS
  <2>2. \A t \in SUBSET {1} :
          k[t] = IF t = {} THEN q
                 ELSE Posted(k[t \ {Max(t)}], c, s, s.posts[Max(t)])
    BY <1>6
  <2>3. k[{1}] = Posted(k[{1} \ {1}], c, s, s.posts[1])
    BY <2>1, <2>2, <1>3
  <2>. QED BY <1>1, <2>1, <2>2, <2>3
<1>. QED BY <1>2, <1>7

\* d[l] functors have left the head of the queue of l, and those of new[l] have
\* joined its end.
Shifted(d, new) ==
  /\ d \in [Loops -> {0, 1}]
  /\ queue' \in [Loops -> Seq(Functors)]
  /\ \A l \in Loops :
       /\ d[l] = 1 => queue[l] # <<>>
       /\ \A i \in DOMAIN queue'[l] :
            IF i + d[l] \in DOMAIN queue[l]
            THEN queue'[l][i] = queue[l][i + d[l]]
            ELSE queue'[l][i] \in new[l]
       /\ \A i \in DOMAIN queue[l] : i > d[l] =>
            i - d[l] \in DOMAIN queue'[l]
       /\ \A f \in new[l] : f \in Functors /\ \E i \in DOMAIN queue'[l] : queue'[l][i] = f
       /\ \A i, j \in DOMAIN queue'[l] :
            /\ i + d[l] \notin DOMAIN queue[l]
            /\ j + d[l] \notin DOMAIN queue[l]
            /\ queue'[l][i] = queue'[l][j]
            => i = j

NoDrop == [l \in Loops |-> 0]
NoneActive(l) == \A x \in OnLoop(l) : revents[x] = {}
First(l) == Head(queue[l])
Popped(l) == [queue EXCEPT ![l] = Tail(@)]
DropAt(m) == [l \in Loops |-> IF l = m THEN 1 ELSE 0]
NoNew == [l \in Loops |-> {}]
NewAt(m, f) == [l \in Loops |-> IF l = m THEN {f} ELSE {}]

LEMMA OneAtFacts ==
  \A k \in Loops :
    /\ \A l : DropAt(l)[k] = 1 => k = l
    /\ \A m, f, g : g \in NewAt(m, f)[k] <=> k = m /\ g = f
<1>1. ASSUME NEW k \in Loops, NEW l, DropAt(l)[k] = 1  PROVE k = l
  BY <1>1 DEF DropAt
<1>2. ASSUME NEW k \in Loops, NEW m, NEW f, NEW g
      PROVE  g \in NewAt(m, f)[k] <=> k = m /\ g = f
  BY DEF NewAt
<1>. QED BY <1>1, <1>2

LEMMA FunctorFields == \A o, x : Functor(o, x).op = o /\ Functor(o, x).conn = x
BY DEF Functor

\* The queues without the heads that have left.
Rest(d, q) ==
  /\ q \in [Loops -> Seq(Functors)]
  /\ \A l \in Loops :
       /\ d[l] = 1 => queue[l] # <<>>
       /\ Len(queue[l]) = Len(q[l]) + d[l]
       /\ \A i \in 1..Len(q[l]) : q[l][i] = queue[l][i + d[l]]

LEMMA RestFacts ==
  ASSUME queue \in [Loops -> Seq(Functors)]
  PROVE  /\ NoDrop \in [Loops -> {0, 1}] /\ Rest(NoDrop, queue)
         /\ \A m \in Loops : queue[m] # <<>> =>
              /\ DropAt(m) \in [Loops -> {0, 1}]
              /\ Rest(DropAt(m), Popped(m))
<1>1. ASSUME NEW l \in Loops  PROVE queue[l] \in Seq(Functors) /\ Len(queue[l]) \in Nat
  <2>1. queue[l] \in Seq(Functors)
    OBVIOUS
  <2>. QED BY <2>1
<1>2. NoDrop \in [Loops -> {0, 1}] /\ Rest(NoDrop, queue)
  <2>1. ASSUME NEW l \in Loops, NEW i \in 1..Len(queue[l])  PROVE i + 0 = i
    BY <1>1
  <2>. QED BY <1>1, <2>1 DEF NoDrop, Rest
<1>3. ASSUME NEW m \in Loops, queue[m] # <<>>
      PROVE  /\ DropAt(m) \in [Loops -> {0, 1}]
             /\ Rest(DropAt(m), Popped(m))
  <2> DEFINE q == Popped(m)
             d == DropAt(m)
  <2>1. /\ Tail(queue[m]) \in Seq(Functors)
        /\ Len(queue[m]) = Len(Tail(queue[m])) + 1
        /\ \A i \in 1..Len(Tail(queue[m])) : Tail(queue[m])[i] = queue[m][i + 1]
    BY <1>1, <1>3
  <2>2. d \in [Loops -> {0, 1}] /\ d[m] = 1 /\ \A l \in Loops \ {m} : d[l] = 0
    BY DEF DropAt
  <2>3. /\ q \in [Loops -> Seq(Functors)] /\ q[m] = Tail(queue[m])
        /\ \A l \in Loops \ {m} : q[l] = queue[l]
    BY <2>1 DEF Popped
  <2> HIDE DEF q, d
  <2>4. ASSUME NEW l \in Loops
        PROVE  /\ d[l] = 1 => queue[l] # <<>>
               /\ Len(queue[l]) = Len(q[l]) + d[l]
               /\ \A i \in 1..Len(q[l]) : q[l][i] = queue[l][i + d[l]]
    <3>1. CASE l = m
      <4>1. d[m] = 1 /\ q[m] = Tail(queue[m])
        BY <2>2, <2>3
      <4>2. /\ Len(queue[m]) = Len(q[m]) + d[m]
            /\ \A i \in 1..Len(q[m]) : q[m][i] = queue[m][i + d[m]]
        BY <2>1, <4>1
      <4>. QED BY <1>3, <3>1, <4>2
    <3>2. CASE l # m
      <4>1. d[l] = 0 /\ q[l] = queue[l]
        BY <2>2, <2>3, <3>2
      <4>2. \A i \in 1..Len(queue[l]) : i + 0 = i
        BY <1>1
      <4>. QED BY <1>1, <4>1, <4>2
    <3>. QED BY <3>1, <3>2
  <2>5. Rest(d, q)
    BY <2>3, <2>4 DEF Rest
  <2>. QED BY <2>2, <2>5 DEF q, d
<1>. QED BY <1>2, <1>3

\* Lists of functors, none of them twice, join the ends of the queues.
Joining(q, t, new) ==
  /\ queue' \in [Loops -> Seq(Functors)]
  /\ \A l \in Loops :
       /\ t[l] \in Seq(Functors)
       /\ queue'[l] = q[l] \o t[l]
       /\ \A i, j \in 1..Len(t[l]) : t[l][i] = t[l][j] => i = j
       /\ \A f : f \in new[l] <=> \E i \in 1..Len(t[l]) : t[l][i] = f

LEMMA ShiftedByLists ==
  ASSUME queue \in [Loops -> Seq(Functors)], NEW d \in [Loops -> {0, 1}],
         NEW q, Rest(d, q),
         NEW t, NEW new, Joining(q, t, new)
  PROVE  Shifted(d, new)
<1>1. ASSUME NEW l \in Loops
      PROVE  /\ queue[l] \in Seq(Functors) /\ q[l] \in Seq(Functors)
             /\ t[l] \in Seq(Functors) /\ queue'[l] = q[l] \o t[l]
             /\ Len(queue[l]) = Len(q[l]) + d[l] /\ d[l] \in {0, 1}
             /\ queue'[l] \in Seq(Functors)
             /\ \A i \in 1..Len(q[l]) : q[l][i] = queue[l][i + d[l]]
  <2>1. q[l] \in Seq(Functors) /\ t[l] \in Seq(Functors)
    BY DEF Rest, Joining
  <2>. QED BY <2>1 DEF Rest, Joining
<1>2. ASSUME NEW l \in Loops
      PROVE  /\ d[l] = 1 => queue[l] # <<>>
             /\ \A i \in DOMAIN queue'[l] :
                  IF i + d[l] \in DOMAIN queue[l]
                  THEN queue'[l][i] = queue[l][i + d[l]]
                  ELSE queue'[l][i] \in new[l]
             /\ \A i \in DOMAIN queue[l] : i > d[l] => i - d[l] \in DOMAIN queue'[l]
             /\ \A f \in new[l] :
                  f \in Functors /\ \E i \in DOMAIN queue'[l] : queue'[l][i] = f
             /\ \A i, j \in DOMAIN queue'[l] :
                  /\ i + d[l] \notin DOMAIN queue[l]
                  /\ j + d[l] \notin DOMAIN queue[l]
                  /\ queue'[l][i] = queue'[l][j]
                  => i = j
  <2> DEFINE a == q[l]
             b == t[l]
             o == queue[l]
             p == queue'[l]
             k == d[l]
             n == new[l]
  <2>1. /\ a \in Seq(Functors) /\ b \in Seq(Functors) /\ o \in Seq(Functors)
        /\ p = a \o b /\ k \in {0, 1} /\ Len(o) = Len(a) + k
        /\ \A i \in 1..Len(a) : a[i] = o[i + k]
        /\ p \in Seq(Functors)
    BY <1>1
  <2>2. /\ \A i, j \in 1..Len(b) : b[i] = b[j] => i = j
        /\ \A f : f \in n <=> \E i \in 1..Len(b) : b[i] = f
    BY DEF Joining
  <2>3. k = 1 => o # <<>>
    BY DEF Rest
  <2> HIDE DEF a, b, o, p, k, n
  <2>4. /\ DOMAIN o = 1..Len(o) /\ DOMAIN p = 1..Len(p)
        /\ Len(p) = Len(a) + Len(b)
        /\ Len(a) \in Nat /\ Len(b) \in Nat
    BY <2>1
  <2>5. /\ \A i \in 1..Len(a) : p[i] = a[i]
        /\ \A i \in 1..Len(b) : p[i + Len(a)] = b[i]
    BY <2>1
  <2>6. ASSUME NEW i \in 1..Len(p)
        PROVE  /\ i + k \in 1..Len(o) <=> i \in 1..Len(a)
               /\ i \notin 1..Len(a) =>
                    i - Len(a) \in 1..Len(b) /\ p[i] = b[i - Len(a)]
    <3>1. i + k \in 1..Len(o) <=> i \in 1..Len(a)
      BY <2>1, <2>4
    <3>2. i \notin 1..Len(a) =>
            i - Len(a) \in 1..Len(b) /\ (i - Len(a)) + Len(a) = i
      BY <2>4
    <3>. QED BY <2>5, <3>1, <3>2
  <2>7. ASSUME NEW i \in DOMAIN p
        PROVE  IF i + k \in DOMAIN o THEN p[i] = o[i + k] ELSE p[i] \in n
    BY <2>1, <2>2, <2>4, <2>5, <2>6, <2>7
  <2>8. ASSUME NEW i \in DOMAIN o, i > k  PROVE i - k \in DOMAIN p
    BY <2>1, <2>4, <2>8
  <2>9. ASSUME NEW f \in n  PROVE f \in Functors /\ \E i \in DOMAIN p : p[i] = f
    <3>1. PICK i \in 1..Len(b) : b[i] = f
      BY <2>2
    <3>2. i + Len(a) \in 1..Len(p) /\ f \in Functors
      BY <2>1, <2>4, <3>1
    <3>. QED BY <2>4, <2>5, <3>1, <3>2
  <2>10. ASSUME NEW i \in DOMAIN p, NEW j \in DOMAIN p,
                i + k \notin DOMAIN o, j + k \notin DOMAIN o, p[i] = p[j]
         PROVE  i = j
    <3>1. /\ i - Len(a) \in 1..Len(b) /\ p[i] = b[i - Len(a)]
          /\ j - Len(a) \in 1..Len(b) /\ p[j] = b[j - Len(a)]
      BY <2>4, <2>6, <2>10
    <3>2. i - Len(a) = j - Len(a)
      BY <2>2, <2>10, <3>1
    <3>. QED BY <2>4, <3>2
  <2>. QED BY <2>3, <2>7, <2>8, <2>9, <2>10 DEF a, b, o, p, k, n
<1>. QED BY <1>2 DEF Shifted, Joining

\* Nothing joins, or one functor.
LEMMA ShiftedByOne ==
  ASSUME queue \in [Loops -> Seq(Functors)], NEW d \in [Loops -> {0, 1}],
         NEW q, Rest(d, q)
  PROVE  /\ queue' = q => Shifted(d, NoNew)
         /\ \A m \in Loops : \A f \in Functors :
              queue' = [q EXCEPT ![m] = Append(@, f)] => Shifted(d, NewAt(m, f))
<1>1. q \in [Loops -> Seq(Functors)] /\ \A l \in Loops : q[l] \in Seq(Functors)
  <2>1. q \in [Loops -> Seq(Functors)]
    BY DEF Rest
  <2>. QED BY <2>1
<1>2. ASSUME queue' = q  PROVE Shifted(d, NoNew)
  <2> DEFINE t == [l \in Loops |-> << >>]
  <2>1. \A l \in Loops : q[l] \o t[l] = q[l]
    BY <1>1
  <2>2. /\ queue' \in [Loops -> Seq(Functors)]
        /\ \A l \in Loops : queue'[l] = q[l] \o t[l]
    BY <1>1, <1>2, <2>1
  <2>3. /\ \A l \in Loops : t[l] \in Seq(Functors) /\ Len(t[l]) = 0
    OBVIOUS
  <2>4. \A l \in Loops : \A f :
          f \in NoNew[l] <=> \E i \in 1..Len(t[l]) : t[l][i] = f
    BY <2>3 DEF NoNew
  <2>5. \A l \in Loops : \A i, j \in 1..Len(t[l]) : t[l][i] = t[l][j] => i = j
    BY <2>3
  <2> HIDE DEF t
  <2>6. Joining(q, t, NoNew)
    BY <2>2, <2>3, <2>4, <2>5 DEF Joining
  <2>. QED BY <2>6, ShiftedByLists
<1>3. ASSUME NEW m \in Loops, NEW f \in Functors,
             queue' = [q EXCEPT ![m] = Append(@, f)]
      PROVE  Shifted(d, NewAt(m, f))
  <2> DEFINE t == [l \in Loops |-> IF l = m THEN <<f>> ELSE << >>]
  <2>1. \A l \in Loops : /\ l # m => q[l] \o t[l] = q[l]
                         /\ l = m => q[l] \o t[l] = Append(q[l], f)
    BY <1>1
  <2>2. /\ queue' \in [Loops -> Seq(Functors)]
        /\ \A l \in Loops : queue'[l] = q[l] \o t[l]
    <3>1. Append(q[m], f) \in Seq(Functors)
      BY <1>1
    <3>. QED BY <1>1, <1>3, <2>1, <3>1
  <2>3. \A l \in Loops : t[l] \in Seq(Functors) /\ Len(t[l]) \in {0, 1}
    OBVIOUS
  <2>4. \A l \in Loops : \A g :
          g \in NewAt(m, f)[l] <=> \E i \in 1..Len(t[l]) : t[l][i] = g
    <3>1. \A l \in Loops : l # m => Len(t[l]) = 0
      OBVIOUS
    <3>2. Len(t[m]) = 1 /\ t[m][1] = f
      OBVIOUS
    <3>. QED BY <3>1, <3>2 DEF NewAt
  <2>5. \A l \in Loops : \A i, j \in 1..Len(t[l]) : t[l][i] = t[l][j] => i = j
    BY <2>3
  <2> HIDE DEF t
  <2>6. Joining(q, t, NewAt(m, f))
    BY <2>2, <2>3, <2>4, <2>5 DEF Joining
  <2>. QED BY <2>6, ShiftedByLists
<1>. QED BY <1>2, <1>3

\* What a queue holds after that.
LEMMA QueuedAfter ==
  ASSUME queue \in [Loops -> Seq(Functors)], NEW d, NEW new, Shifted(d, new),
         NEW l \in Loops, NEW f
  PROVE  /\ Queued(l, f)' => Queued(l, f) \/ f \in new[l]
         /\ Queued(l, f) =>
              Queued(l, f)' \/ (d[l] = 1 /\ f = First(l))
         /\ f \in new[l] => Queued(l, f)'
<1>1. /\ queue[l] \in Seq(Functors) /\ d[l] \in {0, 1}
      /\ queue'[l] \in Seq(Functors)
  BY DEF Shifted
<1>2. ASSUME Queued(l, f)'  PROVE Queued(l, f) \/ f \in new[l]
  <2>1. PICK i \in DOMAIN queue'[l] : queue'[l][i] = f
    BY <1>2 DEF Queued
  <2>. QED BY <2>1 DEF Queued, Shifted
<1>3. ASSUME Queued(l, f)
      PROVE  Queued(l, f)' \/ (d[l] = 1 /\ f = First(l))
  <2>1. PICK i \in DOMAIN queue[l] : queue[l][i] = f
    BY <1>3 DEF Queued
  <2>2. i \in Nat /\ i >= 1
    BY <1>1
  <2>3. CASE i > d[l]
    <3>1. i - d[l] \in DOMAIN queue'[l] /\ (i - d[l]) + d[l] = i
      BY <1>1, <2>2, <2>3 DEF Shifted
    <3>2. queue'[l][i - d[l]] = queue[l][(i - d[l]) + d[l]]
      BY <3>1 DEF Shifted
    <3>. QED BY <2>1, <3>1, <3>2 DEF Queued
  <2>4. CASE ~(i > d[l])
    <3>1. i = 1 /\ d[l] = 1
      BY <1>1, <2>2, <2>4
    <3>2. First(l) = queue[l][1]
      BY <1>1, <2>1, <3>1 DEF First
    <3>. QED BY <2>1, <3>1, <3>2
  <2>. QED BY <2>3, <2>4
<1>4. ASSUME f \in new[l]  PROVE Queued(l, f)'
  BY <1>4 DEF Queued, Shifted
<1>. QED BY <1>2, <1>3, <1>4

------------------------------------------------------------------------------
\* The queues keep what they promise.

\* What every step does to the connections and the queues: a connection leaves
\* kConnecting when its connectEstablished leaves the head of its queue, and
\* never comes back; a new one joins with its connectEstablished behind it.
Moves(d, new) ==
  /\ Shifted(d, new)
  /\ \A c \in Conns : Accepted(c) =>
       /\ Accepted(c)' /\ conn'[c].loop = conn[c].loop
       /\ conn'[c].state = "kConnecting" <=>
            /\ conn[c].state = "kConnecting"
            /\ ~(d[conn[c].loop] = 1 /\ First(conn[c].loop)
                                          = Functor("connectEstablished", c))
  /\ \A c \in Conns :
       ~Accepted(c) /\ Accepted(c)' /\ conn'[c].state = "kConnecting" =>
         /\ conn'[c].loop \in Loops \ {Base}
         /\ Functor("connectEstablished", c) \in new[conn'[c].loop]
  /\ \A l \in Loops : \A f \in new[l] :
       /\ f \in Functors /\ Accepted(f.conn)'
       /\ IF f.op = "removeConnection" THEN l = Base
          ELSE l = conn'[f.conn].loop
       /\ f.op = "connectEstablished" =>
            /\ ~Accepted(f.conn) /\ conn'[f.conn].state = "kConnecting"
            /\ \A g \in new[l] : g.conn = f.conn => g = f
       /\ f.op \in {"removeConnection", "sendInLoop", "shutdownInLoop"} =>
            conn'[f.conn].state # "kConnecting"

LEMMA QueuesKept ==
  ASSUME Shapes, Settled, InItsQueue, EstablishedFirst,
         NEW d, NEW new, Moves(d, new)
  PROVE  InItsQueue' /\ EstablishedFirst'
<1>1. /\ queue \in [Loops -> Seq(Functors)] /\ Shifted(d, new)
      /\ queue' \in [Loops -> Seq(Functors)]
  BY DEF Shapes, Moves, Shifted
<1>2. ASSUME NEW l \in Loops, NEW i \in DOMAIN queue[l]
      PROVE  queue[l][i] \in Functors /\ queue[l][i].conn \in Conns
  <2>1. queue[l] \in Seq(Functors)
    BY <1>1
  <2>2. queue[l][i] \in Functors
    BY <2>1
  <2>. QED BY <2>2 DEF Functors
\* Every functor in a queue was there, further back, or is new.
<1>3. ASSUME NEW l \in Loops, NEW i \in DOMAIN queue'[l],
             i + d[l] \in DOMAIN queue[l]
      PROVE  /\ queue'[l][i] = queue[l][i + d[l]]
             /\ queue'[l][i].conn \in Conns /\ Accepted(queue'[l][i].conn)
             /\ IF queue'[l][i].op = "removeConnection" THEN l = Base
                ELSE l = conn[queue'[l][i].conn].loop
  <2>1. queue'[l][i] = queue[l][i + d[l]]
    BY <1>1, <1>3 DEF Shifted
  <2>. QED BY <1>2, <1>3, <2>1 DEF InItsQueue
<1>4. ASSUME NEW l \in Loops, NEW i \in DOMAIN queue'[l],
             i + d[l] \notin DOMAIN queue[l]
      PROVE  queue'[l][i] \in new[l] /\ queue'[l][i].conn \in Conns
  <2>1. queue'[l][i] \in new[l]
    BY <1>1, <1>4 DEF Shifted
  <2>2. queue'[l][i] \in Functors
    BY <2>1 DEF Moves
  <2>. QED BY <2>1, <2>2 DEF Functors
<1>5. InItsQueue'
  <2>1. ASSUME NEW l \in Loops, NEW i \in DOMAIN queue'[l]
        PROVE  /\ conn'[queue'[l][i].conn] # None
               /\ IF queue'[l][i].op = "removeConnection" THEN l = Base
                  ELSE l = conn'[queue'[l][i].conn].loop
    <3>1. CASE i + d[l] \in DOMAIN queue[l]
      BY <1>3, <3>1 DEF Moves, Accepted
    <3>2. CASE i + d[l] \notin DOMAIN queue[l]
      BY <1>4, <3>2 DEF Moves, Accepted
    <3>. QED BY <3>1, <3>2
  <2>. QED BY <2>1 DEF InItsQueue, Accepted
<1>6. ASSUME NEW c \in Conns, Accepted(c)', conn'[c].state = "kConnecting"
      PROVE  /\ conn'[c].loop # Base
             /\ Queued(conn[c].loop, Functor("connectEstablished", c))'
  <2> DEFINE f == Functor("connectEstablished", c)
  <2>1. CASE Accepted(c)
    <3>1. /\ conn'[c].loop = conn[c].loop /\ conn[c].state = "kConnecting"
          /\ ~(d[conn[c].loop] = 1 /\ First(conn[c].loop) = f)
      BY <1>6, <2>1 DEF Moves
    <3>2. conn[c].loop # Base /\ Queued(conn[c].loop, f)
      BY <2>1, <3>1 DEF EstablishedFirst
    <3>3. conn[c].loop \in Loops
      BY <2>1 DEF Settled, Rec, HandlerType
    <3>4. PICK m \in Loops : m = conn[c].loop
      BY <3>3
    <3> HIDE DEF f
    <3>5. Queued(m, f)'
      BY <1>1, <3>1, <3>2, <3>4, QueuedAfter
    <3>. QED BY <3>1, <3>2, <3>4, <3>5 DEF Queued, f
  <2>2. CASE ~Accepted(c)
    <3>1. PICK m \in Loops : m = conn'[c].loop /\ m # Base /\ f \in new[m]
      BY <1>6, <2>2 DEF Moves
    <3> HIDE DEF f
    <3>2. Queued(m, f)'
      BY <1>1, <3>1, QueuedAfter
    <3>. QED BY <3>1, <3>2 DEF Queued, f
  <2>. QED BY <2>1, <2>2
<1>7. ASSUME NEW l \in Loops, NEW i \in DOMAIN queue'[l],
             queue'[l][i].op = "connectEstablished"
      PROVE  /\ conn'[queue'[l][i].conn].state = "kConnecting"
             /\ \A j \in DOMAIN queue'[l] :
                  queue'[l][j].conn = queue'[l][i].conn => j >= i
  <2>1. /\ DOMAIN queue[l] = 1..Len(queue[l]) /\ d[l] \in {0, 1}
        /\ DOMAIN queue'[l] = 1..Len(queue'[l])
        /\ Len(queue[l]) \in Nat /\ Len(queue'[l]) \in Nat
    <3>1. queue[l] \in Seq(Functors) /\ queue'[l] \in Seq(Functors)
      BY <1>1
    <3>. QED BY <1>1, <3>1 DEF Shifted
  <2>2. CASE i + d[l] \in DOMAIN queue[l]
    <3> DEFINE c == queue'[l][i].conn
    <3>1. /\ queue'[l][i] = queue[l][i + d[l]] /\ c \in Conns /\ Accepted(c)
          /\ l = conn[c].loop
      BY <1>3, <1>7, <2>2
    <3>2. /\ conn[c].state = "kConnecting"
          /\ \A j \in DOMAIN queue[l] : queue[l][j].conn = c => j >= i + d[l]
      BY <1>7, <2>2, <3>1 DEF EstablishedFirst
    <3> HIDE DEF c
    <3>3. ~(d[l] = 1 /\ First(l) = Functor("connectEstablished", c))
      <4>1. ASSUME d[l] = 1, First(l) = Functor("connectEstablished", c)
            PROVE  FALSE
        <5>1. 1 \in DOMAIN queue[l] /\ First(l) = queue[l][1]
          BY <2>1, <2>2 DEF First
        <5>2. queue[l][1].conn = c
          BY <4>1, <5>1 DEF Functor
        <5>3. 1 >= i + 1
          BY <3>2, <4>1, <5>1, <5>2
        <5>. QED BY <2>1, <5>3
      <4>. QED BY <4>1
    <3>4. conn'[c].state = "kConnecting"
      BY <3>1, <3>2, <3>3 DEF Moves
    <3>5. ASSUME NEW j \in DOMAIN queue'[l], queue'[l][j].conn = c
          PROVE  j >= i
      <4>1. CASE j + d[l] \in DOMAIN queue[l]
        <5>1. queue'[l][j] = queue[l][j + d[l]]
          BY <1>1, <4>1 DEF Shifted
        <5>2. j + d[l] >= i + d[l]
          BY <3>2, <3>5, <4>1, <5>1
        <5>. QED BY <2>1, <5>2
      <4>2. CASE j + d[l] \notin DOMAIN queue[l]
        BY <2>1, <2>2, <4>2
      <4>. QED BY <4>1, <4>2
    <3>. QED BY <3>4, <3>5 DEF c
  <2>3. CASE i + d[l] \notin DOMAIN queue[l]
    <3>1. queue'[l][i] \in new[l] /\ queue'[l][i].conn \in Conns
      BY <1>4, <2>3
    <3>2. /\ ~Accepted(queue'[l][i].conn)
          /\ conn'[queue'[l][i].conn].state = "kConnecting"
          /\ \A g \in new[l] : g.conn = queue'[l][i].conn => g = queue'[l][i]
      BY <1>7, <3>1 DEF Moves
    <3>3. ASSUME NEW j \in DOMAIN queue'[l],
                 queue'[l][j].conn = queue'[l][i].conn
          PROVE  j >= i
      <4>1. j + d[l] \notin DOMAIN queue[l]
        BY <1>3, <3>2, <3>3
      <4>2. queue'[l][j] = queue'[l][i]
        BY <1>4, <3>2, <3>3, <4>1
      <4>3. i = j
        BY <1>1, <2>3, <4>1, <4>2 DEF Shifted
      <4>. QED BY <2>1, <4>3
    <3>. QED BY <3>2, <3>3
  <2>. QED BY <2>2, <2>3
<1>8. ASSUME NEW l \in Loops, NEW i \in DOMAIN queue'[l],
             queue'[l][i].op \in {"removeConnection", "sendInLoop",
                                  "shutdownInLoop"}
      PROVE  conn'[queue'[l][i].conn].state # "kConnecting"
  <2>1. CASE i + d[l] \in DOMAIN queue[l]
    <3>1. conn[queue'[l][i].conn].state # "kConnecting"
      BY <1>3, <1>8, <2>1 DEF EstablishedFirst
    <3>. QED BY <1>3, <2>1, <3>1 DEF Moves
  <2>2. CASE i + d[l] \notin DOMAIN queue[l]
    BY <1>4, <1>8, <2>2 DEF Moves
  <2>. QED BY <2>1, <2>2
<1>9. \A c \in Conns : Accepted(c)' /\ conn'[c].state = "kConnecting" =>
        /\ conn'[c].loop # Base
        /\ Queued(conn[c].loop, Functor("connectEstablished", c))'
  BY <1>6
<1>. QED BY <1>5, <1>7, <1>8, <1>9 DEF EstablishedFirst

\* What a step does to a connection that other threads use: it is given to them
\* when it comes up; they queue a call and let go of it; one that may still be
\* sent on lets a shutdown wait.
SharedMoves(d, new) ==
  /\ \A c \in Conns : (\E u \in Users : user'[c][u] # "none") =>
       \/ \E u \in Users : user[c][u] # "none"
       \/ ~Accepted(c) \/ conn[c].state = "kConnecting"
  /\ \A l \in Loops : \A f \in new[l] :
       f.op \in {"sendInLoop", "shutdownInLoop"} =>
         /\ ~Unshared
         /\ Lone => \A u \in Users : user'[f.conn][u] = "none"
  /\ \A c \in Conns : Lone /\ SendPending(c)' => ShutdownWaits(conn'[c])
  /\ Lone => \A c \in Conns : Accepted(c)' =>
       \/ c \in connections_'
       \/ conn'[c].channel.index = "kNew" /\ conn'[c].state # "kConnecting"
       \/ /\ conn'[c].loop \in Loops
          /\ Functor("connectDestroyed", c) \in new[conn'[c].loop]
       \/ /\ Accepted(c) /\ c \notin connections_
          /\ conn[c].channel.index # "kNew" \/ conn[c].state = "kConnecting"
          /\ ~(d[conn[c].loop] = 1
               /\ First(conn[c].loop) = Functor("connectDestroyed", c))

\* What a step does when the loops alone use the connections.
UnsharedMoves ==
  Unshared => \A c \in Conns : Accepted(c)' => Kept(conn'[c])

LEMMA LoneKept ==
  ASSUME LoopsInv, LoneInv, setup' = setup,
         NEW d, NEW new, Moves(d, new), SharedMoves(d, new)
  PROVE  LoneInv'
<1>1. queue \in [Loops -> Seq(Functors)] /\ Shifted(d, new)
  BY DEF LoopsInv, Shapes, Moves
<1>2. Lone' <=> Lone
  BY DEF Lone
<1>3. ASSUME Lone, NEW c \in Conns, \E u \in Users : user'[c][u] # "none",
             NEW l \in Loops, NEW op \in {"sendInLoop", "shutdownInLoop"},
             Queued(l, Functor(op, c))'
      PROVE  FALSE
  <2> DEFINE f == Functor(op, c)
  <2>0. f.op = op /\ f.conn = c
    BY DEF Functor
  <2> HIDE DEF f
  <2>1. Queued(l, f) \/ f \in new[l]
    BY <1>1, <1>3, QueuedAfter DEF f
  <2>2. CASE f \in new[l]
    BY <1>3, <2>0, <2>2 DEF SharedMoves
  <2>3. CASE Queued(l, f)
    <3>1. CASE \E u \in Users : user[c][u] # "none"
      BY <1>3, <2>3, <3>1 DEF LoneInv, f
    <3>2. CASE ~Accepted(c) \/ conn[c].state = "kConnecting"
      <4>1. PICK i \in DOMAIN queue[l] : queue[l][i] = f
        BY <2>3 DEF Queued
      <4>. QED BY <1>3, <2>0, <3>2, <4>1
               DEF LoopsInv, InItsQueue, EstablishedFirst
    <3>. QED BY <1>3, <3>1, <3>2 DEF SharedMoves
  <2>. QED BY <2>1, <2>2, <2>3
<1>4. ASSUME Lone, NEW c \in Conns, SendPending(c)'
      PROVE  ShutdownWaits(conn'[c])
  BY <1>4 DEF SharedMoves
<1>5. ASSUME Lone, NEW c \in Conns, Accepted(c)'
      PROVE  \/ conn'[c].channel.index = "kNew" /\ conn'[c].state # "kConnecting"
             \/ c \in connections_'
             \/ Queued(conn[c].loop, Functor("connectDestroyed", c))'
  <2> DEFINE f == Functor("connectDestroyed", c)
  <2>1. CASE conn'[c].loop \in Loops /\ f \in new[conn'[c].loop]
    <3>1. PICK m \in Loops : m = conn'[c].loop
      BY <2>1
    <3> HIDE DEF f
    <3>2. Queued(m, f)'
      BY <1>1, <2>1, <3>1, QueuedAfter
    <3>. QED BY <3>1, <3>2 DEF Queued, f
  <2>2. CASE /\ Accepted(c) /\ c \notin connections_
             /\ conn[c].channel.index # "kNew" \/ conn[c].state = "kConnecting"
             /\ ~(d[conn[c].loop] = 1 /\ First(conn[c].loop) = f)
    <3>1. conn[c].loop \in Loops
      BY <2>2 DEF LoopsInv, Settled, Rec, HandlerType
    <3>2. PICK m \in Loops : m = conn[c].loop
      BY <3>1
    <3>3. Queued(m, f)
      BY <1>5, <2>2, <3>2 DEF LoneInv
    <3> HIDE DEF f
    <3>4. Queued(m, f)'
      BY <1>1, <2>2, <3>2, <3>3, QueuedAfter
    <3>5. conn'[c].loop = m
      BY <2>2, <3>2 DEF Moves
    <3>. QED BY <3>4, <3>5 DEF Queued, f
  <2>. QED BY <1>5, <2>1, <2>2 DEF SharedMoves
<1>6. Lone => \A c \in Conns : (\E u \in Users : user'[c][u] # "none") =>
        \A l \in Loops : ~Queued(l, Functor("sendInLoop", c))' /\
                         ~Queued(l, Functor("shutdownInLoop", c))'
  BY <1>3
<1>. QED BY <1>2, <1>4, <1>5, <1>6 DEF LoneInv

LEMMA UnsharedKept ==
  ASSUME LoopsInv, UnsharedInv, setup' = setup,
         NEW d, NEW new, Moves(d, new), SharedMoves(d, new), UnsharedMoves
  PROVE  UnsharedInv'
<1>1. queue \in [Loops -> Seq(Functors)] /\ Shifted(d, new)
  BY DEF LoopsInv, Shapes, Moves
<1>2. Unshared' <=> Unshared
  BY DEF Unshared
<1>3. ASSUME Unshared, NEW c \in Conns, NEW l \in Loops,
             NEW op \in {"sendInLoop", "shutdownInLoop"},
             Queued(l, Functor(op, c))'
      PROVE  FALSE
  <2> DEFINE f == Functor(op, c)
  <2>0. f.op = op
    BY DEF Functor
  <2> HIDE DEF f
  <2>1. Queued(l, f) \/ f \in new[l]
    BY <1>1, <1>3, QueuedAfter DEF f
  <2>2. f \notin new[l]
    BY <1>3, <2>0 DEF SharedMoves
  <2>. QED BY <1>3, <2>1, <2>2 DEF UnsharedInv, f
<1>. QED BY <1>2, <1>3 DEF UnsharedInv, UnsharedMoves

------------------------------------------------------------------------------
\* The steps that leave the queues alone.

LEMMA InvFromMoves ==
  ASSUME ServerInv, setup' = setup, NEW d, NEW new,
         Moves(d, new), SharedMoves(d, new), UnsharedMoves,
         Shapes', Settled', Used'
  PROVE  ServerInv'
<1>1. LoopsInv /\ LoneInv /\ UnsharedInv
  BY DEF ServerInv
<1>2. InItsQueue' /\ EstablishedFirst'
  BY <1>1, QueuesKept DEF LoopsInv
<1>3. LoneInv'
  BY <1>1, LoneKept
<1>4. UnsharedInv'
  BY <1>1, UnsharedKept
<1>. QED BY <1>2, <1>3, <1>4 DEF ServerInv, LoopsInv

\* The loops, the users and the queues see no difference.
Alike(c, s) ==
  /\ Rec(s) /\ s.posts = <<>>
  /\ s.loop = c.loop /\ s.state = c.state /\ s.channel = c.channel
  /\ s.out = c.out /\ s.shut = c.shut /\ s.ups = c.ups
  /\ Kept(c) => Kept(s)

LEMMA QuietStep ==
  ASSUME ServerInv, setup' = setup, connections_' = connections_,
         queue' = queue,
         \A c \in Conns : (Accepted(c)' <=> Accepted(c)),
         \A c \in Conns : Accepted(c) => Alike(conn[c], conn'[c]),
         \A c \in Conns : (\E u \in Users : user'[c][u] # "none") =>
                             \E u \in Users : user[c][u] # "none",
         \A c \in Conns : (\E u \in Users : user'[c][u] \in {"idle", "send"}) =>
                             \E u \in Users : user[c][u] \in {"idle", "send"},
         Shapes', Settled', Used'
  PROVE  ServerInv'
<1>1. queue \in [Loops -> Seq(Functors)] /\ LoopsInv /\ LoneInv /\ UnsharedInv
  BY DEF ServerInv, LoopsInv, Shapes
<1>2. Shifted(NoDrop, NoNew)
  BY <1>1, RestFacts, ShiftedByOne
<1>3. \A l \in Loops : NoDrop[l] = 0 /\ NoNew[l] = {}
  BY DEF NoDrop, NoNew
<1>4. ASSUME NEW c \in Conns, Accepted(c)
      PROVE  conn[c].loop \in Loops /\ NoDrop[conn[c].loop] = 0
  BY <1>1, <1>3, <1>4 DEF LoopsInv, Settled, Rec, HandlerType
<1>5. Moves(NoDrop, NoNew)
  BY <1>2, <1>3, <1>4 DEF Moves, Alike
<1>6. ASSUME NEW c \in Conns, Lone, SendPending(c)'
      PROVE  ShutdownWaits(conn'[c])
  <2>1. SendPending(c)
    BY <1>6 DEF SendPending, Queued
  <2>2. ShutdownWaits(conn[c])
    BY <1>1, <1>6, <2>1 DEF LoneInv
  <2>3. Accepted(c)
    <3>1. CASE \E u \in Users : user[c][u] \in {"idle", "send"}
      BY <1>1, <3>1 DEF LoopsInv, Used
    <3>2. CASE \E l \in Loops : Queued(l, Functor("sendInLoop", c))
      BY <1>1, <3>2 DEF LoopsInv, InItsQueue, Queued, Functor
    <3>. QED BY <2>1, <3>1, <3>2 DEF SendPending
  <2>. QED BY <2>2, <2>3 DEF Alike, ShutdownWaits
<1>7. SharedMoves(NoDrop, NoNew)
  BY <1>3, <1>4, <1>6 DEF SharedMoves, Alike
<1>8. UnsharedMoves
  BY <1>1 DEF UnsharedInv, UnsharedMoves, Alike
<1>. QED BY <1>5, <1>7, <1>8, InvFromMoves

\* What the client does to its connection.
LEMMA ClientAlike ==
  ASSUME NEW c, Rec(c), c.posts = <<>>
  PROVE  /\ Alike(c, [c EXCEPT !.unread = @ + 1])
         /\ Alike(c, [c EXCEPT !.full = FALSE])
         /\ c.peer = "open" => Alike(c, [c EXCEPT !.peer = "closed"])
         /\ c.peer \in {"open", "closed"} => Alike(c, [c EXCEPT !.peer = "reset"])
<1>1. c \in HandlerType /\ c.unread + 1 \in Nat
  BY DEF Rec, HandlerType
<1>2. ASSUME NEW s \in HandlerType,
             /\ s.state = c.state /\ s.channel = c.channel
             /\ s.loop = c.loop /\ s.ups = c.ups /\ s.downs = c.downs
             /\ s.out = c.out /\ s.wire = c.wire /\ s.taken = c.taken
             /\ s.shut = c.shut /\ s.posts = c.posts,
             s.peer = c.peer \/ ~Broken(c)
      PROVE  Alike(c, s)
  <2>1. Numbered(s)
    BY <1>2 DEF Rec, Numbered, WriteFails, Broken
  <2>2. Registered(s) /\ PostsOnce(s)
    BY <1>2 DEF Rec, Registered, PostsOnce
  <2>3. Kept(c) => Kept(s)
    BY <1>2 DEF Kept, ShutdownWaits, Broken
  <2>. QED BY <1>2, <2>1, <2>2, <2>3 DEF Rec, Alike
<1>3. Alike(c, [c EXCEPT !.unread = @ + 1])
  <2> DEFINE s == [c EXCEPT !.unread = @ + 1]
  <2>1. s \in HandlerType
    BY <1>1 DEF HandlerType
  <2>2. /\ s.state = c.state /\ s.channel = c.channel
        /\ s.loop = c.loop /\ s.ups = c.ups /\ s.downs = c.downs
        /\ s.out = c.out /\ s.wire = c.wire /\ s.taken = c.taken
        /\ s.shut = c.shut /\ s.posts = c.posts /\ s.peer = c.peer
    BY <1>1 DEF HandlerType
  <2> HIDE DEF s
  <2>. QED BY <1>2, <2>1, <2>2 DEF s
<1>4. Alike(c, [c EXCEPT !.full = FALSE])
  <2> DEFINE s == [c EXCEPT !.full = FALSE]
  <2>1. s \in HandlerType
    BY <1>1 DEF HandlerType
  <2>2. /\ s.state = c.state /\ s.channel = c.channel
        /\ s.loop = c.loop /\ s.ups = c.ups /\ s.downs = c.downs
        /\ s.out = c.out /\ s.wire = c.wire /\ s.taken = c.taken
        /\ s.shut = c.shut /\ s.posts = c.posts /\ s.peer = c.peer
    BY <1>1 DEF HandlerType
  <2> HIDE DEF s
  <2>. QED BY <1>2, <2>1, <2>2 DEF s
<1>5. ASSUME NEW p \in {"closed", "reset"}, c.peer \in {"open", "closed"}
      PROVE  Alike(c, [c EXCEPT !.peer = p])
  <2> DEFINE s == [c EXCEPT !.peer = p]
  <2>1. s \in HandlerType
    BY <1>1, <1>5 DEF HandlerType, Peers
  <2>2. /\ s.state = c.state /\ s.channel = c.channel
        /\ s.loop = c.loop /\ s.ups = c.ups /\ s.downs = c.downs
        /\ s.out = c.out /\ s.wire = c.wire /\ s.taken = c.taken
        /\ s.shut = c.shut /\ s.posts = c.posts
    BY <1>1 DEF HandlerType
  <2>3. ~Broken(c)
    BY <1>5 DEF Broken
  <2> HIDE DEF s
  <2>. QED BY <1>2, <2>1, <2>2, <2>3 DEF s
<1>. QED BY <1>3, <1>4, <1>5

LEMMA NotNone ==
  ASSUME NEW s, s.state \in States
  PROVE  s # None
<1>1. None.state = "none" /\ "none" \notin States
  BY DEF None, States
<1>. QED BY <1>1

LEMMA AlikeSettled ==
  ASSUME LoopsInv, NEW c \in Conns, Accepted(c), NEW s, Alike(conn[c], s),
         conn' = [conn EXCEPT ![c] = s], connections_' = connections_,
         revents' = revents
  PROVE  /\ \A x \in Conns : (Accepted(x)' <=> Accepted(x))
         /\ \A x \in Conns : Accepted(x) => Alike(conn[x], conn'[x])
         /\ conn' \in [Conns -> HandlerType \cup {None}]
         /\ Settled'
<1>1. /\ conn \in [Conns -> HandlerType \cup {None}]
      /\ \A x \in Conns : Accepted(x) => Rec(conn[x]) /\ conn[x].posts = <<>>
      /\ connections_ \subseteq Conns
  BY DEF LoopsInv, Shapes, Settled
<1>2. s \in HandlerType /\ s # None
  BY NotNone DEF Alike, Rec, HandlerType
<1>3. /\ conn'[c] = s
      /\ \A x \in Conns : x # c => conn'[x] = conn[x]
  BY <1>1
<1>4. \A x \in Conns : (Accepted(x)' <=> Accepted(x))
  BY <1>2, <1>3 DEF Accepted
<1>5. ASSUME NEW x \in Conns, Accepted(x)  PROVE Alike(conn[x], conn'[x])
  <2>1. Rec(conn[x]) /\ conn[x].posts = <<>>
    BY <1>1, <1>5
  <2>2. Alike(conn[x], conn[x])
    BY <2>1 DEF Alike
  <2>. QED BY <1>3, <2>2
<1>6. conn' \in [Conns -> HandlerType \cup {None}]
  BY <1>1, <1>2
<1>7. Settled'
  <2>1. \A x \in connections_' : Accepted(x)'
    BY <1>1, <1>4 DEF LoopsInv, Settled
  <2>2. \A x \in Conns : Accepted(x)' => Rec(conn'[x]) /\ conn'[x].posts = <<>>
    BY <1>4, <1>5 DEF Alike
  <2>3. \A x \in Conns : revents'[x] # {} =>
          Accepted(x)' /\ conn'[x].channel.index = "kAdded"
    BY <1>4, <1>5 DEF LoopsInv, Settled, Alike
  <2>. QED BY <2>1, <2>2, <2>3 DEF Settled
<1>. QED BY <1>4, <1>5, <1>6, <1>7

LEMMA ClientStep ==
  ASSUME ServerInv, NEW c \in Conns, Client(c)
  PROVE  ServerInv'
<1>1. /\ LoopsInv /\ Live(c) /\ Accepted(c) /\ Rec(conn[c])
      /\ conn[c].posts = <<>> /\ Shapes /\ Used
  BY DEF ServerInv, LoopsInv, Settled, Client, ClientSends, ClientReads,
         ClientCloses, ClientResets, Live
<1>2. UNCHANGED <<setup, up, next_, connections_, revents, queue, user>>
  BY DEF Client, ClientSends, ClientReads, ClientCloses, ClientResets
<1>3. PICK s : conn' = [conn EXCEPT ![c] = s] /\ Alike(conn[c], s)
  <2>1. CASE ClientSends(c)
    <3>1. conn' = [conn EXCEPT ![c] = [conn[c] EXCEPT !.unread = @ + 1]]
      BY <2>1 DEF ClientSends
    <3>. QED BY <1>1, <3>1, ClientAlike
  <2>2. CASE ClientReads(c)
    <3>1. conn' = [conn EXCEPT ![c] = [conn[c] EXCEPT !.full = FALSE]]
      BY <2>2 DEF ClientReads
    <3>. QED BY <1>1, <3>1, ClientAlike
  <2>3. CASE ClientCloses(c)
    <3>1. conn' = [conn EXCEPT ![c] = [conn[c] EXCEPT !.peer = "closed"]]
      BY <2>3 DEF ClientCloses
    <3>2. conn[c].peer = "open"
      BY <2>3 DEF ClientCloses
    <3>. QED BY <1>1, <3>1, <3>2, ClientAlike
  <2>4. CASE ClientResets(c)
    <3>1. conn' = [conn EXCEPT ![c] = [conn[c] EXCEPT !.peer = "reset"]]
      BY <2>4 DEF ClientResets
    <3>2. conn[c].peer \in {"open", "closed"}
      BY <2>4 DEF ClientResets
    <3>. QED BY <1>1, <3>1, <3>2, ClientAlike
  <2>. QED BY <2>1, <2>2, <2>3, <2>4 DEF Client
<1>4. /\ \A x \in Conns : (Accepted(x)' <=> Accepted(x))
      /\ \A x \in Conns : Accepted(x) => Alike(conn[x], conn'[x])
      /\ conn' \in [Conns -> HandlerType \cup {None}]
      /\ Settled'
  BY <1>1, <1>2, <1>3, AlikeSettled
<1>5. requests' \in [Conns -> 0..setup.requests]
  <2>1. requests \in [Conns -> 0..setup.requests] /\ setup.requests \in Nat
    BY <1>1, ServerAssumption DEF Shapes
  <2>2. CASE ClientSends(c)
    <3>1. requests[c] + 1 \in 0..setup.requests
      BY <2>1, <2>2 DEF ClientSends
    <3>. QED BY <2>1, <2>2, <3>1 DEF ClientSends
  <2>3. CASE ~ClientSends(c)
    BY <2>1, <2>3 DEF Client, ClientReads, ClientCloses, ClientResets
  <2>. QED BY <2>2, <2>3
<1>6. Shapes'
  BY <1>1, <1>2, <1>4, <1>5 DEF Shapes, Pool
<1>7. Used'
  BY <1>1, <1>2, <1>4 DEF Used, Alike
<1>. QED BY <1>2, <1>4, <1>6, <1>7, QuietStep

\* Steps that touch no connection and no queue.
LEMMA IdleStep ==
  ASSUME ServerInv,
         UNCHANGED <<setup, connections_, conn, queue>>,
         \A c \in Conns : (\E u \in Users : user'[c][u] # "none") =>
                             \E u \in Users : user[c][u] # "none",
         \A c \in Conns : (\E u \in Users : user'[c][u] \in {"idle", "send"}) =>
                             \E u \in Users : user[c][u] \in {"idle", "send"},
         \A c \in Conns : revents'[c] # {} =>
           Accepted(c) /\ conn[c].channel.index = "kAdded",
         Shapes', Used'
  PROVE  ServerInv'
<1>1. /\ \A x \in Conns : (Accepted(x)' <=> Accepted(x))
      /\ \A x \in Conns : Accepted(x) => Alike(conn[x], conn'[x])
  BY DEF ServerInv, LoopsInv, Settled, Alike, Accepted
<1>2. Settled'
  BY <1>1 DEF ServerInv, LoopsInv, Settled, Accepted
<1>. QED BY <1>1, <1>2, QuietStep

LEMMA StutterStep ==
  ASSUME ServerInv, UNCHANGED vars
  PROVE  ServerInv'
<1>1. /\ UNCHANGED <<setup, up, next_, connections_, conn, revents, queue,
                     requests, user>>
      /\ Shapes /\ Used /\ Settled
  BY DEF vars, ServerInv, LoopsInv
<1>2. Shapes' /\ Used'
  BY <1>1 DEF Shapes, Used, Accepted, Pool
<1>. QED BY <1>1, <1>2, IdleStep DEF Settled

LEMMA PollStep ==
  ASSUME ServerInv, NEW l \in Loops, Poll(l)
  PROVE  ServerInv'
<1>1. /\ Shapes /\ Used /\ Settled
      /\ UNCHANGED <<setup, up, next_, connections_, conn, queue, requests, user>>
      /\ revents' = [c \in Conns |-> IF c \in OnLoop(l) THEN Revents(conn[c])
                                     ELSE revents[c]]
  BY DEF Poll, ServerInv, LoopsInv
<1>2. ASSUME NEW c \in Conns
      PROVE  /\ revents'[c] \in SUBSET {"IN", "OUT", "ERR", "HUP"}
             /\ revents'[c] # {} => Accepted(c) /\ conn[c].channel.index = "kAdded"
  <2>1. CASE c \in OnLoop(l)
    <3>1. Accepted(c) /\ Consistent(conn[c].channel)
      BY <1>1, <2>1 DEF OnLoop, Live, Settled, Rec, Registered
    <3>2. Revents(conn[c]) # {} => conn[c].channel.inEpoll
      BY DEF Revents
    <3>3. Revents(conn[c]) \in SUBSET {"IN", "OUT", "ERR", "HUP"}
      BY DEF Revents
    <3>. QED BY <1>1, <2>1, <3>1, <3>2, <3>3 DEF Consistent
  <2>2. CASE c \notin OnLoop(l)
    BY <1>1, <2>2 DEF Settled, Shapes
  <2>. QED BY <2>1, <2>2
<1>3. revents' \in [Conns -> SUBSET {"IN", "OUT", "ERR", "HUP"}]
  BY <1>1, <1>2
<1>4. Shapes' /\ Used'
  BY <1>1, <1>3 DEF Shapes, Used, Accepted, Pool
<1>. QED BY <1>1, <1>2, <1>4, IdleStep

------------------------------------------------------------------------------
\* The threads other than the loops.

\* A call of one of them is queued, and s is what is left of the connection.
LEMMA CallStep ==
  ASSUME ServerInv, NEW c \in Conns, NEW u \in Users, user[c][u] # "none",
         NEW op \in {"sendInLoop", "shutdownInLoop"}, NEW s,
         Rec(s), s.posts = <<>>, s.loop = conn[c].loop,
         s.channel = conn[c].channel, s.state # "kConnecting",
         op = "sendInLoop" => s = conn[c] /\ user[c][u] = "send",
         conn' = [conn EXCEPT ![c] = s],
         queue' = [queue EXCEPT ![conn[c].loop] = Append(@, Functor(op, c))],
         user' = [user EXCEPT ![c][u] = "none"],
         UNCHANGED <<setup, up, next_, connections_, revents, requests>>
  PROVE  ServerInv'
<1>1. /\ LoopsInv /\ LoneInv /\ UnsharedInv /\ Shapes /\ Settled /\ Used
      /\ queue \in [Loops -> Seq(Functors)]
      /\ conn \in [Conns -> HandlerType \cup {None}]
      /\ user \in [Conns -> [Users -> {"none", "idle", "send", "shutdown"}]]
  BY DEF ServerInv, LoopsInv, Shapes
<1>2. /\ Accepted(c) /\ conn[c].state # "kConnecting" /\ u \in setup.users
      /\ conn[c].loop \in Loops
  BY <1>1 DEF Used, Settled, Rec, HandlerType
<1>3. PICK m \in Loops : m = conn[c].loop
  BY <1>2
<1> DEFINE f == Functor(op, c)
<1>4. f \in Functors /\ f.op = op /\ f.conn = c
  BY DEF Functor, Functors, Ops
<1> HIDE DEF f
<1>5. queue' = [queue EXCEPT ![m] = Append(@, f)]
  BY <1>3 DEF f
<1> DEFINE new == NewAt(m, f)
<1>6. Shifted(NoDrop, new)
  BY <1>1, <1>4, <1>5, RestFacts, ShiftedByOne
<1>7. /\ \A l \in Loops : NoDrop[l] = 0
      /\ \A l \in Loops : \A g : g \in new[l] <=> l = m /\ g = f
  BY DEF NoDrop, NewAt
<1> HIDE DEF new
<1>8. s \in HandlerType /\ s # None
  BY NotNone DEF Rec, HandlerType
<1>9. conn'[c] = s /\ \A x \in Conns : x # c => conn'[x] = conn[x]
  BY <1>1
<1>10. \A x \in Conns : (Accepted(x)' <=> Accepted(x))
  BY <1>2, <1>8, <1>9 DEF Accepted
<1>11. /\ \A v \in Users : user'[c][v] # "none" => v # u /\ user'[c][v] = user[c][v]
       /\ \A x \in Conns : x # c => user'[x] = user[x]
  BY <1>1
<1>12. user' \in [Conns -> [Users -> {"none", "idle", "send", "shutdown"}]]
  BY <1>1
<1>13. ASSUME NEW x \in Conns, Accepted(x)
       PROVE  conn[x].loop \in Loops /\ NoDrop[conn[x].loop] = 0
  BY <1>1, <1>7, <1>13 DEF Settled, Rec, HandlerType
<1>14. Moves(NoDrop, new)
  <2>1. ASSUME NEW x \in Conns, Accepted(x)
        PROVE  /\ Accepted(x)' /\ conn'[x].loop = conn[x].loop
               /\ conn'[x].state = "kConnecting" <=> conn[x].state = "kConnecting"
               /\ NoDrop[conn[x].loop] # 1
    BY <1>2, <1>9, <1>10, <1>13, <2>1
  <2>2. ASSUME NEW l \in Loops, NEW g \in new[l]
        PROVE  /\ g \in Functors /\ Accepted(g.conn)'
               /\ g.op \in {"sendInLoop", "shutdownInLoop"}
               /\ l = conn'[g.conn].loop /\ conn'[g.conn].state # "kConnecting"
    <3>1. l = m /\ g = f /\ g.conn = c /\ g.op = op /\ g \in Functors
      BY <1>4, <1>7, <2>2
    <3>. QED BY <1>2, <1>3, <1>9, <1>10, <3>1
  <2>. QED BY <1>6, <1>10, <2>1, <2>2 DEF Moves
<1>15. ASSUME Lone, NEW v \in Users  PROVE user'[c][v] = "none"
  <2>1. user[c][v] # "none" => v \in setup.users
    BY <1>1 DEF Used
  <2>. QED BY <1>2, <1>11, <1>15, <2>1 DEF Lone
<1>16. ASSUME NEW x \in Conns, Lone, SendPending(x)'
       PROVE  ShutdownWaits(conn'[x])
  <2>1. \/ \E v \in Users : user'[x][v] \in {"idle", "send"}
        \/ \E l \in Loops : Queued(l, Functor("sendInLoop", x))
        \/ x = c /\ op = "sendInLoop"
    <3>1. ASSUME NEW l \in Loops, Queued(l, Functor("sendInLoop", x))'
          PROVE  \/ Queued(l, Functor("sendInLoop", x))
                 \/ x = c /\ op = "sendInLoop"
      <4>1. Queued(l, Functor("sendInLoop", x)) \/ Functor("sendInLoop", x) \in new[l]
        BY <1>1, <1>6, <3>1, QueuedAfter
      <4>. QED BY <1>4, <1>7, <4>1 DEF Functor
    <3>. QED BY <1>16, <3>1 DEF SendPending
  <2>2. CASE x # c
    <3>1. SendPending(x)
      BY <1>11, <2>1, <2>2 DEF SendPending
    <3>. QED BY <1>1, <1>9, <1>16, <2>2, <3>1 DEF LoneInv
  <2>3. CASE x = c
    <3>1. op = "sendInLoop"
      BY <1>1, <1>15, <1>16, <2>1, <2>3 DEF LoneInv
    <3>2. SendPending(c) /\ conn'[c] = conn[c]
      BY <1>9, <3>1 DEF SendPending
    <3>. QED BY <1>1, <1>16, <2>3, <3>2 DEF LoneInv
  <2>. QED BY <2>2, <2>3
<1>17. SharedMoves(NoDrop, new)
  <2>1. \A x \in Conns : (\E v \in Users : user'[x][v] # "none") =>
          \E v \in Users : user[x][v] # "none"
    BY <1>11
  <2>2. ASSUME NEW l \in Loops, NEW g \in new[l]
        PROVE  ~Unshared /\ (Lone => \A v \in Users : user'[g.conn][v] = "none")
    BY <1>2, <1>4, <1>7, <1>15, <2>2 DEF Unshared
  <2>3. ASSUME NEW x \in Conns, Accepted(x)'
        PROVE  \/ x \in connections_'
               \/ /\ conn'[x].channel.index = "kNew"
                  /\ conn'[x].state # "kConnecting"
               \/ /\ Accepted(x) /\ x \notin connections_
                  /\ \/ conn[x].channel.index # "kNew"
                     \/ conn[x].state = "kConnecting"
                  /\ NoDrop[conn[x].loop] # 1
    BY <1>2, <1>9, <1>10, <1>13, <2>3
  <2>. QED BY <1>16, <2>1, <2>2, <2>3 DEF SharedMoves
<1>18. UnsharedMoves
  BY <1>2 DEF UnsharedMoves, Unshared
<1>3a. conn' \in [Conns -> HandlerType \cup {None}]
  BY <1>1, <1>8
<1>20. Shapes'
  BY <1>1, <1>6, <1>12, <1>3a DEF Shapes, Shifted, Pool
<1>21. Settled'
  <2>1. \A x \in connections_' : Accepted(x)'
    BY <1>1, <1>10 DEF Shapes, Settled
  <2>2. \A x \in Conns : Accepted(x)' => Rec(conn'[x]) /\ conn'[x].posts = <<>>
    BY <1>1, <1>9, <1>10 DEF Settled
  <2>3. \A x \in Conns : revents'[x] # {} =>
          Accepted(x)' /\ conn'[x].channel.index = "kAdded"
    BY <1>1, <1>9, <1>10 DEF Settled
  <2>. QED BY <2>1, <2>2, <2>3 DEF Settled
<1>22. Used'
  <2>1. ASSUME NEW x \in Conns, NEW v \in Users, user'[x][v] # "none"
        PROVE  /\ Accepted(x)' /\ conn'[x].state # "kConnecting"
               /\ v \in setup'.users
    <3>1. user[x][v] # "none"
      BY <1>11, <2>1
    <3>. QED BY <1>1, <1>9, <1>10, <3>1 DEF Used
  <2>. QED BY <2>1 DEF Used
<1>. QED BY <1>14, <1>17, <1>18, <1>20, <1>21, <1>22, InvFromMoves

LEMMA UserStep ==
  ASSUME ServerInv, NEW c \in Conns, NEW u \in Users, User(c, u)
  PROVE  ServerInv'
<1>1. /\ Shapes /\ Used /\ Settled
      /\ conn \in [Conns -> HandlerType \cup {None}]
      /\ user \in [Conns -> [Users -> {"none", "idle", "send", "shutdown"}]]
  BY DEF ServerInv, LoopsInv, Shapes
<1>2. user[c][u] # "none"
  BY DEF User, UserTests, UserSends, UserShutsDown, UserDrops
<1>3. /\ Accepted(c) /\ Rec(conn[c]) /\ conn[c].posts = <<>>
      /\ conn[c].state # "kConnecting"
  BY <1>1, <1>2 DEF Used, Settled
<1>4. CASE UserTests(c, u) \/ UserDrops(c, u)
  <2>1. PICK op \in {"none", "send", "shutdown"} : user' = [user EXCEPT ![c][u] = op]
    BY <1>4 DEF UserTests, UserDrops
  <2>2. /\ user[c][u] = "idle"
        /\ UNCHANGED <<setup, up, next_, connections_, conn, revents, queue,
                       requests>>
    BY <1>4 DEF UserTests, UserDrops
  <2>3. /\ user' \in [Conns -> [Users -> {"none", "idle", "send", "shutdown"}]]
        /\ \A x \in Conns : \A v \in Users :
             user'[x][v] # user[x][v] => x = c /\ v = u
    BY <1>1, <2>1
  <2>4. Shapes' /\ Used'
    <3>1. Shapes'
      BY <1>1, <2>2, <2>3 DEF Shapes, Pool
    <3>2. Used'
      BY <1>1, <1>2, <2>2, <2>3 DEF Used, Accepted
    <3>. QED BY <3>1, <3>2
  <2>5. \A x \in Conns : (\E v \in Users : user'[x][v] # "none") =>
          \E v \in Users : user[x][v] # "none"
    BY <1>2, <2>3
  <2>6. \A x \in Conns : (\E v \in Users : user'[x][v] \in {"idle", "send"}) =>
          \E v \in Users : user[x][v] \in {"idle", "send"}
    BY <2>2, <2>3
  <2>. QED BY <1>1, <2>2, <2>4, <2>5, <2>6, IdleStep DEF Settled
<1>5. CASE UserSends(c, u)
  <2>1. conn' = [conn EXCEPT ![c] = conn[c]]
    BY <1>1, <1>5 DEF UserSends
  <2>. QED BY <1>2, <1>3, <1>5, <2>1, CallStep DEF UserSends
<1>6. CASE UserShutsDown(c, u)
  <2> DEFINE s == [conn[c] EXCEPT !.state = "kDisconnecting"]
  <2>1. conn' = [conn EXCEPT ![c] = s]
    BY <1>6 DEF UserShutsDown
  <2>2. conn[c] \in HandlerType
    BY <1>3 DEF Rec
  <2>3. s \in HandlerType
    BY <2>2 DEF HandlerType, States
  <2>4. /\ s.peer = conn[c].peer /\ s.state = "kDisconnecting"
        /\ s.channel = conn[c].channel /\ s.loop = conn[c].loop
        /\ s.out = conn[c].out /\ s.wire = conn[c].wire
        /\ s.taken = conn[c].taken /\ s.shut = conn[c].shut
        /\ s.posts = conn[c].posts
    BY <2>2 DEF HandlerType
  <2> HIDE DEF s
  <2>5. Rec(s)
    BY <1>3, <2>3, <2>4
       DEF Rec, Numbered, WriteFails, Registered, PostsOnce
  <2>. QED BY <1>2, <1>3, <1>6, <2>1, <2>4, <2>5, CallStep DEF UserShutsDown
<1>. QED BY <1>4, <1>5, <1>6 DEF User

------------------------------------------------------------------------------
\* The handlers and the functors.

\* What a handler or a functor of an established connection does.
Advanced(c, s) ==
  /\ Rec(s)
  /\ s.loop = c.loop /\ s.ups = c.ups
  /\ s.state # "kConnecting"
  /\ c.state = "kDisconnected" => s.state = "kDisconnected"
  /\ ShutdownWaits(c) => ShutdownWaits(s)
  /\ Unshared /\ Kept(c) => Kept(s)

\* The queues after it.
Left(d, new, c, s) ==
  /\ Shifted(d, new)
  /\ \A l \in Loops : \A g \in new[l] :
       /\ g \in Functors /\ g.conn = c
       /\ g.op \in {"writeComplete", "removeConnection", "connectDestroyed"}
       /\ IF g.op = "removeConnection" THEN l = Base ELSE l = s.loop
  /\ InPlace(s) => Functor("connectDestroyed", c) \in new[s.loop]

LEMMA LeaveShifted ==
  ASSUME queue \in [Loops -> Seq(Functors)], NEW d \in [Loops -> {0, 1}],
         NEW q, Rest(d, q), NEW c \in Conns, NEW s, Rec(s),
         queue' = Enqueued(q, c, s)
  PROVE  \E new : Left(d, new, c, s)
<1>1. s.posts \in Posts /\ s.loop \in Loops /\ Base \in Loops
  BY DEF Rec, HandlerType, Loops
<1>2. CASE s.posts = <<>>
  <2>1. queue' = q
    BY <1>2, EnqueuedNone
  <2>2. Shifted(d, NoNew)
    BY <2>1, ShiftedByOne
  <2>3. ~InPlace(s)
    BY <1>2 DEF InPlace, ToSet
  <2>4. \A l \in Loops : NoNew[l] = {}
    BY DEF NoNew
  <2>5. Left(d, NoNew, c, s)
    BY <2>2, <2>3, <2>4 DEF Left
  <2>. QED BY <2>5
<1>3. ASSUME NEW m \in Loops,
             NEW op \in {"writeComplete", "removeConnection",
                         "connectDestroyed"},
             queue' = [q EXCEPT ![m] = Append(@, Functor(op, c))],
             IF op = "removeConnection" THEN m = Base ELSE m = s.loop,
             InPlace(s) => op = "connectDestroyed"
      PROVE  \E new : Left(d, new, c, s)
  <2> DEFINE f == Functor(op, c)
             new == NewAt(m, f)
  <2>1. f \in Functors /\ f.op = op /\ f.conn = c
    BY DEF Functor, Functors, Ops
  <2>2. Shifted(d, new)
    BY <1>3, <2>1, ShiftedByOne
  <2>3. \A l \in Loops : \A g : g \in new[l] <=> l = m /\ g = f
    BY DEF NewAt
  <2> HIDE DEF new, f
  <2>4. \A l \in Loops : \A g \in new[l] :
           /\ g \in Functors /\ g.conn = c
           /\ g.op \in {"writeComplete", "removeConnection", "connectDestroyed"}
           /\ IF g.op = "removeConnection" THEN l = Base ELSE l = s.loop
    BY <1>3, <2>1, <2>3
  <2>5. InPlace(s) => Functor("connectDestroyed", c) \in new[s.loop]
    <3>1. ASSUME InPlace(s)  PROVE m = s.loop /\ f = Functor("connectDestroyed", c)
      BY <1>3, <3>1 DEF f
    <3>. QED BY <2>3, <3>1
  <2>6. Left(d, new, c, s)
    BY <2>2, <2>4, <2>5 DEF Left
  <2>. QED BY <2>6
<1>4. CASE s.posts = <<"writeComplete">>
  <2>1. queue' = [q EXCEPT ![s.loop] = Append(@, Functor("writeComplete", c))]
    BY <1>4, EnqueuedOne DEF Posted
  <2>2. ~InPlace(s)
    BY <1>4 DEF InPlace, ToSet
  <2>3. PICK m \in Loops : m = s.loop
    BY <1>1
  <2>. QED BY <1>3, <2>1, <2>2, <2>3
<1>5. CASE s.posts = <<"removeConnection">>
  <2>1. queue' = [q EXCEPT ![Base] = Append(@, Functor(
                   IF s.loop = Base THEN "connectDestroyed"
                                    ELSE "removeConnection", c))]
    BY <1>5, EnqueuedOne DEF Posted
  <2>2. CASE s.loop = Base
    BY <1>1, <1>3, <2>1, <2>2
  <2>3. CASE s.loop # Base
    <3>1. ~InPlace(s)
      BY <2>3 DEF InPlace
    <3>. QED BY <1>1, <1>3, <2>1, <2>3, <3>1
  <2>. QED BY <2>2, <2>3
<1>. QED BY <1>1, <1>2, <1>4, <1>5 DEF Posts

\* An established connection c is left as s: by a handler of its channel, or by
\* the functor that leaves the head of a queue, which does not concern any other
\* connection.
Leaves(c, s, d, q) ==
  /\ c \in Conns /\ Accepted(c) /\ conn[c].state # "kConnecting"
  /\ Advanced(conn[c], s)
  /\ Lone /\ conn[c].channel.index = "kNew" => s.channel.index = "kNew"
  /\ d \in [Loops -> {0, 1}] /\ Rest(d, q)
  /\ \A l \in Loops : d[l] = 1 =>
       /\ First(l).conn = c
       /\ First(l).op # "connectEstablished"
       /\ First(l).op = "connectDestroyed" => s.channel.index = "kNew"
  /\ Leave(c, s, q)
  /\ \/ connections_' = connections_
     \/ connections_' = connections_ \ {c} /\ InPlace(s)
  /\ revents' \in [Conns -> SUBSET {"IN", "OUT", "ERR", "HUP"}]
  /\ revents'[c] = {}
  /\ \A x \in Conns : x # c => revents'[x] = revents[x]
  /\ UNCHANGED <<setup, up, next_, requests>>

LEMMA LeaveStep ==
  ASSUME ServerInv, NEW c, NEW s, NEW d, NEW q, Leaves(c, s, d, q)
  PROVE  ServerInv'
<1>0. /\ c \in Conns /\ Accepted(c) /\ conn[c].state # "kConnecting"
      /\ Advanced(conn[c], s)
      /\ Lone /\ conn[c].channel.index = "kNew" => s.channel.index = "kNew"
      /\ d \in [Loops -> {0, 1}] /\ Rest(d, q)
      /\ \A l \in Loops : d[l] = 1 =>
           /\ First(l).conn = c
           /\ First(l).op # "connectEstablished"
           /\ First(l).op = "connectDestroyed" => s.channel.index = "kNew"
      /\ Leave(c, s, q)
      /\ \/ connections_' = connections_
         \/ connections_' = connections_ \ {c} /\ InPlace(s)
      /\ revents' \in [Conns -> SUBSET {"IN", "OUT", "ERR", "HUP"}]
      /\ revents'[c] = {}
      /\ \A x \in Conns : x # c => revents'[x] = revents[x]
      /\ UNCHANGED <<setup, up, next_, requests>>
  BY DEF Leaves
<1> USE <1>0
<1>1. /\ LoopsInv /\ LoneInv /\ UnsharedInv /\ Shapes /\ Settled /\ Used
      /\ queue \in [Loops -> Seq(Functors)]
      /\ conn \in [Conns -> HandlerType \cup {None}]
      /\ connections_ \subseteq Conns /\ IsFiniteSet(connections_)
  BY DEF ServerInv, LoopsInv, Shapes
<1>2. Rec(s) /\ s.loop \in Loops /\ s.loop = conn[c].loop
  BY DEF Advanced, Rec, HandlerType
<1>3. PICK new : Left(d, new, c, s)
  BY <1>1, <1>2, LeaveShifted DEF Leave
<1>3a. /\ Shifted(d, new)
       /\ \A l \in Loops : \A g \in new[l] :
            /\ g \in Functors /\ g.conn = c
            /\ g.op \in {"writeComplete", "removeConnection",
                         "connectDestroyed"}
            /\ IF g.op = "removeConnection" THEN l = Base ELSE l = s.loop
       /\ InPlace(s) => Functor("connectDestroyed", c) \in new[s.loop]
  BY <1>3 DEF Left
<1> DEFINE r == [s EXCEPT !.posts = <<>>]
<1>4. Handled(s, r) /\ r.posts = <<>> /\ r.channel = s.channel /\ r.state = s.state
  <2>1. s \in HandlerType /\ s.state # "kConnecting"
    BY <1>2 DEF Rec, Advanced
  <2>2. r.posts = <<>> /\ r.channel = s.channel /\ r.state = s.state
    BY <2>1 DEF HandlerType
  <2>3. Handled(s, r)
    BY <1>2, <2>1, CountsHandled
  <2>. QED BY <2>2, <2>3
<1>5. conn' = [conn EXCEPT ![c] = r]
  BY DEF Leave
<1> HIDE DEF r
<1>6. /\ Rec(r) /\ r.posts = <<>> /\ r.loop = conn[c].loop
      /\ r.ups = conn[c].ups /\ r.state # "kConnecting"
      /\ r.channel.index = s.channel.index
      /\ ShutdownWaits(conn[c]) => ShutdownWaits(r)
      /\ Unshared /\ Kept(conn[c]) => Kept(r)
      /\ r \in HandlerType /\ r # None
  <2>1. Rec(r) /\ r \in HandlerType /\ r # None
    BY <1>4, NotNone DEF Handled, Rec, HandlerType
  <2>. QED BY <1>2, <1>4, <2>1 DEF Advanced, Handled
<1>7. conn'[c] = r /\ \A x \in Conns : x # c => conn'[x] = conn[x]
  BY <1>1, <1>5
<1>8. \A x \in Conns : (Accepted(x)' <=> Accepted(x))
  BY <1>6, <1>7 DEF Accepted
<1>9. user' = user
  <2>1. s.ups = conn[c].ups /\ conn[c].ups \in Nat
    BY <1>1 DEF Advanced, Settled, Rec, HandlerType
  <2>. QED BY <2>1 DEF Leave
<1>10. ASSUME NEW x \in Conns, Accepted(x)
       PROVE  conn[x].loop \in Loops /\ conn'[x].loop = conn[x].loop
  BY <1>1, <1>6, <1>7, <1>10 DEF Settled, Rec, HandlerType
<1>11. Moves(d, new)
  <2>1. ASSUME NEW x \in Conns, Accepted(x)
        PROVE  /\ Accepted(x)' /\ conn'[x].loop = conn[x].loop
               /\ conn'[x].state = "kConnecting" <=> conn[x].state = "kConnecting"
               /\ ~(d[conn[x].loop] = 1 /\ First(conn[x].loop)
                                             = Functor("connectEstablished", x))
    BY <1>6, <1>7, <1>8, <1>10, <2>1 DEF Functor
  <2>2. ASSUME NEW l \in Loops, NEW g \in new[l]
        PROVE  /\ g \in Functors /\ Accepted(g.conn)'
               /\ IF g.op = "removeConnection" THEN l = Base
                  ELSE l = conn'[g.conn].loop
               /\ conn'[g.conn].state # "kConnecting"
               /\ g.op # "connectEstablished"
    BY <1>2, <1>3a, <1>6, <1>7, <1>8, <2>2
  <2>. QED BY <1>3a, <1>8, <2>1, <2>2 DEF Moves
<1>12. ASSUME NEW x \in Conns, Lone, SendPending(x)'
       PROVE  ShutdownWaits(conn'[x])
  <2>1. SendPending(x)
    <3>1. ASSUME NEW l \in Loops, Queued(l, Functor("sendInLoop", x))'
          PROVE  Queued(l, Functor("sendInLoop", x))
      <4>1. Queued(l, Functor("sendInLoop", x)) \/ Functor("sendInLoop", x) \in new[l]
        BY <1>1, <1>3a, <3>1, QueuedAfter
      <4>. QED BY <1>3a, <4>1 DEF Functor
    <3>. QED BY <1>9, <1>12, <3>1 DEF SendPending
  <2>. QED BY <1>1, <1>6, <1>7, <1>12, <2>1 DEF LoneInv
<1>13. ASSUME Lone, NEW x \in Conns, Accepted(x)
       PROVE  \/ x \in connections_'
              \/ /\ conn'[x].channel.index = "kNew"
                 /\ conn'[x].state # "kConnecting"
              \/ /\ conn'[x].loop \in Loops
                 /\ Functor("connectDestroyed", x) \in new[conn'[x].loop]
              \/ /\ Accepted(x) /\ x \notin connections_
                 /\ \/ conn[x].channel.index # "kNew"
                    \/ conn[x].state = "kConnecting"
                 /\ ~(d[conn[x].loop] = 1 /\ First(conn[x].loop)
                                               = Functor("connectDestroyed", x))
  <2>1. CASE x # c
    <3>1. conn'[x] = conn[x] /\ conn[x].loop \in Loops
      BY <1>7, <1>10, <1>13, <2>1
    <3>2. ~(d[conn[x].loop] = 1 /\ First(conn[x].loop)
                                     = Functor("connectDestroyed", x))
      BY <2>1, <3>1 DEF Functor
    <3>. QED BY <1>13, <2>1, <3>1, <3>2
  <2>2. CASE x = c
    <3>1. CASE c \in connections_ /\ c \notin connections_'
      BY <1>2, <1>3a, <1>6, <1>7, <2>2, <3>1
    <3>2. CASE c \notin connections_ /\ conn[c].channel.index = "kNew"
      BY <1>6, <1>7, <1>13, <2>2, <3>2
    <3>3. CASE c \notin connections_ /\ conn[c].channel.index # "kNew"
      <4>1. CASE d[conn[c].loop] = 1 /\ First(conn[c].loop)
                                          = Functor("connectDestroyed", c)
        <5>1. s.channel.index = "kNew"
          BY <1>2, <4>1 DEF Functor
        <5>. QED BY <1>6, <1>7, <2>2, <5>1
      <4>. QED BY <1>13, <2>2, <3>3, <4>1
    <3>4. CASE c \in connections_ /\ c \in connections_'
      BY <2>2, <3>4
    <3>. QED BY <3>1, <3>2, <3>3, <3>4
  <2>. QED BY <2>1, <2>2
<1>14. SharedMoves(d, new)
  <2>1. ASSUME NEW l \in Loops, NEW g \in new[l]
        PROVE  g.op \notin {"sendInLoop", "shutdownInLoop"}
    BY <1>3a, <2>1
  <2>. QED BY <1>8, <1>9, <1>12, <1>13, <2>1 DEF SharedMoves
<1>15. UnsharedMoves
  BY <1>1, <1>6, <1>7, <1>8 DEF UnsharedInv, UnsharedMoves
<1>16. Shapes'
  <2>1. conn' \in [Conns -> HandlerType \cup {None}]
    BY <1>1, <1>5, <1>6
  <2>2. connections_' \subseteq Conns /\ IsFiniteSet(connections_')
    BY <1>1, FS_Subset
  <2>. QED BY <1>1, <1>3a, <1>9, <2>1, <2>2 DEF Shapes, Shifted, Pool
<1>17. Settled'
  <2>1. \A x \in connections_' : Accepted(x)'
    BY <1>1, <1>8 DEF Shapes, Settled
  <2>2. \A x \in Conns : Accepted(x)' => Rec(conn'[x]) /\ conn'[x].posts = <<>>
    BY <1>1, <1>6, <1>7, <1>8 DEF Settled
  <2>3. \A x \in Conns : revents'[x] # {} =>
          Accepted(x)' /\ conn'[x].channel.index = "kAdded"
    BY <1>1, <1>7, <1>8 DEF Settled
  <2>. QED BY <2>1, <2>2, <2>3 DEF Settled
<1>18. Used'
  BY <1>1, <1>6, <1>7, <1>8, <1>9 DEF Used
<1>. QED BY <1>11, <1>14, <1>15, <1>16, <1>17, <1>18, InvFromMoves

LEMMA HandledAdvanced ==
  ASSUME NEW c, NEW s, Handled(c, s)
  PROVE  Advanced(c, s)
BY DEF Handled, Advanced

LEMMA HandleStep ==
  ASSUME ServerInv, NEW l \in Loops, Handle(l)
  PROVE  ServerInv'
<1>1. /\ Settled /\ Shapes /\ queue \in [Loops -> Seq(Functors)]
      /\ revents \in [Conns -> SUBSET {"IN", "OUT", "ERR", "HUP"}]
  BY DEF ServerInv, LoopsInv, Shapes
<1>2. PICK c \in OnLoop(l) :
        /\ revents[c] # {}
        /\ \E s \in HandleEvent(conn[c], revents[c]) :
             /\ Leave(c, s, queue)
             /\ connections_' = IF InPlace(s) THEN connections_ \ {c}
                                              ELSE connections_
        /\ revents' = [revents EXCEPT ![c] = {}]
        /\ UNCHANGED <<setup, up, next_, requests>>
  BY DEF Handle
<1>3. PICK s \in HandleEvent(conn[c], revents[c]) :
        /\ Leave(c, s, queue)
        /\ connections_' = IF InPlace(s) THEN connections_ \ {c}
                                         ELSE connections_
  BY <1>2
<1>4. /\ c \in Conns /\ Accepted(c) /\ Rec(conn[c]) /\ conn[c].posts = <<>>
      /\ conn[c].channel.index = "kAdded"
  BY <1>1, <1>2 DEF OnLoop, Settled
<1>5. conn[c].state # "kConnecting"
  BY <1>4 DEF Rec, Registered
<1>6. Advanced(conn[c], s)
  BY <1>3, <1>4, EventHandled, HandledAdvanced
<1>7. NoDrop \in [Loops -> {0, 1}] /\ Rest(NoDrop, queue)
  BY <1>1, RestFacts
<1>8. \A m \in Loops : NoDrop[m] # 1
  BY DEF NoDrop
<1>9. /\ revents' \in [Conns -> SUBSET {"IN", "OUT", "ERR", "HUP"}]
      /\ revents'[c] = {} /\ \A x \in Conns : x # c => revents'[x] = revents[x]
  BY <1>1, <1>2, <1>4
<1>10. connections_' = connections_
         \/ (connections_' = connections_ \ {c} /\ InPlace(s))
  BY <1>3
<1>11. Leaves(c, s, NoDrop, queue)
  BY <1>2, <1>3, <1>4, <1>5, <1>6, <1>7, <1>8, <1>9, <1>10 DEF Leaves
<1>. QED BY <1>11, LeaveStep

\* The functor at the head of a queue: a connection is not yet up exactly when
\* the functor is its connectEstablished.
LEMMA HeadFacts ==
  ASSUME LoopsInv, NEW l \in Loops, queue[l] # <<>>
  PROVE  LET f == First(l)
         IN  /\ f \in Functors /\ f = Functor(f.op, f.conn)
             /\ f.conn \in Conns /\ Live(f.conn) /\ Rec(conn[f.conn])
             /\ conn[f.conn].posts = <<>> /\ Queued(l, f)
             /\ IF f.op = "removeConnection" THEN l = Base
                                         ELSE l = conn[f.conn].loop
             /\ f.op = "connectEstablished" <=>
                  conn[f.conn].state = "kConnecting"
<1> DEFINE f == First(l)
           c == f.conn
<1>1. queue[l] \in Seq(Functors)
  BY DEF LoopsInv, Shapes
<1>2. 1 \in DOMAIN queue[l] /\ f = queue[l][1] /\ f \in Functors
  BY <1>1 DEF First
<1>3. c \in Conns /\ f = Functor(f.op, c)
  BY <1>2 DEF Functors, Functor
<1>4. /\ Accepted(c)
      /\ IF f.op = "removeConnection" THEN l = Base ELSE l = conn[c].loop
  BY <1>2 DEF LoopsInv, InItsQueue
<1>5. Rec(conn[c]) /\ conn[c].posts = <<>> /\ Live(c) /\ Queued(l, f)
  BY <1>2, <1>3, <1>4 DEF LoopsInv, Settled, Live, Referenced, Queued
<1>6. f.op = "connectEstablished" => conn[c].state = "kConnecting"
  BY <1>2 DEF LoopsInv, EstablishedFirst
<1>7. ASSUME conn[c].state = "kConnecting"  PROVE f.op = "connectEstablished"
  <2>1. f.op # "removeConnection"
    BY <1>2, <1>7 DEF LoopsInv, EstablishedFirst
  <2>2. l = conn[c].loop
    BY <1>4, <2>1
  <2>3. Queued(l, Functor("connectEstablished", c))
    BY <1>3, <1>4, <1>7, <2>2 DEF LoopsInv, EstablishedFirst
  <2>4. PICK i \in DOMAIN queue[l] :
          queue[l][i] = Functor("connectEstablished", c)
    BY <2>3 DEF Queued
  <2>5. 1 >= i
    BY <1>2, <2>4 DEF LoopsInv, EstablishedFirst, Functor
  <2>6. i = 1
    BY <1>1, <2>5
  <2>. QED BY <1>2, <2>4, <2>6 DEF Functor
<1>. QED BY <1>2, <1>3, <1>4, <1>5, <1>6, <1>7

\* The functor that loop l calls next is op, bound to connection c.
FirstIs(l, op, c) == First(l).op = op /\ First(l).conn = c

\* op, called on connection c, may leave the record s.
Outcome(op, c, s) ==
  \/ op = "writeComplete" /\ s = OnDestroy(conn[c])
  \/ op = "sendInLoop" /\ s \in SendInLoop(conn[c])
  \/ op = "shutdownInLoop" /\ s = ShutdownInLoop(conn[c])
  \/ op = "connectDestroyed" /\ s = ConnectDestroyed(conn[c])

\* HeadFacts, with the functor's two parts named.
LEMMA FirstFacts ==
  ASSUME LoopsInv, NEW l \in Loops, queue[l] # <<>>,
         NEW op, NEW c, FirstIs(l, op, c)
  PROVE  /\ First(l) = Functor(op, c) /\ Functor(op, c) \in Functors
         /\ c \in Conns /\ Live(c) /\ Accepted(c) /\ Rec(conn[c])
         /\ conn[c].posts = <<>> /\ Queued(l, Functor(op, c))
         /\ IF op = "removeConnection" THEN l = Base ELSE l = conn[c].loop
         /\ op = "connectEstablished" <=> conn[c].state = "kConnecting"
BY HeadFacts DEF FirstIs, Live

\* writeComplete, sendInLoop, shutdownInLoop, connectDestroyed.
LEMMA FunctorStep ==
  ASSUME ServerInv, NEW l \in Loops, queue[l] # <<>>, NoneActive(l),
         NEW op, NEW c, FirstIs(l, op, c),
         NEW s, Outcome(op, c, s), Leave(c, s, Popped(l)),
         UNCHANGED <<setup, up, next_, revents, requests, connections_>>
  PROVE  /\ ServerInv'
         /\ Advanced(conn[c], s)
<1> DEFINE q == Popped(l)
<1>1. /\ LoopsInv /\ LoneInv /\ UnsharedInv
      /\ queue \in [Loops -> Seq(Functors)]
      /\ revents \in [Conns -> SUBSET {"IN", "OUT", "ERR", "HUP"}]
  BY DEF ServerInv, LoopsInv, Shapes
<1>10. op \in {"writeComplete", "sendInLoop", "shutdownInLoop",
               "connectDestroyed"}
  BY DEF Outcome
<1>2. /\ First(l) = Functor(op, c) /\ Functor(op, c) \in Functors
      /\ c \in Conns /\ Live(c) /\ Accepted(c)
      /\ Rec(conn[c]) /\ conn[c].posts = <<>> /\ Queued(l, Functor(op, c))
      /\ l = conn[c].loop /\ conn[c].state # "kConnecting"
  BY <1>1, <1>10, FirstFacts
<1>3. DropAt(l) \in [Loops -> {0, 1}] /\ Rest(DropAt(l), q)
  BY <1>1, RestFacts
<1>4. \A m \in Loops : DropAt(l)[m] = 1 => m = l
  BY DEF DropAt
<1>5. revents[c] = {}
  <2>1. c \in OnLoop(l)
    BY <1>2 DEF OnLoop
  <2>. QED BY <2>1 DEF NoneActive
<1>6. ASSUME Advanced(conn[c], s),
             Lone /\ conn[c].channel.index = "kNew" => s.channel.index = "kNew",
             op = "connectDestroyed" => s.channel.index = "kNew"
      PROVE  ServerInv'
  <2> DEFINE d == DropAt(l)
  <2>1. \A m \in Loops : d[m] = 1 =>
          /\ First(m).conn = c
          /\ First(m).op # "connectEstablished"
          /\ First(m).op = "connectDestroyed" => s.channel.index = "kNew"
    <3>1. First(l).conn = c /\ First(l).op = op
      BY DEF FirstIs
    <3>. QED BY <1>4, <1>6, <1>10, <3>1
  <2>2. /\ revents' \in [Conns -> SUBSET {"IN", "OUT", "ERR", "HUP"}]
        /\ revents'[c] = {} /\ \A x \in Conns : x # c => revents'[x] = revents[x]
    BY <1>1, <1>5
  <2>3. d \in [Loops -> {0, 1}] /\ Rest(d, q) /\ Leave(c, s, q)
    BY <1>3
  <2> HIDE DEF d, q
  <2>4. Leaves(c, s, d, q)
    BY <1>2, <1>6, <2>1, <2>2, <2>3 DEF Leaves
  <2>. QED BY <2>4, LeaveStep
<1>7. CASE op = "writeComplete"
  <2>1. s = Shutdown(conn[c])
    BY <1>7 DEF OnDestroy, Outcome
  <2>2. Handled(conn[c], s) /\ s.channel = conn[c].channel
    BY <1>2, <2>1, ShutdownHandled
  <2>3. Advanced(conn[c], s)
    BY <2>2, HandledAdvanced
  <2>. QED BY <1>6, <1>7, <2>2, <2>3
<1>8. CASE op = "sendInLoop"
  <2>5. /\ s \in SendInLoop(conn[c]) /\ Rec(conn[c])
        /\ conn[c].state # "kConnecting" /\ conn[c].posts = <<>>
    BY <1>2, <1>8 DEF Outcome
  <2>1. /\ Rec(s) /\ s.loop = conn[c].loop /\ s.ups = conn[c].ups
        /\ s.state = conn[c].state
        /\ ShutdownWaits(conn[c]) => ShutdownWaits(s)
        /\ ShutdownWaits(conn[c]) /\ conn[c].channel.index = "kNew" =>
             s.channel.index = "kNew"
    BY <2>5, SendInLoopHandled
  <2>2. ~Unshared
    BY <1>1, <1>2, <1>8 DEF UnsharedInv
  <2>3. Lone => ShutdownWaits(conn[c])
    BY <1>1, <1>2, <1>8 DEF LoneInv, SendPending
  <2>4. Advanced(conn[c], s)
    BY <1>2, <2>1, <2>2 DEF Advanced
  <2>. QED BY <1>6, <1>8, <2>1, <2>3, <2>4
<1>9. CASE op = "shutdownInLoop"
  <2>1. s = ShutdownInLoop(conn[c])
    BY <1>9 DEF Outcome
  <2>2. /\ Rec(s) /\ s.loop = conn[c].loop /\ s.ups = conn[c].ups
        /\ s.state = conn[c].state /\ s.channel = conn[c].channel
        /\ ShutdownWaits(conn[c]) => ShutdownWaits(s)
    BY <1>2, <2>1, ShutdownInLoopHandled
  <2>3. ~Unshared
    BY <1>1, <1>2, <1>9 DEF UnsharedInv
  <2>4. Advanced(conn[c], s)
    BY <1>2, <2>2, <2>3 DEF Advanced
  <2>. QED BY <1>6, <1>9, <2>2, <2>4
<1>11. CASE op = "connectDestroyed"
  <2>1. s = ConnectDestroyed(conn[c])
    BY <1>11 DEF Outcome
  <2>2. Handled(conn[c], s) /\ s.channel.index = "kNew"
    BY <1>2, <2>1, DestroyedHandled
  <2>3. Advanced(conn[c], s)
    BY <2>2, HandledAdvanced
  <2>. QED BY <1>6, <2>2, <2>3
<1>. QED BY <1>7, <1>8, <1>9, <1>10, <1>11

\* A removeConnection that came through the queue of the base loop.
LEMMA RemoveStep ==
  ASSUME ServerInv, NEW l \in Loops, queue[l] # <<>>,
         NEW c, FirstIs(l, "removeConnection", c),
         connections_' = connections_ \ {c},
         queue' = [Popped(l)
                     EXCEPT ![conn[c].loop] =
                       Append(@, Functor("connectDestroyed", c))],
         UNCHANGED <<setup, up, next_, conn, revents, requests, user>>
  PROVE  ServerInv'
<1>1. /\ LoopsInv /\ LoneInv /\ UnsharedInv /\ Shapes /\ Settled /\ Used
      /\ queue \in [Loops -> Seq(Functors)]
      /\ connections_ \subseteq Conns /\ IsFiniteSet(connections_)
  BY DEF ServerInv, LoopsInv, Shapes
<1>2. /\ c \in Conns /\ Live(c) /\ Rec(conn[c])
      /\ conn[c].state # "kConnecting" /\ Accepted(c)
  BY <1>1, FirstFacts
<1>3. Accepted(c) /\ conn[c].loop \in Loops
  BY <1>2 DEF Rec, HandlerType
<1>4. PICK m \in Loops : m = conn[c].loop
  BY <1>3
<1> DEFINE f == Functor("connectDestroyed", c)
           d == DropAt(l)
           new == NewAt(m, f)
           q == Popped(l)
<1>5. f \in Functors /\ f.op = "connectDestroyed" /\ f.conn = c
  BY <1>2 DEF Functor, Functors, Ops
<1>6. Shifted(d, new)
  <2>1. d \in [Loops -> {0, 1}] /\ Rest(d, q)
    BY <1>1, RestFacts
  <2>2. queue' = [q EXCEPT ![m] = Append(@, f)]
    BY <1>4
  <2> HIDE DEF d, q, f
  <2>. QED BY <1>1, <1>5, <2>1, <2>2, ShiftedByOne
<1>7. /\ \A k \in Loops : d[k] = 1 => k = l
      /\ \A k \in Loops : \A g : g \in new[k] <=> k = m /\ g = f
  <2>1. \A k \in Loops : d[k] = 1 => k = l
    BY OneAtFacts
  <2> HIDE DEF f
  <2>2. \A k \in Loops : \A g : g \in new[k] <=> k = m /\ g = f
    BY OneAtFacts
  <2>. QED BY <2>1, <2>2
<1> HIDE DEF d, new
<1>8. \A x \in Conns : (Accepted(x)' <=> Accepted(x))
  BY DEF Accepted
<1>9. ASSUME NEW x \in Conns, Accepted(x), d[conn[x].loop] = 1
      PROVE  /\ First(conn[x].loop).op = "removeConnection"
             /\ conn[x].loop = l
  BY <1>1, <1>7, <1>9 DEF Settled, Rec, HandlerType, FirstIs
<1>10. Moves(d, new)
  <2>1. ASSUME NEW x \in Conns, Accepted(x)
        PROVE  ~(d[conn[x].loop] = 1 /\ First(conn[x].loop)
                                          = Functor("connectEstablished", x))
    <3>1. ASSUME d[conn[x].loop] = 1
          PROVE  First(conn[x].loop).op = "removeConnection"
      BY <1>9, <2>1, <3>1
    <3>. QED BY <3>1, FunctorFields
  <2>2. ASSUME NEW k \in Loops, NEW g \in new[k]
        PROVE  /\ g \in Functors /\ Accepted(g.conn)'
               /\ g.op = "connectDestroyed" /\ k = conn'[g.conn].loop
    BY <1>3, <1>4, <1>5, <1>7, <1>8, <1>2, <2>2
  <2>. QED BY <1>6, <1>8, <2>1, <2>2 DEF Moves
<1>11. ASSUME NEW x \in Conns, Lone, SendPending(x)'
       PROVE  ShutdownWaits(conn'[x])
  <2>1. ASSUME NEW k \in Loops, Queued(k, Functor("sendInLoop", x))'
        PROVE  Queued(k, Functor("sendInLoop", x))
    <3>1. Queued(k, Functor("sendInLoop", x)) \/ Functor("sendInLoop", x) \in new[k]
      BY <1>1, <1>6, <2>1, QueuedAfter
    <3>2. Functor("sendInLoop", x) # f
      BY <1>5, FunctorFields
    <3> HIDE DEF f
    <3>. QED BY <1>7, <3>1, <3>2
  <2>2. SendPending(x)
    BY <1>11, <2>1 DEF SendPending
  <2>. QED BY <1>1, <1>11, <2>2 DEF LoneInv
<1>12. SharedMoves(d, new)
  <2>1. ASSUME NEW k \in Loops, NEW g \in new[k]
        PROVE  g.op \notin {"sendInLoop", "shutdownInLoop"}
    BY <1>5, <1>7, <2>1
  <2>2. ASSUME NEW x \in Conns, Accepted(x)
        PROVE  \/ x \in connections_'
               \/ /\ conn'[x].channel.index = "kNew"
                  /\ conn'[x].state # "kConnecting"
               \/ /\ conn'[x].loop \in Loops
                  /\ Functor("connectDestroyed", x) \in new[conn'[x].loop]
               \/ /\ Accepted(x) /\ x \notin connections_
                  /\ \/ conn[x].channel.index # "kNew"
                     \/ conn[x].state = "kConnecting"
                  /\ ~(d[conn[x].loop] = 1 /\ First(conn[x].loop)
                                               = Functor("connectDestroyed", x))
    <3>1. CASE x = c
      BY <1>3, <1>4, <1>7, <3>1
    <3>2. CASE x # c
      <4>1. ~(d[conn[x].loop] = 1 /\ First(conn[x].loop)
                                       = Functor("connectDestroyed", x))
        <5>1. ASSUME d[conn[x].loop] = 1
              PROVE  First(conn[x].loop).op = "removeConnection"
          BY <1>9, <2>2, <5>1
        <5>. QED BY <5>1, FunctorFields
      <4>. QED BY <2>2, <3>2, <4>1
    <3>. QED BY <3>1, <3>2
  <2>. QED BY <1>8, <1>11, <2>1, <2>2 DEF SharedMoves
<1>13. UnsharedMoves
  BY <1>1, <1>8 DEF UnsharedInv, UnsharedMoves
<1>14. Shapes'
  <2>1. connections_' \subseteq Conns /\ IsFiniteSet(connections_')
    BY <1>1, FS_Subset
  <2>. QED BY <1>1, <1>6, <2>1 DEF Shapes, Shifted, Pool
<1>15. Settled' /\ Used'
  BY <1>1, <1>8 DEF Settled, Used, Shapes
<1>. QED BY <1>10, <1>12, <1>13, <1>14, <1>15, InvFromMoves

\* What Users see of a connection that has come up.
LEMMA GivenFacts ==
  ASSUME Shapes, NEW c \in Conns, user' = Given(c)
  PROVE  /\ user' \in [Conns -> [Users -> {"none", "idle", "send", "shutdown"}]]
         /\ \A x \in Conns : x # c => user'[x] = user[x]
         /\ \A u \in Users : user'[c][u] # "none" => u \in setup.users
BY DEF Given, Shapes

\* connectEstablished, from the queue of the connection's loop.
LEMMA EstablishStep ==
  ASSUME ServerInv, NEW l \in Loops, queue[l] # <<>>,
         NoneActive(l),
         NEW c, FirstIs(l, "connectEstablished", c),
         Leave(c, ConnectEstablished(conn[c]), Popped(l)),
         UNCHANGED <<setup, up, next_, revents, requests, connections_>>
  PROVE  ServerInv'
<1>1. /\ LoopsInv /\ LoneInv /\ UnsharedInv /\ Shapes /\ Settled /\ Used
      /\ queue \in [Loops -> Seq(Functors)]
      /\ conn \in [Conns -> HandlerType \cup {None}]
      /\ user \in [Conns -> [Users -> {"none", "idle", "send", "shutdown"}]]
  BY DEF ServerInv, LoopsInv, Shapes
<1>2. /\ First(l) = Functor("connectEstablished", c)
      /\ c \in Conns /\ Live(c) /\ Rec(conn[c]) /\ conn[c].posts = <<>>
      /\ l = conn[c].loop /\ conn[c].state = "kConnecting"
      /\ Accepted(c)
  BY <1>1, FirstFacts
<1>3. Accepted(c) /\ revents[c] = {}
  <2>1. c \in OnLoop(l)
    BY <1>2 DEF OnLoop
  <2>. QED BY <1>2, <2>1 DEF NoneActive
<1> DEFINE s == ConnectEstablished(conn[c])
           d == DropAt(l)
           q == Popped(l)
<1>4. /\ Rec(s) /\ s.state = "kConnected" /\ s.posts = <<>>
      /\ s.loop = conn[c].loop /\ s.ups = conn[c].ups + 1
      /\ Kept(conn[c]) => Kept(s)
  BY <1>2, EstablishedHandled
<1> HIDE DEF s
<1>5. s \in HandlerType /\ s # None /\ [s EXCEPT !.posts = <<>>] = s
  BY <1>4, NotNone DEF Rec, HandlerType
<1>6. conn' = [conn EXCEPT ![c] = s] /\ queue' = q
  <2>1. conn' = [conn EXCEPT ![c] = [s EXCEPT !.posts = <<>>]]
        /\ queue' = Enqueued(q, c, s)
    BY DEF Leave, s
  <2> HIDE DEF q
  <2>2. Enqueued(q, c, s) = q
    BY <1>4, EnqueuedNone
  <2>. QED BY <1>5, <2>1, <2>2
<1>7. user' = Given(c)
  <2>1. conn[c].ups \in Nat
    BY <1>2 DEF Rec, HandlerType
  <2>2. s.ups > conn[c].ups
    BY <1>4, <2>1
  <2>. QED BY <2>2 DEF Leave, s
<1>8. Shifted(d, NoNew)
  <2>1. d \in [Loops -> {0, 1}] /\ Rest(d, q)
    BY <1>1, RestFacts
  <2> HIDE DEF d, q
  <2>. QED BY <1>1, <1>6, <2>1, ShiftedByOne
<1>9. \A k \in Loops : NoNew[k] = {} /\ (d[k] = 1 <=> k = l)
  BY DEF DropAt, NoNew
<1> HIDE DEF d, q
<1>10. conn'[c] = s /\ \A x \in Conns : x # c => conn'[x] = conn[x]
  BY <1>1, <1>2, <1>6
<1>11. \A x \in Conns : (Accepted(x)' <=> Accepted(x))
  BY <1>3, <1>5, <1>10 DEF Accepted
<1>12. ASSUME NEW x \in Conns, Accepted(x), d[conn[x].loop] = 1
       PROVE  First(conn[x].loop) = Functor("connectEstablished", c)
  BY <1>1, <1>2, <1>9, <1>12 DEF Settled, Rec, HandlerType
<1>13. Moves(d, NoNew)
  <2>1. ASSUME NEW x \in Conns, Accepted(x)
        PROVE  /\ Accepted(x)' /\ conn'[x].loop = conn[x].loop
               /\ conn'[x].state = "kConnecting" <=>
                    /\ conn[x].state = "kConnecting"
                    /\ ~(d[conn[x].loop] = 1 /\ First(conn[x].loop)
                                   = Functor("connectEstablished", x))
    <3>1. CASE x = c
      BY <1>2, <1>4, <1>9, <1>10, <1>11, <2>1, <3>1
    <3>2. CASE x # c
      BY <1>10, <1>11, <1>12, <2>1, <3>2 DEF Functor
    <3>. QED BY <3>1, <3>2
  <2>. QED BY <1>8, <1>9, <1>11, <2>1 DEF Moves
<1>14. /\ \A x \in Conns : x # c => user'[x] = user[x]
       /\ \A u \in Users : user'[c][u] # "none" => u \in setup.users
       /\ user' \in [Conns -> [Users -> {"none", "idle", "send", "shutdown"}]]
  BY <1>1, <1>2, <1>7, GivenFacts
<1>15. ASSUME NEW x \in Conns, Lone, SendPending(x)'
       PROVE  ShutdownWaits(conn'[x])
  <2>1. CASE x = c
    BY <1>4, <1>10, <2>1 DEF ShutdownWaits
  <2>2. CASE x # c
    <3>1. ASSUME NEW k \in Loops, Queued(k, Functor("sendInLoop", x))'
          PROVE  Queued(k, Functor("sendInLoop", x))
      BY <1>1, <1>8, <1>9, <3>1, QueuedAfter
    <3>2. SendPending(x)
      BY <1>14, <1>15, <2>2, <3>1 DEF SendPending
    <3>. QED BY <1>1, <1>10, <1>15, <2>2, <3>2 DEF LoneInv
  <2>. QED BY <2>1, <2>2
<1>16. SharedMoves(d, NoNew)
  <2>1. ASSUME NEW x \in Conns, Accepted(x)
        PROVE  \/ x \in connections_'
               \/ /\ conn'[x].channel.index = "kNew"
                  /\ conn'[x].state # "kConnecting"
               \/ /\ Accepted(x) /\ x \notin connections_
                  /\ \/ conn[x].channel.index # "kNew"
                     \/ conn[x].state = "kConnecting"
                  /\ ~(d[conn[x].loop] = 1 /\ First(conn[x].loop)
                                               = Functor("connectDestroyed", x))
    <3>1. ~(d[conn[x].loop] = 1 /\ First(conn[x].loop)
                                     = Functor("connectDestroyed", x))
      BY <1>12, <2>1 DEF Functor
    <3>. QED BY <1>2, <1>10, <2>1, <3>1
  <2>. QED BY <1>2, <1>9, <1>11, <1>14, <1>15, <2>1 DEF SharedMoves
<1>17. UnsharedMoves
  BY <1>1, <1>3, <1>4, <1>10, <1>11 DEF UnsharedInv, UnsharedMoves
<1>18. Shapes'
  <2>1. conn' \in [Conns -> HandlerType \cup {None}]
    BY <1>1, <1>5, <1>6
  <2>. QED BY <1>1, <1>8, <1>14, <2>1 DEF Shapes, Shifted, Pool
<1>19. Settled'
  <2>1. \A x \in connections_' : Accepted(x)'
    BY <1>1, <1>11 DEF Shapes, Settled
  <2>2. \A x \in Conns : Accepted(x)' => Rec(conn'[x]) /\ conn'[x].posts = <<>>
    BY <1>1, <1>4, <1>10, <1>11 DEF Settled
  <2>3. \A x \in Conns : revents'[x] # {} =>
          Accepted(x)' /\ conn'[x].channel.index = "kAdded"
    BY <1>1, <1>3, <1>10, <1>11 DEF Settled
  <2>. QED BY <2>1, <2>2, <2>3 DEF Settled
<1>20. Used'
  <2>1. ASSUME NEW x \in Conns, NEW u \in Users, user'[x][u] # "none"
        PROVE  /\ Accepted(x)' /\ conn'[x].state # "kConnecting"
               /\ u \in setup'.users
    <3>1. setup' = setup
      BY <1>3
    <3>2. CASE x = c
      BY <1>3, <1>4, <1>10, <1>11, <1>14, <2>1, <3>1, <3>2
    <3>3. CASE x # c
      <4>1. Accepted(x) /\ conn[x].state # "kConnecting" /\ u \in setup.users
        BY <1>1, <1>14, <2>1, <3>3 DEF Used
      <4>. QED BY <1>10, <1>11, <3>1, <3>3, <4>1
    <3>. QED BY <3>2, <3>3
  <2>. QED BY <2>1 DEF Used
<1>. QED BY <1>13, <1>16, <1>17, <1>18, <1>19, <1>20, InvFromMoves

\* The functor that a loop calls, and what the call does.
Called(l, op, c) ==
  \/ /\ op = "connectEstablished" /\ UNCHANGED connections_
     /\ Leave(c, ConnectEstablished(conn[c]), Popped(l))
  \/ /\ UNCHANGED connections_
     /\ \E s : Outcome(op, c, s) /\ Leave(c, s, Popped(l))
  \/ /\ op = "removeConnection"
     /\ connections_' = connections_ \ {c}
     /\ queue' = [Popped(l) EXCEPT ![conn[c].loop] =
                    Append(@, Functor("connectDestroyed", c))]
     /\ UNCHANGED <<conn, user>>

LEMMA ExecuteFacts ==
  ASSUME NEW l \in Loops, Execute(l)
  PROVE  /\ queue[l] # <<>> /\ NoneActive(l)
         /\ UNCHANGED <<setup, up, next_, revents, requests>>
         /\ \E op, c : FirstIs(l, op, c) /\ Called(l, op, c)
<1>1. /\ queue[l] # <<>> /\ NoneActive(l)
      /\ UNCHANGED <<setup, up, next_, revents, requests>>
  BY Zenon DEF Execute, NoneActive
<1>2. Called(l, First(l).op, First(l).conn)
  BY Zenon DEF Execute, Called, Outcome, First, Popped
<1>3. FirstIs(l, First(l).op, First(l).conn)
  BY DEF FirstIs
<1>. QED BY Zenon, <1>1, <1>2, <1>3

LEMMA ExecuteStep ==
  ASSUME ServerInv, NEW l \in Loops, Execute(l)
  PROVE  ServerInv'
<1>1. /\ queue[l] # <<>> /\ NoneActive(l)
      /\ UNCHANGED <<setup, up, next_, revents, requests>>
      /\ \E op, c : FirstIs(l, op, c) /\ Called(l, op, c)
  BY ExecuteFacts
<1>2. PICK op, c : FirstIs(l, op, c) /\ Called(l, op, c)
  BY <1>1
<1>3. CASE /\ op = "connectEstablished" /\ UNCHANGED connections_
           /\ Leave(c, ConnectEstablished(conn[c]), Popped(l))
  BY <1>1, <1>2, <1>3, EstablishStep
<1>4. ASSUME UNCHANGED connections_,
             NEW s, Outcome(op, c, s), Leave(c, s, Popped(l))
      PROVE  ServerInv'
  BY <1>1, <1>2, <1>4, FunctorStep
<1>5. CASE /\ op = "removeConnection"
           /\ connections_' = connections_ \ {c}
           /\ queue' = [Popped(l) EXCEPT ![conn[c].loop] =
                          Append(@, Functor("connectDestroyed", c))]
           /\ UNCHANGED <<conn, user>>
  BY <1>1, <1>2, <1>5, RemoveStep
<1>. QED BY <1>2, <1>3, <1>4, <1>5 DEF Called

------------------------------------------------------------------------------
\* The base loop accepts a connection.

LEMMA NewConnectionKept ==
  ASSUME NEW loop \in Loops
  PROVE  LET s == NewConnection(loop)
         IN  /\ Rec(s) /\ Kept(s) /\ s.posts = <<>> /\ s.loop = loop
             /\ s.state = "kConnecting"
<1> DEFINE s == NewConnection(loop)
<1>1. NewChannel \in ChannelType /\ Consistent(NewChannel)
      /\ NewChannel.index = "kNew" /\ NewChannel.events = {}
  BY DEF NewChannel, ChannelType, Consistent
<1>2. <<>> \in Seq(Nat) /\ Len(<<>>) = 0 /\ <<>> \in Posts
  BY DEF Posts
<1>3. /\ s.loop = loop /\ s.state = "kConnecting" /\ s.channel = NewChannel
      /\ s.out = <<>> /\ s.peer = "open" /\ s.shut = FALSE /\ s.taken = 0
      /\ s.wire = <<>> /\ s.ups = 0 /\ s.downs = 0 /\ s.posts = <<>>
  BY DEF NewConnection
<1>4. s \in HandlerType
  BY <1>1, <1>2 DEF NewConnection, HandlerType, States, Peers
<1> HIDE DEF s
<1>5. Numbered(s) /\ Registered(s) /\ PostsOnce(s)
  BY <1>1, <1>2, <1>3 DEF Numbered, Registered, PostsOnce
<1>6. Kept(s)
  BY <1>3 DEF Kept, ShutdownWaits
<1>. QED BY <1>3, <1>4, <1>5, <1>6 DEF Rec, s

\* A connection joins, up already or with its connectEstablished queued.
LEMMA JoinStep ==
  ASSUME ServerInv, NEW c \in Conns, ~Accepted(c), NEW s, NEW m \in Loops,
         Rec(s), Kept(s), s.posts = <<>>, s.loop = m,
         connections_' = connections_ \cup {c},
         conn' = [conn EXCEPT ![c] = s],
         \/ s.state = "kConnected" /\ queue' = queue /\ user' = Given(c)
         \/ /\ s.state = "kConnecting" /\ m # Base
            /\ queue' = [queue EXCEPT ![m] =
                           Append(@, Functor("connectEstablished", c))]
            /\ user' = user,
         next_' \in Nat, next_' < Len(Pool) \/ next_' = 0,
         UNCHANGED <<setup, up, revents, requests>>
  PROVE  ServerInv'
<1>1. /\ LoopsInv /\ LoneInv /\ UnsharedInv /\ Shapes /\ Settled /\ Used
      /\ InItsQueue
      /\ queue \in [Loops -> Seq(Functors)]
      /\ conn \in [Conns -> HandlerType \cup {None}]
      /\ user \in [Conns -> [Users -> {"none", "idle", "send", "shutdown"}]]
      /\ connections_ \subseteq Conns /\ IsFiniteSet(connections_)
  BY DEF ServerInv, LoopsInv, Shapes
<1> DEFINE f == Functor("connectEstablished", c)
           new == IF s.state = "kConnected" THEN NoNew ELSE NewAt(m, f)
<1>2. f \in Functors /\ f.op = "connectEstablished" /\ f.conn = c
  BY DEF Functor, Functors, Ops
<1>3. Shifted(NoDrop, new)
  <2>1. NoDrop \in [Loops -> {0, 1}] /\ Rest(NoDrop, queue)
    BY <1>1, RestFacts
  <2> HIDE DEF f
  <2>2. CASE s.state = "kConnected"
    BY <1>1, <2>1, <2>2, ShiftedByOne
  <2>3. CASE s.state # "kConnected"
    <3>1. queue' = [queue EXCEPT ![m] = Append(@, f)]
      BY <2>3 DEF f
    <3>. QED BY <1>1, <1>2, <2>1, <2>3, <3>1, ShiftedByOne
  <2>. QED BY <2>2, <2>3
<1>4. /\ \A l \in Loops : NoDrop[l] = 0
      /\ \A l \in Loops : \A g : g \in new[l] =>
           s.state = "kConnecting" /\ m # Base /\ l = m /\ g = f
      /\ s.state = "kConnecting" => m # Base /\ f \in new[m]
  BY DEF NoDrop, NoNew, NewAt
<1> HIDE DEF f, new
<1>5. s \in HandlerType /\ s # None /\ s.state \in {"kConnecting", "kConnected"}
  BY NotNone DEF Rec, HandlerType
<1>6. conn'[c] = s /\ \A x \in Conns : x # c => conn'[x] = conn[x]
  BY <1>1
<1>7. Accepted(c)' /\ \A x \in Conns : x # c => (Accepted(x)' <=> Accepted(x))
  BY <1>5, <1>6 DEF Accepted
<1>8. ASSUME NEW x \in Conns, Accepted(x)
      PROVE  x # c /\ conn[x].loop \in Loops /\ NoDrop[conn[x].loop] # 1
  <2>1. x # c
    BY <1>1, <1>8
  <2>2. conn[x].loop \in Loops
    BY <1>1, <1>8 DEF Settled, Rec, HandlerType
  <2>. QED BY <1>4, <2>1, <2>2
<1>9. Moves(NoDrop, new)
  <2>1. ASSUME NEW x \in Conns, Accepted(x)
        PROVE  /\ Accepted(x)' /\ conn'[x].loop = conn[x].loop
               /\ conn'[x].state = "kConnecting" <=> conn[x].state = "kConnecting"
               /\ NoDrop[conn[x].loop] # 1
    BY <1>6, <1>7, <1>8, <2>1
  <2>2. ASSUME NEW x \in Conns, ~Accepted(x), Accepted(x)',
               conn'[x].state = "kConnecting"
        PROVE  /\ conn'[x].loop \in Loops \ {Base}
               /\ Functor("connectEstablished", x) \in new[conn'[x].loop]
    <3>1. x = c /\ s.state = "kConnecting"
      BY <1>6, <1>7, <2>2
    <3>. QED BY <1>4, <1>6, <3>1 DEF f
  <2>3. ASSUME NEW l \in Loops, NEW g \in new[l]
        PROVE  /\ g \in Functors /\ Accepted(g.conn)'
               /\ g.op = "connectEstablished" /\ l = conn'[g.conn].loop
               /\ ~Accepted(g.conn) /\ conn'[g.conn].state = "kConnecting"
               /\ \A h \in new[l] : h = g
    BY <1>2, <1>4, <1>6, <1>7, <2>3
  <2>. QED BY <1>3, <2>1, <2>2, <2>3 DEF Moves
<1>10. /\ \A x \in Conns : x # c => user'[x] = user[x]
       /\ \A u \in Users : user'[c][u] # "none" =>
            s.state = "kConnected" /\ u \in setup.users
       /\ user' \in [Conns -> [Users -> {"none", "idle", "send", "shutdown"}]]
  <2>1. \A u \in Users : user[c][u] = "none"
    BY <1>1 DEF Used
  <2>2. CASE user' = user
    BY <1>1, <2>1, <2>2
  <2>3. CASE s.state = "kConnected" /\ user' = Given(c)
    BY <1>1, <2>3, GivenFacts
  <2>. QED BY <2>2, <2>3
<1>11. ASSUME NEW x \in Conns, Lone, SendPending(x)'
       PROVE  ShutdownWaits(conn'[x])
  <2>1. CASE x = c
    BY <1>5, <1>6, <2>1 DEF ShutdownWaits
  <2>2. CASE x # c
    <3>1. ASSUME NEW k \in Loops, Queued(k, Functor("sendInLoop", x))'
          PROVE  Queued(k, Functor("sendInLoop", x))
      <4>1. Functor("sendInLoop", x).op = "sendInLoop"
        BY DEF Functor
      <4>. QED BY <1>1, <1>2, <1>3, <1>4, <3>1, <4>1, QueuedAfter
    <3>2. SendPending(x)
      BY <1>10, <1>11, <2>2, <3>1 DEF SendPending
    <3>. QED BY <1>1, <1>6, <1>11, <2>2, <3>2 DEF LoneInv
  <2>. QED BY <2>1, <2>2
<1>12. SharedMoves(NoDrop, new)
  <2>1. ASSUME NEW x \in Conns, Accepted(x)'
        PROVE  \/ x \in connections_'
               \/ /\ conn'[x].channel.index = "kNew"
                  /\ conn'[x].state # "kConnecting"
               \/ /\ Accepted(x) /\ x \notin connections_
                  /\ \/ conn[x].channel.index # "kNew"
                     \/ conn[x].state = "kConnecting"
                  /\ NoDrop[conn[x].loop] # 1
    BY <1>6, <1>7, <1>8, <2>1
  <2>2. \A x \in Conns : (\E u \in Users : user'[x][u] # "none") =>
          (\E u \in Users : user[x][u] # "none") \/ ~Accepted(x)
    BY <1>10
  <2>3. \A l \in Loops : \A g \in new[l] :
          g.op \notin {"sendInLoop", "shutdownInLoop"}
    BY <1>2, <1>4
  <2>. QED BY <1>11, <2>1, <2>2, <2>3 DEF SharedMoves
<1>13. UnsharedMoves
  BY <1>1, <1>6, <1>7 DEF UnsharedInv, UnsharedMoves
<1>14. Shapes'
  <2>1. conn' \in [Conns -> HandlerType \cup {None}]
    BY <1>1, <1>5
  <2>2. connections_' \subseteq Conns /\ IsFiniteSet(connections_')
    BY <1>1, FS_AddElement
  <2>3. queue' \in [Loops -> Seq(Functors)]
    BY <1>3 DEF Shifted
  <2>. QED BY <1>1, <1>10, <2>1, <2>2, <2>3 DEF Shapes, Pool
<1>15. Settled'
  <2>1. \A x \in connections_' : Accepted(x)'
    BY <1>1, <1>7 DEF Settled
  <2>2. \A x \in Conns : Accepted(x)' => Rec(conn'[x]) /\ conn'[x].posts = <<>>
    BY <1>1, <1>6, <1>7 DEF Settled
  <2>3. \A x \in Conns : revents'[x] # {} =>
          Accepted(x)' /\ conn'[x].channel.index = "kAdded"
    BY <1>1, <1>6, <1>7 DEF Settled
  <2>. QED BY <2>1, <2>2, <2>3 DEF Settled
<1>16. Used'
  <2>1. ASSUME NEW x \in Conns, NEW u \in Users, user'[x][u] # "none"
        PROVE  /\ Accepted(x)' /\ conn'[x].state # "kConnecting"
               /\ u \in setup'.users
    BY <1>1, <1>6, <1>7, <1>10, <2>1 DEF Used
  <2>. QED BY <2>1 DEF Used
<1>. QED BY <1>9, <1>12, <1>13, <1>14, <1>15, <1>16, InvFromMoves

LEMMA AcceptStep ==
  ASSUME ServerInv, NEW c \in Conns, Accept(c)
  PROVE  ServerInv'
<1>1. setup \in Setups /\ next_ \in Nat /\ (next_ < Len(Pool) \/ next_ = 0)
  BY DEF ServerInv, LoopsInv, Shapes
<1>2. Pool \in Seq(ToSet(Pool)) /\ ToSet(Pool) \subseteq Loops
  BY <1>1, ServerAssumption DEF Pool, Loops
<1>3. PICK m \in Loops :
        /\ NewConnectionOn(c, m)
        /\ next_' \in Nat /\ (next_' < Len(Pool) \/ next_' = 0)
  <2>1. CASE Pool = <<>>
    BY <1>1, <2>1 DEF Accept, Loops
  <2>2. CASE Pool # <<>>
    <3>1. Len(Pool) \in Nat /\ Len(Pool) > 0
      BY <1>2, <2>2
    <3>2. next_ \in Nat /\ next_ + 1 \in 1..Len(Pool)
      BY <1>1, <3>1
    <3>3. Pool[next_ + 1] \in Loops
      BY <1>2, <3>2
    <3>4. /\ NewConnectionOn(c, Pool[next_ + 1])
          /\ next_' = IF next_ + 1 >= Len(Pool) THEN 0 ELSE next_ + 1
      BY <2>2 DEF Accept
    <3>5. next_' \in Nat /\ (next_' < Len(Pool) \/ next_' = 0)
      BY <3>1, <3>2, <3>4
    <3>. QED BY <3>3, <3>4, <3>5
  <2>. QED BY <2>1, <2>2
<1>4. UNCHANGED <<setup, up, revents, requests>> /\ ~Accepted(c)
      /\ connections_' = connections_ \cup {c}
  BY <1>3 DEF Accept, NewConnectionOn
<1> DEFINE s == NewConnection(m)
<1>5. /\ Rec(s) /\ Kept(s) /\ s.posts = <<>> /\ s.loop = m
      /\ s.state = "kConnecting"
  BY NewConnectionKept
<1> HIDE DEF s
<1>6. CASE m = Base
  <2> DEFINE t == ConnectEstablished(s)
  <2>1. /\ Rec(t) /\ Kept(t) /\ t.posts = <<>> /\ t.loop = m
        /\ t.state = "kConnected"
    BY <1>5, EstablishedHandled
  <2>2. conn' = [conn EXCEPT ![c] = t] /\ user' = Given(c) /\ queue' = queue
    BY <1>3, <1>6 DEF NewConnectionOn, s
  <2> HIDE DEF t
  <2>. QED BY <1>3, <1>4, <2>1, <2>2, JoinStep
<1>7. CASE m # Base
  <2>1. /\ conn' = [conn EXCEPT ![c] = s] /\ user' = user
        /\ queue' = [queue EXCEPT ![m] =
                       Append(@, Functor("connectEstablished", c))]
    BY <1>3, <1>7 DEF NewConnectionOn, s
  <2>. QED BY <1>3, <1>4, <1>5, <1>7, <2>1, JoinStep
<1>. QED BY <1>6, <1>7

------------------------------------------------------------------------------
\* The server is destroyed.

LEMMA SetToSeqFacts ==
  ASSUME NEW S, IsFiniteSet(S)
  PROVE  /\ SetToSeq(S) \in Seq(S)
         /\ \A i, j \in 1..Len(SetToSeq(S)) :
              SetToSeq(S)[i] = SetToSeq(S)[j] => i = j
         /\ \A f : f \in S <=> \E i \in 1..Len(SetToSeq(S)) : SetToSeq(S)[i] = f
<1> DEFINE n == Cardinality(S)
           q == SetToSeq(S)
<1>1. n \in Nat /\ ExistsBijection(1..n, S)
  BY FS_CardinalityType
<1> HIDE DEF n
<1>2. PICK g : g \in Bijection(1..n, S)
  BY <1>1 DEF ExistsBijection
<1>3. /\ g \in [1..n -> S] /\ IsInjective(g)
  BY <1>2 DEF Bijection, Injection
<1>4. q \in [1..n -> S] /\ IsInjective(q)
  BY <1>3 DEF SetToSeq, n
<1> HIDE DEF q
<1>5. q \in Injection(1..n, S)
  BY <1>4 DEF Injection
<1>6. IsFiniteSet(1..n) /\ Cardinality(1..n) = n
  <2>1. 1..n = 1..n /\ 1 \in Int /\ n \in Int
    BY <1>1
  <2>2. IsFiniteSet(1..n) /\ Cardinality(1..n) = IF 1 > n THEN 0 ELSE n - 1 + 1
    BY <2>1, FS_Interval
  <2>. QED BY <1>1, <2>2
<1>7. q \in Surjection(1..n, S)
  BY <1>5, <1>6, FS_Injection DEF n
<1>8. \A f \in S : \E i \in 1..n : q[i] = f
  BY <1>7 DEF Surjection
<1>9. q \in Seq(S) /\ Len(q) = n
  BY <1>1, <1>4
<1>10. \A i, j \in 1..n : q[i] = q[j] => i = j
  BY <1>4 DEF IsInjective
<1>. QED BY <1>4, <1>8, <1>9, <1>10 DEF q

\* The functors that ~TcpServer queues in loop l.
Farewells(l) ==
  { Functor("connectDestroyed", c) :
      c \in { d \in connections_ : conn[d].loop = l /\ l # Base } }

LEMMA FarewellsFacts ==
  ASSUME Shapes, NEW l \in Loops
  PROVE  /\ IsFiniteSet(Farewells(l)) /\ Farewells(l) \subseteq Functors
         /\ \A g : g \in Farewells(l) <=>
              \E c \in connections_ : /\ conn[c].loop = l /\ l # Base
                                      /\ g = Functor("connectDestroyed", c)
<1> DEFINE D == { d \in connections_ : conn[d].loop = l /\ l # Base }
           h == [c \in D |-> Functor("connectDestroyed", c)]
<1>1. IsFiniteSet(D) /\ D \subseteq Conns
  BY FS_Subset DEF Shapes
<1>2. Farewells(l) = { Functor("connectDestroyed", c) : c \in D }
  BY DEF Farewells
<1>3. \A g : g \in Farewells(l) <=> \E c \in D : g = h[c]
  BY <1>2
<1>4. h \in Surjection(D, Farewells(l))
  BY <1>3 DEF Surjection
<1>5. IsFiniteSet(Farewells(l))
  BY <1>1, <1>4, FS_Surjection
<1>6. Farewells(l) \subseteq Functors
  BY <1>1, <1>2 DEF Functor, Functors, Ops
<1>. QED BY <1>2, <1>5, <1>6

LEMMA ServerDestroyedStep ==
  ASSUME ServerInv, ServerDestroyed
  PROVE  ServerInv'
<1>1. /\ LoopsInv /\ LoneInv /\ UnsharedInv /\ Shapes /\ Settled /\ Used
      /\ EstablishedFirst
      /\ queue \in [Loops -> Seq(Functors)]
      /\ conn \in [Conns -> HandlerType \cup {None}]
      /\ connections_ \subseteq Conns /\ Base \in Loops
  BY DEF ServerInv, LoopsInv, Shapes, Loops
<1>2. /\ \A x \in OnLoop(Base) : revents[x] = {}
      /\ up' = FALSE /\ connections_' = {}
      /\ conn' = [c \in Conns |->
                    IF c \in connections_ /\ conn[c].loop = Base
                    THEN ConnectDestroyed(conn[c]) ELSE conn[c]]
      /\ queue' = [l \in Loops |-> queue[l] \o SetToSeq(Farewells(l))]
      /\ UNCHANGED <<setup, next_, revents, requests, user>>
  BY DEF ServerDestroyed, Farewells
<1> DEFINE new == [l \in Loops |-> Farewells(l)]
           t == [l \in Loops |-> SetToSeq(Farewells(l))]
<1>3. ASSUME NEW l \in Loops
      PROVE  /\ t[l] \in Seq(Functors)
             /\ queue'[l] = queue[l] \o t[l] /\ queue'[l] \in Seq(Functors)
             /\ \A i, j \in 1..Len(t[l]) : t[l][i] = t[l][j] => i = j
             /\ \A f : f \in new[l] <=> \E i \in 1..Len(t[l]) : t[l][i] = f
  <2> DEFINE S == Farewells(l)
  <2>1. IsFiniteSet(S) /\ S \subseteq Functors
    BY <1>1, FarewellsFacts
  <2>2. t[l] = SetToSeq(S) /\ new[l] = S /\ queue'[l] = queue[l] \o t[l]
    BY <1>2
  <2> HIDE DEF S, t, new
  <2>3. /\ SetToSeq(S) \in Seq(S)
        /\ \A i, j \in 1..Len(SetToSeq(S)) :
             SetToSeq(S)[i] = SetToSeq(S)[j] => i = j
        /\ \A f : f \in S <=> \E i \in 1..Len(SetToSeq(S)) : SetToSeq(S)[i] = f
    BY <2>1, SetToSeqFacts
  <2>4. t[l] \in Seq(Functors)
    BY <2>1, <2>2, <2>3
  <2>5. queue[l] \in Seq(Functors)
    BY <1>1
  <2>6. queue'[l] \in Seq(Functors)
    BY <2>2, <2>4, <2>5
  <2>7. \A i, j \in 1..Len(t[l]) : t[l][i] = t[l][j] => i = j
    BY <2>2, <2>3
  <2>8. \A f : f \in new[l] <=> \E i \in 1..Len(t[l]) : t[l][i] = f
    BY <2>2, <2>3
  <2>. QED BY <2>2, <2>4, <2>6, <2>7, <2>8
<1>4. \A l \in Loops : \A g : g \in new[l] <=>
        \E c \in connections_ : /\ conn[c].loop = l /\ l # Base
                                /\ g = Functor("connectDestroyed", c)
  BY <1>1, FarewellsFacts
<1> HIDE DEF t, new
<1>5. Joining(queue, t, new)
  <2>1. queue' \in [Loops -> Seq(Functors)]
    BY <1>2, <1>3
  <2>. QED BY <1>3, <2>1 DEF Joining
<1>6. Shifted(NoDrop, new)
  <2>1. NoDrop \in [Loops -> {0, 1}] /\ Rest(NoDrop, queue)
    BY <1>1, RestFacts
  <2>. QED BY <1>1, <1>5, <2>1, ShiftedByLists
<1>7. \A l \in Loops : NoDrop[l] # 1
  BY DEF NoDrop
<1>8. ASSUME NEW x \in Conns
      PROVE  \/ /\ x \in connections_ /\ Accepted(x) /\ conn[x].loop = Base
                /\ conn'[x] = ConnectDestroyed(conn[x])
                /\ conn[x].state # "kConnecting"
                /\ Handled(conn[x], conn'[x]) /\ conn'[x].posts = <<>>
                /\ conn'[x].channel.index = "kNew"
                /\ conn'[x] \in HandlerType /\ conn'[x] # None
                /\ revents[x] = {}
             \/ ~(x \in connections_ /\ conn[x].loop = Base) /\ conn'[x] = conn[x]
  <2>1. CASE ~(x \in connections_ /\ conn[x].loop = Base)
    BY <1>2, <2>1
  <2>2. CASE x \in connections_ /\ conn[x].loop = Base
    <3>1. /\ Accepted(x) /\ Rec(conn[x]) /\ conn[x].posts = <<>>
          /\ conn[x].state # "kConnecting"
      BY <1>1, <2>2 DEF Settled, EstablishedFirst
    <3>2. conn'[x] = ConnectDestroyed(conn[x])
      BY <1>2, <2>2
    <3>3. /\ Handled(conn[x], conn'[x]) /\ conn'[x].posts = <<>>
          /\ conn'[x].channel.index = "kNew"
      BY <3>1, <3>2, DestroyedHandled
    <3>4. conn'[x] \in HandlerType /\ conn'[x] # None
      BY <3>3, NotNone DEF Handled, Rec, HandlerType
    <3>5. revents[x] = {}
      BY <1>2, <2>2, <3>1 DEF OnLoop, Live, Referenced
    <3>. QED BY <2>2, <3>1, <3>2, <3>3, <3>4, <3>5
  <2>. QED BY <2>1, <2>2
<1>9. \A x \in Conns : (Accepted(x)' <=> Accepted(x))
  BY <1>8 DEF Accepted
<1>10. ASSUME NEW x \in Conns, Accepted(x)
       PROVE  /\ conn[x].loop \in Loops /\ conn'[x].loop = conn[x].loop
              /\ conn'[x].state = "kConnecting" <=> conn[x].state = "kConnecting"
  BY <1>1, <1>8, <1>10 DEF Settled, Rec, HandlerType, Handled
<1>11. Moves(NoDrop, new)
  <2>1. ASSUME NEW l \in Loops, NEW g \in new[l]
        PROVE  /\ g \in Functors /\ Accepted(g.conn)'
               /\ g.op = "connectDestroyed" /\ l = conn'[g.conn].loop
    <3>1. PICK c \in connections_ :
            conn[c].loop = l /\ g = Functor("connectDestroyed", c)
      BY <1>4, <2>1
    <3>2. g \in Functors /\ g.op = "connectDestroyed" /\ g.conn = c
      BY <1>1, <3>1 DEF Functor, Functors, Ops
    <3>3. Accepted(c) /\ c \in Conns
      BY <1>1 DEF Settled
    <3>. QED BY <1>9, <1>10, <3>1, <3>2, <3>3
  <2>. QED BY <1>6, <1>7, <1>9, <1>10, <2>1 DEF Moves
<1>12. ASSUME NEW x \in Conns, Lone, SendPending(x)'
       PROVE  ShutdownWaits(conn'[x])
  <2>1. SendPending(x)
    <3>1. ASSUME NEW l \in Loops, Queued(l, Functor("sendInLoop", x))'
          PROVE  Queued(l, Functor("sendInLoop", x))
      <4>1. \/ Queued(l, Functor("sendInLoop", x))
            \/ Functor("sendInLoop", x) \in new[l]
        BY <1>1, <1>6, <3>1, QueuedAfter
      <4>. QED BY <1>4, <4>1 DEF Functor
    <3>. QED BY <1>2, <1>12, <3>1 DEF SendPending
  <2>2. ShutdownWaits(conn[x])
    BY <1>1, <1>12, <2>1 DEF LoneInv
  <2>. QED BY <1>8, <2>2 DEF Handled
<1>13. SharedMoves(NoDrop, new)
  <2>1. ASSUME Lone, NEW x \in Conns, Accepted(x)'
        PROVE  \/ /\ conn'[x].channel.index = "kNew"
                  /\ conn'[x].state # "kConnecting"
               \/ /\ conn'[x].loop \in Loops
                  /\ Functor("connectDestroyed", x) \in new[conn'[x].loop]
               \/ /\ Accepted(x) /\ x \notin connections_
                  /\ \/ conn[x].channel.index # "kNew"
                     \/ conn[x].state = "kConnecting"
                  /\ NoDrop[conn[x].loop] # 1
    <3>1. CASE x \in connections_ /\ conn[x].loop = Base
      BY <1>8, <1>10, <3>1
    <3>2. CASE x \in connections_ /\ conn[x].loop # Base
      BY <1>4, <1>9, <1>10, <2>1, <3>2
    <3>3. CASE x \notin connections_
      BY <1>7, <1>8, <1>9, <1>10, <2>1, <3>3
    <3>. QED BY <3>1, <3>2, <3>3
  <2>2. ASSUME NEW l \in Loops, NEW g \in new[l]
        PROVE  g.op \notin {"sendInLoop", "shutdownInLoop"}
    BY <1>4, <2>2 DEF Functor
  <2>. QED BY <1>2, <1>12, <2>1, <2>2 DEF SharedMoves
<1>14. UnsharedMoves
  <2>1. ASSUME Unshared, NEW x \in Conns, Accepted(x)  PROVE Kept(conn'[x])
    <3>1. Kept(conn[x])
      BY <1>1, <2>1 DEF UnsharedInv
    <3>. QED BY <1>8, <3>1 DEF Handled
  <2>. QED BY <1>9, <2>1 DEF UnsharedMoves
<1>15. Shapes'
  <2>1. conn' \in [Conns -> HandlerType \cup {None}]
    <3>1. \A x \in Conns : conn'[x] \in HandlerType \cup {None}
      BY <1>1, <1>8
    <3>. QED BY <1>2, <3>1
  <2>2. connections_' \subseteq Conns /\ IsFiniteSet(connections_')
    BY <1>2, FS_EmptySet
  <2>3. queue' \in [Loops -> Seq(Functors)]
    BY <1>6 DEF Shifted
  <2>. QED BY <1>1, <1>2, <2>1, <2>2, <2>3 DEF Shapes, Pool
<1>16. Settled'
  <2>1. \A x \in connections_' : Accepted(x)'
    BY <1>2
  <2>2. \A x \in Conns : Accepted(x)' => Rec(conn'[x]) /\ conn'[x].posts = <<>>
    BY <1>1, <1>8, <1>9 DEF Settled, Handled
  <2>3. \A x \in Conns : revents'[x] # {} =>
          Accepted(x)' /\ conn'[x].channel.index = "kAdded"
    BY <1>1, <1>2, <1>8, <1>9 DEF Settled
  <2>. QED BY <2>1, <2>2, <2>3 DEF Settled
<1>17. Used'
  <2>1. ASSUME NEW x \in Conns, NEW u \in Users, user'[x][u] # "none"
        PROVE  /\ Accepted(x)' /\ conn'[x].state # "kConnecting"
               /\ u \in setup'.users
    BY <1>1, <1>2, <1>9, <1>10, <2>1 DEF Used
  <2>. QED BY <2>1 DEF Used
<1>. QED BY <1>2, <1>11, <1>13, <1>14, <1>15, <1>16, <1>17, InvFromMoves

------------------------------------------------------------------------------
\* The inductive invariant.

LEMMA InitInv ==
  ASSUME Init
  PROVE  ServerInv
<1> USE DEF Init
<1>1. \A c \in Conns : conn[c] = None
  OBVIOUS
<1>2. \A l \in Loops : queue[l] = <<>>
  OBVIOUS
<1>3. Shapes
  <2>1. <<>> \in Seq(Functors) /\ IsFiniteSet({})
    BY FS_EmptySet
  <2>2. requests \in [Conns -> 0..setup.requests]
    <3>1. setup.requests \in Nat
      BY ServerAssumption
    <3>. QED BY <3>1
  <2>. QED BY <2>1, <2>2 DEF Shapes
<1>4. \A c \in Conns : ~Accepted(c)
  BY <1>1 DEF Accepted
<1>5. \A l \in Loops : DOMAIN queue[l] = {}
  BY <1>2
<1>6. \A l \in Loops : \A f : ~Queued(l, f)
  BY <1>5 DEF Queued
<1>7. Settled /\ InItsQueue /\ EstablishedFirst /\ Used
  BY <1>4, <1>5 DEF Settled, InItsQueue, EstablishedFirst, Used
<1>8. LoneInv
  BY <1>4, <1>6 DEF LoneInv, SendPending
<1>9. UnsharedInv
  BY <1>4, <1>6 DEF UnsharedInv
<1>. QED BY <1>3, <1>7, <1>8, <1>9 DEF ServerInv, LoopsInv

LEMMA NextInv ==
  ASSUME ServerInv, [Next]_vars
  PROVE  ServerInv'
<1>1. CASE UNCHANGED vars
  BY <1>1, StutterStep
<1>2. ASSUME NEW c \in Conns, Accept(c)  PROVE ServerInv'
  BY <1>2, AcceptStep
<1>3. ASSUME NEW c \in Conns, Client(c)  PROVE ServerInv'
  BY <1>3, ClientStep
<1>4. ASSUME NEW c \in Conns, NEW u \in Users, User(c, u)  PROVE ServerInv'
  BY <1>4, UserStep
<1>5. ASSUME NEW l \in Loops, LoopStep(l)  PROVE ServerInv'
  BY <1>5, PollStep, HandleStep, ExecuteStep DEF LoopStep
<1>6. CASE ServerDestroyed
  BY <1>6, ServerDestroyedStep
<1>. QED BY <1>1, <1>2, <1>3, <1>4, <1>5, <1>6 DEF Next

\* For any setups: connections, queues and threads stand to one another as
\* ServerInv says, whatever the loops, the clients and the threads do.
THEOREM ServerInvariant == Spec => []ServerInv
<1>1. Init => ServerInv
  BY InitInv
<1>2. ServerInv /\ [Next]_vars => ServerInv'
  BY NextInv
<1>. QED BY <1>1, <1>2, PTL DEF Spec

------------------------------------------------------------------------------
\* The properties.

\* Every variable has the type of the member that it models, with any number
\* of connections, loops and threads.
THEOREM ServerTypeCorrect == Spec => []TypeOK
<1>1. ASSUME ServerInv  PROVE TypeOK
  <2>1. Shapes /\ Settled
    BY <1>1 DEF ServerInv, LoopsInv
  <2>2. ASSUME NEW c \in Conns  PROVE conn[c] \in ConnType \cup {None}
    <3>1. CASE ~Accepted(c)
      BY <3>1 DEF Accepted
    <3>2. CASE Accepted(c)
      <4>1. conn[c] \in HandlerType /\ conn[c].posts = <<>>
        BY <2>1, <3>2 DEF Settled, Rec
      <4>. QED BY <4>1 DEF HandlerType, ConnType, States, Peers
    <3>. QED BY <3>1, <3>2
  <2>. QED BY <2>1, <2>2 DEF Shapes, TypeOK, Functors
<1>. QED BY <1>1, ServerInvariant, PTL

\* Whatever short writes, direct writes and buffered sends come together, and
\* whichever thread calls send, the client gets a prefix of the bytes that
\* sendInLoop took, in order, and the output buffer holds what comes next.
THEOREM ServerStreamInOrder == Spec => []StreamInOrder
<1>1. ASSUME ServerInv  PROVE StreamInOrder
  <2>1. ASSUME NEW c \in Conns, Accepted(c),
               NEW i \in 1..Len(conn[c].wire \o conn[c].out)
        PROVE  (conn[c].wire \o conn[c].out)[i] = i
    <3> DEFINE w == conn[c].wire
               o == conn[c].out
    <3>1. Rec(conn[c])
      BY <1>1, <2>1 DEF ServerInv, LoopsInv, Settled
    <3>2. w \in Seq(Nat) /\ o \in Seq(Nat)
      BY <3>1 DEF Rec, HandlerType
    <3>3. /\ \A k \in 1..Len(w) : w[k] = k
          /\ \A k \in 1..Len(o) : o[k] = Len(w) + k
      BY <3>1 DEF Rec, Numbered
    <3>4. i \in 1..Len(w \o o)
      BY <2>1
    <3> HIDE DEF w, o
    <3>5. Len(w) \in Nat /\ Len(o) \in Nat /\ i \in 1..(Len(w) + Len(o))
      BY <3>2, <3>4
    <3>6. CASE i <= Len(w)
      <4>1. (w \o o)[i] = w[i] /\ i \in 1..Len(w)
        BY <3>2, <3>5, <3>6
      <4>. QED BY <3>3, <4>1 DEF w, o
    <3>7. CASE ~(i <= Len(w))
      <4>1. (w \o o)[i] = o[i - Len(w)] /\ i - Len(w) \in 1..Len(o)
        BY <3>2, <3>5, <3>7
      <4>2. o[i - Len(w)] = Len(w) + (i - Len(w))
        BY <3>3, <4>1
      <4>3. Len(w) + (i - Len(w)) = i
        BY <3>5
      <4>. QED BY <4>1, <4>2, <4>3 DEF w, o
    <3>. QED BY <3>6, <3>7
  <2>. QED BY <2>1 DEF StreamInOrder
<1>. QED BY <1>1, ServerInvariant, PTL

\* As long as at most one thread other than the loops uses a connection: when
\* its last shared_ptr goes, neither the poller nor the active channels of its
\* loop hold a pointer to its channel.
THEOREM ServerNoDanglingChannel == Spec => []NoDanglingChannel
<1>1. ASSUME ServerInv  PROVE NoDanglingChannel
  <2>1. ASSUME Lone, NEW c \in Conns, Destroyed(c)
        PROVE  /\ ~conn[c].channel.inEpoll
               /\ ~conn[c].channel.channels
               /\ revents[c] = {}
    <3>1. Accepted(c) /\ ~Referenced(c)
      BY <2>1 DEF Destroyed
    <3>2. Rec(conn[c]) /\ conn[c].loop \in Loops
      BY <1>1, <3>1 DEF ServerInv, LoopsInv, Settled, Rec, HandlerType
    <3>3. c \notin connections_
      BY <3>1 DEF Referenced
    <3>4. ~Queued(conn[c].loop, Functor("connectDestroyed", c))
      BY <3>1, <3>2 DEF Referenced, Queued, Functor
    <3>5. conn[c].channel.index = "kNew"
      BY <1>1, <2>1, <3>1, <3>3, <3>4 DEF ServerInv, LoneInv
    <3>6. revents[c] = {}
      BY <1>1, <3>5 DEF ServerInv, LoopsInv, Settled
    <3>. QED BY <3>2, <3>5, <3>6 DEF Rec, Registered, Consistent
  <2>. QED BY <2>1 DEF NoDanglingChannel
<1>. QED BY <1>1, ServerInvariant, PTL

\* A connection that the loops alone use is watched for input while it is up,
\* for output exactly while something is buffered, and for nothing once it is
\* closed; and no epoll_ctl fails, whoever uses it.
THEOREM ServerWatchedAsNeeded == Spec => []WatchedAsNeeded
<1>1. ASSUME ServerInv  PROVE WatchedAsNeeded
  <2>1. ASSUME NEW c \in Conns, Accepted(c), Unshared
        PROVE  Rec(conn[c]) /\ Kept(conn[c])
    BY <1>1, <2>1 DEF ServerInv, LoopsInv, Settled, UnsharedInv
  <2>2. ASSUME NEW c \in Conns, Accepted(c), Unshared
        PROVE  LET ch == conn[c].channel IN
               /\ Consistent(ch)
               /\ conn[c].state \in {"kConnected", "kDisconnecting"}
                  /\ ch.channels =>
                    ch.events = {kReadEvent} \cup IF conn[c].out = <<>> THEN {}
                                                  ELSE {kWriteEvent}
               /\ conn[c].state = "kDisconnected" => ch.events = {}
    BY <2>1, <2>2 DEF Rec, HandlerType, ChannelType, Registered, Consistent, Kept
  <2>. QED BY <2>2 DEF WatchedAsNeeded
<1>. QED BY <1>1, ServerInvariant, PTL

\* A connection that the loops alone use is shut down for writing only when
\* nothing is buffered and the kernel has everything that was sent.
THEOREM ServerShutdownFlushes == Spec => []ShutdownFlushes
<1>1. ASSUME ServerInv  PROVE ShutdownFlushes
  <2>1. \A c \in Conns : Accepted(c) /\ Unshared => Kept(conn[c])
    BY <1>1 DEF ServerInv, UnsharedInv
  <2>. QED BY <2>1 DEF ShutdownFlushes, Kept, Broken
<1>. QED BY <1>1, ServerInvariant, PTL

\* A connection that the loops alone use is reported up once, and down once
\* when it is closed.
THEOREM ServerCallbacksPaired == Spec => []CallbacksPaired
<1>1. ASSUME ServerInv  PROVE CallbacksPaired
  <2>1. \A c \in Conns : Accepted(c) /\ Unshared => Kept(conn[c])
    BY <1>1 DEF ServerInv, UnsharedInv
  <2>. QED BY <2>1 DEF CallbacksPaired, Kept
<1>. QED BY <1>1, ServerInvariant, PTL

------------------------------------------------------------------------------
\* A closed connection stays closed.

\* The record that a handler or functor leaves of its connection.
LEMMA LeaveState ==
  ASSUME Shapes, NEW c \in Conns, NEW s, Rec(s), NEW q, Leave(c, s, q)
  PROVE  /\ conn'[c].state = s.state
         /\ \A x \in Conns : x # c => conn'[x] = conn[x]
<1>1. conn' = [conn EXCEPT ![c] = [s EXCEPT !.posts = <<>>]]
  BY DEF Leave
<1>2. [s EXCEPT !.posts = <<>>].state = s.state
  BY DEF Rec, HandlerType
<1>. QED BY <1>1, <1>2 DEF Shapes

\* A handler leaves its own connection closed, and the others alone.
LEMMA ClosedByHandle ==
  ASSUME ServerInv, NEW l \in Loops, Handle(l), NEW c \in Conns, Accepted(c),
         conn[c].state = "kDisconnected"
  PROVE  conn'[c].state = "kDisconnected"
<1>1. Settled /\ Shapes
  BY DEF ServerInv, LoopsInv
<1>2. PICK x \in OnLoop(l) :
        /\ revents[x] # {}
        /\ \E s \in HandleEvent(conn[x], revents[x]) : Leave(x, s, queue)
  BY DEF Handle
<1>3. PICK s \in HandleEvent(conn[x], revents[x]) : Leave(x, s, queue)
  BY <1>2
<1>4. /\ x \in Conns /\ Rec(conn[x]) /\ conn[x].posts = <<>>
      /\ conn[x].channel.index = "kAdded"
  BY <1>1, <1>2 DEF OnLoop, Settled
<1>5. Handled(conn[x], s)
  BY <1>4, EventHandled
<1>6. Rec(s) /\ (conn[x].state = "kDisconnected" => s.state = "kDisconnected")
  BY <1>5 DEF Handled
<1>. QED BY <1>1, <1>3, <1>4, <1>6, LeaveState

\* So does a functor; a connectEstablished finds its connection in kConnecting.
LEMMA ClosedByExecute ==
  ASSUME ServerInv, NEW l \in Loops, Execute(l), NEW c \in Conns, Accepted(c),
         conn[c].state = "kDisconnected"
  PROVE  conn'[c].state = "kDisconnected"
<1>1. /\ queue[l] # <<>> /\ NoneActive(l)
      /\ UNCHANGED <<setup, up, next_, revents, requests>>
      /\ \E op, x : FirstIs(l, op, x) /\ Called(l, op, x)
  BY ExecuteFacts
<1>2. PICK op, x : FirstIs(l, op, x) /\ Called(l, op, x)
  BY <1>1
<1>3. LoopsInv /\ Shapes
  BY DEF ServerInv, LoopsInv
<1>4. /\ x \in Conns /\ Rec(conn[x]) /\ conn[x].posts = <<>>
      /\ op = "connectEstablished" <=> conn[x].state = "kConnecting"
  BY <1>1, <1>2, <1>3, FirstFacts
<1>5. CASE /\ op = "connectEstablished"
           /\ Leave(x, ConnectEstablished(conn[x]), Popped(l))
  <2>1. Rec(ConnectEstablished(conn[x])) /\ x # c
    BY <1>4, <1>5, EstablishedHandled
  <2>. QED BY <1>3, <1>4, <1>5, <2>1, LeaveState
<1>6. ASSUME UNCHANGED connections_,
             NEW s, Outcome(op, x, s), Leave(x, s, Popped(l))
      PROVE  conn'[c].state = "kDisconnected"
  <2>1. Advanced(conn[x], s)
    BY <1>1, <1>2, <1>6, FunctorStep
  <2>2. Rec(s) /\ (conn[x].state = "kDisconnected" => s.state = "kDisconnected")
    BY <2>1 DEF Advanced
  <2>. QED BY <1>3, <1>4, <1>6, <2>2, LeaveState
<1>. QED BY <1>2, <1>5, <1>6 DEF Called

LEMMA ClosedStep ==
  ASSUME ServerInv, [Next]_vars, NEW c \in Conns, Accepted(c), Unshared,
         conn[c].state = "kDisconnected"
  PROVE  conn'[c].state = "kDisconnected"
<1>1. /\ Shapes /\ Settled /\ Used /\ LoopsInv
      /\ conn \in [Conns -> HandlerType \cup {None}]
  BY DEF ServerInv, LoopsInv, Shapes
<1>2. CASE UNCHANGED vars
  BY <1>2 DEF vars
<1>3. ASSUME NEW x \in Conns, Accept(x)
      PROVE  conn'[c].state = "kDisconnected"
  <2>1. PICK m : NewConnectionOn(x, m)
    BY <1>3 DEF Accept
  <2>2. x # c
    BY <2>1 DEF NewConnectionOn
  <2>. QED BY <1>1, <2>1, <2>2 DEF NewConnectionOn
<1>4. ASSUME NEW x \in Conns, Client(x)
      PROVE  conn'[c].state = "kDisconnected"
  <2>1. conn[c] \in HandlerType
    BY <1>1 DEF Settled, Rec
  <2>. QED BY <1>1, <1>4, <2>1
           DEF Client, ClientSends, ClientReads, ClientCloses, ClientResets,
               HandlerType
<1>5. ASSUME NEW x \in Conns, NEW u \in Users, User(x, u)
      PROVE  conn'[c].state = "kDisconnected"
  <2>1. user[x][u] # "none"
    BY <1>5 DEF User, UserTests, UserSends, UserShutsDown, UserDrops
  <2>. QED BY <1>1, <2>1 DEF Used, Unshared
<1>6. ASSUME NEW l \in Loops, LoopStep(l)
      PROVE  conn'[c].state = "kDisconnected"
  <2>1. CASE Poll(l)
    BY <2>1 DEF Poll
  <2>. QED BY <1>6, <2>1, ClosedByHandle, ClosedByExecute DEF LoopStep
<1>7. CASE ServerDestroyed
  <2>1. conn'[c] = IF c \in connections_ /\ conn[c].loop = Base
                   THEN ConnectDestroyed(conn[c]) ELSE conn[c]
    BY <1>7 DEF ServerDestroyed
  <2>2. Handled(conn[c], ConnectDestroyed(conn[c]))
    BY <1>1, DestroyedHandled DEF Settled
  <2>. QED BY <2>1, <2>2 DEF Handled
<1>. QED BY <1>2, <1>3, <1>4, <1>5, <1>6, <1>7 DEF Next

\* Whatever is still queued for it and whatever epoll_wait still reports: a
\* connection that the loops alone use and that is closed is never opened again.
THEOREM ServerClosedIsFinal == Spec => ClosedIsFinal
<1>1. ASSUME ServerInv, [Next]_vars
      PROVE  [\A c \in Conns :
                Accepted(c) /\ conn[c].state = "kDisconnected" /\ Unshared
                  => conn'[c].state = "kDisconnected"]_vars
  BY <1>1, ClosedStep
<1>. QED BY <1>1, ServerInvariant, PTL DEF Spec, ClosedIsFinal
==============================================================================
