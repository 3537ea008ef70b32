---------------------------- MODULE TcpConnection ----------------------------
(***************************************************************************)
(* One TcpConnection (src/src/Net/TcpConnection.cpp) with its channel, its *)
(* output buffer and its socket, and the callbacks that HttpServer gives   *)
(* it (src/src/Http/httpServer.cpp).  A connection is a record.  Every     *)
(* handler runs to its end on the loop's thread, so a handler is an        *)
(* operator from the record it finds to the set of the records it may      *)
(* leave; the kernel's answers make it a set.                              *)
(*                                                                         *)
(* Abstractions.  The bytes that a connection hands to its socket are      *)
(* numbered 1, 2, 3, ... in the order in which sendInLoop takes them; a    *)
(* response is MsgLen of them.  inputBuffer_ is a count of requests, and   *)
(* one call of the message callback parses what it holds.  The socket is   *)
(* known by what its peer has done and by whether its send buffer has      *)
(* room.  The high water mark callback only logs and is left out, and so   *)
(* are errors of write other than EAGAIN, EPIPE and ECONNRESET.            *)
(***************************************************************************)
EXTENDS Channel, Naturals, Sequences

CONSTANT MsgLen   \* bytes of a response

ASSUME MsgLenAssumption == MsgLen \in Nat \ {0}

NewConnection(loop) ==
  [loop |-> loop,             \* TcpConnection::loop_
   state |-> "kConnecting",   \* TcpConnection::state_
   channel |-> NewChannel,    \* TcpConnection::channel_
   out |-> <<>>,              \* TcpConnection::outputBuffer_
   unread |-> 0,              \* requests that wait in the socket
   peer |-> "open",           \* open; closed: FIN seen; reset: RST seen and
                              \* SO_ERROR not read; gone: SO_ERROR read
   full |-> FALSE,            \* the socket's send buffer has no room
   shut |-> FALSE,            \* the write side is shut down
   taken |-> 0,               \* history: bytes taken by sendInLoop
   wire |-> <<>>,             \* history: bytes accepted by the kernel
   ups |-> 0,                 \* history: connectionCallback_, connected
   downs |-> 0,               \* history: connectionCallback_, not connected
   posts |-> <<>>]            \* functors this handler has queued

Post(c, op) == [c EXCEPT !.posts = Append(@, op)]

------------------------------------------------------------------------------
\* The socket.

\* A write fails with EPIPE or ECONNRESET.
WriteFails(c) == c.shut \/ c.peer \in {"reset", "gone"}

\* How many of n bytes a write that does not fail may take; none is EAGAIN.
Accepts(c, n) == IF c.full THEN {0} ELSE 1..n

\* A write that fails, with EPIPE or ECONNRESET.  A reset is reported by it
\* and so leaves SO_ERROR.  The model goes on as a process that ignores SIGPIPE
\* does.
Failed(c) == [c EXCEPT !.peer = IF @ = "reset" THEN "gone" ELSE @]

Written(c, data, n) ==
  [c EXCEPT !.wire = @ \o SubSeq(data, 1, n), !.full = n < Len(data)]

\* What epoll_wait reports for the connection's descriptor.
Revents(c) ==
  IF ~c.channel.inEpoll THEN {}
  ELSE { ev \in {"IN", "OUT", "ERR", "HUP"} :
           CASE ev = "IN" -> /\ kReadEvent \in c.channel.mask
                             /\ c.unread > 0 \/ c.peer # "open"
             [] ev = "OUT" -> /\ kWriteEvent \in c.channel.mask
                              /\ ~c.full \/ WriteFails(c)
             [] ev = "ERR" -> c.peer = "reset"
             [] ev = "HUP" -> \/ c.peer \in {"reset", "gone"}
                              \/ c.peer = "closed" /\ c.shut }

------------------------------------------------------------------------------
\* Sending.

\* The end of sendInLoop: what is left is buffered and EPOLLOUT enabled.
Buffered(c, rest) ==
  [c EXCEPT !.out = @ \o rest,
            !.channel = IF IsWriting(@) THEN @ ELSE EnableWriting(@)]

\* Mutant: what is queued before it is not looked at.
Direct_Always(c) == TRUE

\* Nothing is queued before the data, so that it may be written at once.
Direct(c) == ~IsWriting(c.channel) /\ c.out = <<>>

\* sendInLoop, which gives up in kDisconnected and on a broken socket.
SendInLoop(c) ==
  LET data == [i \in 1..MsgLen |-> c.taken + i]
      t == [c EXCEPT !.taken = @ + MsgLen]
  IN  CASE c.state = "kDisconnected" -> {c}
        [] c.state # "kDisconnected" /\ ~Direct(c) -> {Buffered(t, data)}
        [] c.state # "kDisconnected" /\ Direct(c) /\ WriteFails(c) ->
             {Failed(t)}
        [] OTHER ->
             { IF n = MsgLen THEN Post(Written(t, data, n), "writeComplete")
               ELSE Buffered(Written(t, data, n), SubSeq(data, n + 1, MsgLen)) :
               n \in Accepts(c, MsgLen) }

\* send on the loop's thread.
Send(c) == IF c.state = "kConnected" THEN SendInLoop(c) ELSE {c}

\* Mutant: the write side is shut down whatever is buffered.
ShutdownInLoop_AtOnce(c) == [c EXCEPT !.shut = TRUE]

ShutdownInLoop(c) == IF IsWriting(c.channel) THEN c ELSE [c EXCEPT !.shut = TRUE]

\* Mutant: state_ is not tested.
Shutdown_Untested(c) == ShutdownInLoop([c EXCEPT !.state = "kDisconnecting"])

\* shutdown on the loop's thread.
Shutdown(c) ==
  IF c.state = "kConnected"
  THEN ShutdownInLoop([c EXCEPT !.state = "kDisconnecting"])
  ELSE c

------------------------------------------------------------------------------
\* The callbacks of HttpServer.

\* onConnection looks at connected() and logs.
OnConnection(c) ==
  IF c.state = "kConnected" THEN [c EXCEPT !.ups = @ + 1]
                            ELSE [c EXCEPT !.downs = @ + 1]

\* onMessage: the response; or, when the request does not parse, an error
\* response and a shutdown, and then the response all the same.
OnMessage(c) == Send(c) \cup UNION { Send(Shutdown(s)) : s \in Send(c) }

\* onDestroy, queued as the write complete callback.
OnDestroy(c) == Shutdown(c)

------------------------------------------------------------------------------
\* The handlers of the channel.

\* Mutant: the close callback is not called.
HandleClose_Untold(c) ==
  OnConnection([c EXCEPT !.state = "kDisconnected", !.channel = DisableAll(@)])

HandleClose(c) ==
  Post(OnConnection([c EXCEPT !.state = "kDisconnected",
                              !.channel = DisableAll(@)]),
       "removeConnection")

\* handleError reads SO_ERROR, which clears it, and logs.
HandleError(c) == IF c.peer = "reset" THEN [c EXCEPT !.peer = "gone"] ELSE c

HandleRead(c) ==
  CASE c.unread > 0 -> OnMessage([c EXCEPT !.unread = 0])
    [] c.unread = 0 /\ c.peer \in {"closed", "gone"} -> {HandleClose(c)}
    [] OTHER -> {HandleError(c)}

\* Mutant: EPOLLOUT stays enabled.
Flushed_KeepsWriting(c) ==
  LET d == Post(c, "writeComplete")
  IN  IF d.state = "kDisconnecting" THEN ShutdownInLoop(d) ELSE d

\* Mutant: a shutdown that waits for the buffer is forgotten.
Flushed_ForgetsShutdown(c) ==
  Post([c EXCEPT !.channel = DisableWriting(@)], "writeComplete")

\* The part of handleWrite after the write that empties the output buffer.
Flushed(c) ==
  LET d == Post([c EXCEPT !.channel = DisableWriting(@)], "writeComplete")
  IN  IF d.state = "kDisconnecting" THEN ShutdownInLoop(d) ELSE d

HandleWrite(c) ==
  CASE ~IsWriting(c.channel) -> {c}
    [] IsWriting(c.channel) /\ WriteFails(c) -> {Failed(c)}
    [] OTHER ->
       { LET w == [Written(c, c.out, n)
                     EXCEPT !.out = SubSeq(@, n + 1, Len(@))]
         IN  IF n > 0 /\ w.out = <<>> THEN Flushed(w) ELSE w :
         n \in Accepts(c, Len(c.out)) }

\* Channel::handleEventWithGuard: the four tests, in order.
HandleEvent(c, revents) ==
  LET closed == IF "HUP" \in revents /\ "IN" \notin revents
                THEN HandleClose(c) ELSE c
      errored == IF "ERR" \in revents THEN HandleError(closed) ELSE closed
      read == IF "IN" \in revents THEN HandleRead(errored) ELSE {errored}
  IN  IF "OUT" \in revents THEN UNION { HandleWrite(s) : s \in read } ELSE read

------------------------------------------------------------------------------
\* The two ends of a connection's life, called by TcpServer.

ConnectEstablished(c) ==
  OnConnection([c EXCEPT !.state = "kConnected", !.channel = EnableReading(@)])

\* Mutant: the channel is not removed.
ConnectDestroyed_KeepsChannel(c) ==
  IF c.state = "kConnected"
  THEN OnConnection([c EXCEPT !.state = "kDisconnected",
                              !.channel = DisableAll(@)])
  ELSE c

\* Mutant: state_ is not tested.
ConnectDestroyed_Untested(c) ==
  OnConnection([c EXCEPT !.state = "kDisconnected", !.channel = RemoveChannel(@)])

ConnectDestroyed(c) ==
  LET d == IF c.state = "kConnected"
           THEN OnConnection([c EXCEPT !.state = "kDisconnected",
                                       !.channel = DisableAll(@)])
           ELSE c
  IN  [d EXCEPT !.channel = RemoveChannel(@)]
==============================================================================
