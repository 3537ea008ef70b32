---------------------------- MODULE AsyncLogging -----------------------------
(***************************************************************************)
(* The asynchronous log (src/src/Logger/AsyncLogging.cpp): any thread      *)
(* appends lines to currentBuffer_ under mutex_, a background thread takes *)
(* the full buffers, writes them to the LogFile and takes two of them back  *)
(* as spares.  FixedBuffer (src/src/Logger/FixedBuffer.h) drops a line that   *)
(* does not fit, without a word, and its bzero clears the data but leaves  *)
(* the write position where it is.                                         *)
(*                                                                         *)
(* Abstractions.  Lines are numbered 1, 2, 3, ... in the order of the      *)
(* calls and take one unit of a buffer; a buffer is the sequence of its    *)
(* units up to the write position, and a unit that bzero has cleared is    *)
(* Zero.  A unique_ptr is a sequence of at most one buffer.                *)
(* The wait for three seconds ends at any time, by a notification, by the  *)
(* timeout or spuriously, so it does not appear.                           *)
(***************************************************************************)
EXTENDS LogFile

CONSTANTS
  Capacity,   \* SIZE of a FixedBuffer, in lines
  MaxLines    \* bound: lines appended

ASSUME LoggingAssumption == Capacity \in Nat /\ Capacity > 1 /\ MaxLines \in Nat

VARIABLES
  own,              \* AsyncLogging's owner: new, started or stopped
  currentBuffer_, nextBuffer_, buffers_,      \* guarded by mutex_
  newBuffer1, newBuffer2, buffersToWrite,     \* locals of threadFunc
  pc,               \* where threadFunc is
  turn,             \* the buffer that threadFunc's for loop is at
  appended          \* history: the number of lines appended

vars == <<own, currentBuffer_, nextBuffer_, buffers_, newBuffer1, newBuffer2,
          buffersToWrite, pc, turn, appended, logVars>>
sharedVars == <<own, currentBuffer_, nextBuffer_, buffers_, appended>>
localVars == <<newBuffer1, newBuffer2, buffersToWrite, turn>>

Zero == 0
NewBuffer == <<>>
Null == <<>>
Ptr(b) == <<b>>
Pointee(p) == p[1]

running_ == own = "started"

Init ==
  /\ own = "new"
  /\ currentBuffer_ = Ptr(NewBuffer)
  /\ nextBuffer_ = Ptr(NewBuffer)
  /\ buffers_ = <<>>
  /\ newBuffer1 = Null
  /\ newBuffer2 = Null
  /\ buffersToWrite = <<>>
  /\ pc = "none"
  /\ turn = 1
  /\ appended = 0
  /\ LogInit

------------------------------------------------------------------------------
\* FixedBuffer.

Fits(b) == Capacity - Len(b) > 1

AppendTo(b, line) == IF Fits(b) THEN Append(b, line) ELSE b

Bzero(b) == [i \in DOMAIN b |-> Zero]

------------------------------------------------------------------------------
\* append: into the current buffer, or, when that is full, into the spare one
\* or a new one.
AppendLine ==
  /\ own # "stopped"
  /\ appended < MaxLines
  /\ appended' = appended + 1
  /\ IF Fits(Pointee(currentBuffer_))
     THEN /\ currentBuffer_' =
               Ptr(Append(Pointee(currentBuffer_), appended + 1))
          /\ UNCHANGED <<nextBuffer_, buffers_>>
     ELSE /\ buffers_' = Append(buffers_, Pointee(currentBuffer_))
          /\ currentBuffer_' =
               Ptr(AppendTo(IF nextBuffer_ = Null THEN NewBuffer
                            ELSE Pointee(nextBuffer_), appended + 1))
          /\ nextBuffer_' = Null
  /\ UNCHANGED <<own, localVars, pc, logVars>>

\* start, and the first lines of threadFunc.
Start ==
  /\ own = "new"
  /\ own' = "started"
  /\ pc' = "test"
  /\ newBuffer1' = Ptr(NewBuffer)
  /\ newBuffer2' = Ptr(NewBuffer)
  /\ OpenLog
  /\ UNCHANGED <<currentBuffer_, nextBuffer_, buffers_, buffersToWrite, turn,
                 appended>>

\* stop, up to the join.
Stop ==
  /\ own = "started"
  /\ own' = "stopped"
  /\ UNCHANGED <<currentBuffer_, nextBuffer_, buffers_, localVars, pc, appended,
                 logVars>>

------------------------------------------------------------------------------
\* threadFunc.

\* while (running_); at the end the locals go, and with them the LogFile.
TestRunning ==
  /\ pc = "test"
  /\ IF running_ THEN pc' = "collect" /\ UNCHANGED logVars
     ELSE pc' = "ended" /\ CloseLog
  /\ UNCHANGED <<sharedVars, localVars>>

\* Mutant: the test of the current buffer's length is inverted.
Collect_EmptyOnly ==
  /\ pc = "collect"
  /\ buffersToWrite' = IF Pointee(currentBuffer_) = <<>>
                       THEN Append(buffers_, Pointee(currentBuffer_))
                       ELSE buffers_
  /\ buffers_' = <<>>
  /\ currentBuffer_' = newBuffer1
  /\ newBuffer1' = Null
  /\ nextBuffer_' = IF nextBuffer_ = Null THEN newBuffer2 ELSE nextBuffer_
  /\ newBuffer2' = IF nextBuffer_ = Null THEN Null ELSE newBuffer2
  /\ pc' = "write"
  /\ turn' = 1
  /\ UNCHANGED <<own, appended, logVars>>

\* The critical section: what there is to write is taken, current buffer and
\* all, and the spares take their places.
Collect ==
  /\ pc = "collect"
  /\ buffersToWrite' = IF Pointee(currentBuffer_) = <<>> THEN buffers_
                       ELSE Append(buffers_, Pointee(currentBuffer_))
  /\ buffers_' = <<>>
  /\ currentBuffer_' = newBuffer1
  /\ newBuffer1' = Null
  /\ nextBuffer_' = IF nextBuffer_ = Null THEN newBuffer2 ELSE nextBuffer_
  /\ newBuffer2' = IF nextBuffer_ = Null THEN Null ELSE newBuffer2
  /\ pc' = "write"
  /\ turn' = 1
  /\ UNCHANGED <<own, appended, logVars>>

\* Mutant: a pass that had nothing to write gets no new buffers.
Kept_NotTopped(bs) == SubSeq(bs, 1, IF Len(bs) > 2 THEN 2 ELSE Len(bs))

\* Two buffers are kept of those written, or made.
Kept(bs) ==
  CASE Len(bs) > 2 -> SubSeq(bs, 1, 2)
    [] Len(bs) = 1 -> Append(bs, NewBuffer)
    [] Len(bs) = 0 -> <<NewBuffer, NewBuffer>>
    [] OTHER -> bs

\* The missing spares are taken from the end of what was kept.
Spare(p, bs) == IF p # Null \/ bs = <<>> THEN p ELSE Ptr(Bzero(Last(bs)))
Left(p, bs) == IF p # Null \/ bs = <<>> THEN bs ELSE Front(bs)

\* Outside the lock: one buffer after the other is given to the LogFile.
WriteBuffer ==
  /\ pc = "write"
  /\ turn <= Len(buffersToWrite)
  /\ \/ WritePart(buffersToWrite[turn]) /\ UNCHANGED turn
     \/ WriteRest(buffersToWrite[turn]) /\ turn' = turn + 1
  /\ UNCHANGED <<sharedVars, newBuffer1, newBuffer2, buffersToWrite, pc>>

\* The spares are prepared, and the file is flushed when that is overdue.
Recycle ==
  /\ pc = "write"
  /\ turn > Len(buffersToWrite)
  /\ LET kept == Kept(buffersToWrite)
     IN  /\ newBuffer1' = Spare(newBuffer1, kept)
         /\ newBuffer2' = Spare(newBuffer2, Left(newBuffer1, kept))
  /\ buffersToWrite' = <<>>
  /\ turn' = 1
  /\ pc' = "test"
  /\ files' = IF Overdue THEN FlushLast(files) ELSE files
  /\ UNCHANGED <<sharedVars, count_, written, clockVars>>

------------------------------------------------------------------------------
ThreadFunc == TestRunning \/ Collect \/ WriteBuffer \/ Recycle

TimePasses == Tick /\ UNCHANGED <<sharedVars, localVars, pc>>

Next == AppendLine \/ Start \/ Stop \/ ThreadFunc \/ TimePasses

Spec == Init /\ [][Next]_vars

\* The background thread is scheduled, its wait times out, the clock goes on,
\* and a disk that refuses data takes some again after a while.
FairSpec == Spec /\ WF_vars(ThreadFunc) /\ WF_vars(TimePasses)

------------------------------------------------------------------------------
\* What is in the files, all of them, and everything that was appended and is
\* not lost, in the order in which it gets there.
InFiles == FlattenSeq([i \in DOMAIN files |-> files[i].units])

Unwritten ==
  LET rest == FlattenSeq(SubSeq(buffersToWrite, turn, Len(buffersToWrite)))
  IN  SubSeq(rest, written + 1, Len(rest))

Stream ==
  InFiles \o Unwritten \o FlattenSeq(buffers_) \o FlattenSeq(currentBuffer_)

IsLine(unit) == unit # Zero

\* No null unique_ptr is dereferenced, whatever the traffic: append finds a
\* current buffer, and threadFunc both spares at the top of its loop.
NeverNull ==
  /\ currentBuffer_ # Null
  /\ pc \in {"test", "collect"} => newBuffer1 # Null /\ newBuffer2 # Null

\* The lines of the files, one file after the other, are in the order of the
\* calls of append, none twice, although the buffers they pass through are
\* taken, recycled and reordered, and fwrite takes them in parts.
LinesInOrder ==
  LET s == Stream
  IN  \A i, j \in DOMAIN s :
        i < j /\ IsLine(s[i]) /\ IsLine(s[j]) => s[i] < s[j]

\* The line numbered n is on its way to the disk, or is there.
Underway(n) == Contains(Stream, n)
Durable(n) == \E i \in DOMAIN files : Contains(OnDisk(files[i]), n)

\* A line that a buffer has accepted is never lost on its way to the file: no
\* step of append, of threadFunc or of a roll drops a buffer with lines in it,
\* clears one that is not written or recycles it too early.
NoneDropped ==
  [][\A n \in 1..MaxLines : Underway(n) => Underway(n)']_vars

\* A line that a buffer has accepted gets to the disk without further traffic,
\* unless the log is stopped: by a flush or a roll of LogFile::append, or by
\* threadFunc's own, which does not depend on how much is appended.
LineWritten ==
  \A n \in 1..MaxLines :
    (own = "started" /\ Underway(n)) ~> (Durable(n) \/ own = "stopped")

\* Every call of append puts its line on the way, as its comment has it for
\* the case of a full buffer (AsyncLogging.cpp:36); violated, since a recycled
\* buffer is still full for append, which then drops the line.
NothingLost == \A n \in 1..appended : Underway(n)
==============================================================================
