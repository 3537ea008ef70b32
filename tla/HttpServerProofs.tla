-------------------------- MODULE HttpServerProofs ---------------------------
(***************************************************************************)
(* The buffer of a connection, for every size of the buffer and of a call, *)
(* the input buffer of an HTTP connection, for any requests, cut in any    *)
(* way, and the answers, for any requests that each come with a read of    *)
(* their own.                                                              *)
(***************************************************************************)
EXTENDS HttpServer, SequenceLemmas, FiniteSetTheorems, TLAPS

\* What makeSpace promises: e is a buffer with room for len bytes whose
\* readable part is that of b.
Keeps(b, e, len) ==
  /\ IsBuffer(e)
  /\ len <= WritableBytes(e)
  /\ ReadableBytes(e) = ReadableBytes(b)
  /\ \A i \in 0..(ReadableBytes(b) - 1) :
       e.data[e.reader + i] = b.data[b.reader + i]

\* makeSpace keeps the promise when it makes the vector longer.
LEMMA ResizedKeeps ==
  ASSUME NEW b, IsBuffer(b), NEW len \in Nat, WritableBytes(b) < len,
         NEW e, e = Resized(b, len)
  PROVE  Keeps(b, e, len)
<1>0. /\ b.size \in Nat /\ b.reader \in Nat /\ b.writer \in Nat
      /\ kCheapPrepend \in Nat
      /\ kCheapPrepend <= b.reader /\ b.reader <= b.writer /\ b.writer <= b.size
  BY BufferAssumption DEF IsBuffer
<1>a. b.data \in [0..(b.size - 1) -> Nat]
  BY DEF IsBuffer
<1>1. /\ e.size = b.writer + len
      /\ e.reader = b.reader
      /\ e.writer = b.writer
      /\ e.data = [i \in 0..(b.writer + len - 1) |->
                     IF i < b.size THEN b.data[i] ELSE 0]
      /\ e = [data |-> e.data, size |-> e.size, reader |-> e.reader,
              writer |-> e.writer]
  BY DEF Resized, IsBuffer
<1>2. e.data \in [0..(e.size - 1) -> Nat]
  <2>1. ASSUME NEW i \in 0..(b.writer + len - 1)
        PROVE  (IF i < b.size THEN b.data[i] ELSE 0) \in Nat
    <3>1. i < b.size => i \in 0..(b.size - 1)
      BY <1>0
    <3>. QED BY <3>1, <1>a
  <2>2. e.size - 1 = b.writer + len - 1
    BY <1>0, <1>1
  <2>. QED BY <1>1, <2>1, <2>2
<1>3. ASSUME NEW i \in 0..(ReadableBytes(b) - 1)
      PROVE  e.data[e.reader + i] = b.data[b.reader + i]
  <2>1. b.reader + i \in 0..(b.writer + len - 1) /\ b.reader + i < b.size
    BY <1>0 DEF ReadableBytes
  <2>. QED BY <1>1, <2>1
<1>4. e.size \in Nat /\ e.writer <= e.size
  BY <1>1, <1>0
<1>5. IsBuffer(e)
  BY <1>0, <1>1, <1>2, <1>4 DEF IsBuffer
<1>6. len <= WritableBytes(e) /\ ReadableBytes(e) = ReadableBytes(b)
  BY <1>1, <1>0 DEF WritableBytes, ReadableBytes
<1>. QED BY <1>3, <1>5, <1>6 DEF Keeps

\* makeSpace keeps the promise when it moves the readable part back.
LEMMA MovedBackKeeps ==
  ASSUME NEW b, IsBuffer(b), NEW len \in Nat,
         WritableBytes(b) + PrependableBytes(b) >= len + kCheapPrepend,
         NEW e, e = MovedBack(b)
  PROVE  Keeps(b, e, len)
<1>0. /\ b.size \in Nat /\ b.reader \in Nat /\ b.writer \in Nat
      /\ kCheapPrepend \in Nat
      /\ kCheapPrepend <= b.reader /\ b.reader <= b.writer /\ b.writer <= b.size
  BY BufferAssumption DEF IsBuffer
<1>a. b.data \in [0..(b.size - 1) -> Nat]
  BY DEF IsBuffer
<1> DEFINE moved == kCheapPrepend..(kCheapPrepend + ReadableBytes(b) - 1)
<1>1. /\ e.size = b.size
      /\ e.reader = kCheapPrepend
      /\ e.writer = kCheapPrepend + ReadableBytes(b)
      /\ e.data = [i \in 0..(b.size - 1) |->
                     IF i \in moved
                     THEN b.data[i - kCheapPrepend + b.reader] ELSE b.data[i]]
      /\ e = [data |-> e.data, size |-> e.size, reader |-> e.reader,
              writer |-> e.writer]
  BY DEF MovedBack, IsBuffer
<1>2. ReadableBytes(b) \in Nat /\ kCheapPrepend + ReadableBytes(b) <= b.size
  BY <1>0 DEF ReadableBytes
<1>3. ASSUME NEW i \in moved
      PROVE  i \in 0..(b.size - 1) /\ i - kCheapPrepend + b.reader \in 0..(b.size - 1)
  <2>1. i \in Nat /\ i - kCheapPrepend \in 0..(ReadableBytes(b) - 1)
    BY <1>0, <1>2
  <2>2. i < b.size
    BY <1>2, <2>1, <1>0
  <2>3. i - kCheapPrepend + b.reader \in 0..(b.size - 1)
    BY <2>1, <1>0 DEF ReadableBytes
  <2>. QED BY <2>1, <2>2, <2>3, <1>0
<1>4. e.data \in [0..(e.size - 1) -> Nat]
  <2>1. ASSUME NEW i \in 0..(b.size - 1)
        PROVE  (IF i \in moved THEN b.data[i - kCheapPrepend + b.reader]
                ELSE b.data[i]) \in Nat
    <3> HIDE DEF moved
    <3>. QED BY <1>3, <1>a
  <2> HIDE DEF moved
  <2>. QED BY <1>1, <2>1
<1>5. ASSUME NEW i \in 0..(ReadableBytes(b) - 1)
      PROVE  e.data[e.reader + i] = b.data[b.reader + i]
  <2>1. kCheapPrepend + i \in moved
    BY <1>0, <1>2
  <2>2. kCheapPrepend + i \in 0..(b.size - 1)
    BY <1>3, <2>1
  <2>3. e.data[kCheapPrepend + i]
          = b.data[(kCheapPrepend + i) - kCheapPrepend + b.reader]
    <3> HIDE DEF moved
    <3>. QED BY <1>1, <2>1, <2>2
  <2>4. (kCheapPrepend + i) - kCheapPrepend + b.reader = b.reader + i
    BY <1>2, <1>0
  <2>. QED BY <1>1, <2>3, <2>4
<1>6. e.reader <= e.writer /\ e.writer <= e.size /\ e.writer \in Nat
  BY <1>0, <1>1, <1>2
<1>7. len <= WritableBytes(e) /\ ReadableBytes(e) = ReadableBytes(b)
  BY <1>1, <1>2, <1>0 DEF WritableBytes, ReadableBytes, PrependableBytes
<1>8. IsBuffer(e)
  BY <1>0, <1>1, <1>4, <1>6 DEF IsBuffer
<1>. QED BY <1>5, <1>7, <1>8 DEF Keeps

\* ensureWritableBytes keeps the same promise.
LEMMA EnsureKeeps ==
  ASSUME NEW b, IsBuffer(b), NEW len \in Nat
  PROVE  Keeps(b, EnsureWritableBytes(b, len), len)
<1>1. CASE WritableBytes(b) >= len
  <2>1. EnsureWritableBytes(b, len) = b
    BY <1>1 DEF EnsureWritableBytes, IsBuffer, WritableBytes
  <2>. QED BY <1>1, <2>1 DEF Keeps
<1>2. CASE /\ WritableBytes(b) < len
           /\ WritableBytes(b) + PrependableBytes(b) < len + kCheapPrepend
  BY <1>2, ResizedKeeps DEF EnsureWritableBytes, MakeSpace
<1>3. CASE /\ WritableBytes(b) < len
           /\ ~(WritableBytes(b) + PrependableBytes(b) < len + kCheapPrepend)
  <2>1. WritableBytes(b) + PrependableBytes(b) >= len + kCheapPrepend
    BY <1>3, BufferAssumption DEF IsBuffer, WritableBytes, PrependableBytes
  <2>2. EnsureWritableBytes(b, len) = MovedBack(b)
    BY <1>3 DEF EnsureWritableBytes, MakeSpace
  <2>. QED BY <2>1, <2>2, MovedBackKeeps
<1>. QED BY <1>1, <1>2, <1>3 DEF IsBuffer, WritableBytes

\* Copying len bytes that follow those the buffer holds, where there is room.
LEMMA CopyHolds ==
  ASSUME NEW b, IsBuffer(b), NEW len \in Nat, len <= WritableBytes(b),
         NEW first \in Nat, NEW last \in Nat, Holds(b, first, last),
         NEW c, c = Copied(b, len, last + 1)
  PROVE  IsBuffer(c) /\ Holds(c, first, last + len)
<1>0. /\ b.size \in Nat /\ b.reader \in Nat /\ b.writer \in Nat
      /\ kCheapPrepend \in Nat
      /\ kCheapPrepend <= b.reader /\ b.reader <= b.writer /\ b.writer <= b.size
  BY BufferAssumption DEF IsBuffer
<1>a. b.data \in [0..(b.size - 1) -> Nat]
  BY DEF IsBuffer
<1> DEFINE new == b.writer..(b.writer + len - 1)
<1>1. /\ c.size = b.size
      /\ c.reader = b.reader
      /\ c.writer = b.writer + len
      /\ c.data = [i \in 0..(b.size - 1) |->
                     IF i \in new THEN i - b.writer + (last + 1) ELSE b.data[i]]
      /\ c = [data |-> c.data, size |-> c.size, reader |-> c.reader,
              writer |-> c.writer]
  BY DEF Copied, IsBuffer
<1>2. b.writer + len <= b.size
  BY <1>0 DEF WritableBytes
<1>3. ASSUME NEW i \in new
      PROVE  i \in 0..(b.size - 1) /\ i - b.writer + (last + 1) \in Nat
  BY <1>0, <1>2
<1>4. IsBuffer(c)
  <2>1. ASSUME NEW i \in 0..(b.size - 1)
        PROVE  (IF i \in new THEN i - b.writer + (last + 1)
                ELSE b.data[i]) \in Nat
    <3> HIDE DEF new
    <3>. QED BY <1>3, <1>a
  <2>2. c.data \in [0..(c.size - 1) -> Nat]
    <3> HIDE DEF new
    <3>. QED BY <1>1, <2>1
  <2>3. c.reader <= c.writer /\ c.writer <= c.size /\ c.writer \in Nat
    BY <1>0, <1>1, <1>2
  <2>. QED BY <1>0, <1>1, <2>2, <2>3 DEF IsBuffer
<1>5. ASSUME NEW i \in 0..(ReadableBytes(c) - 1)
      PROVE  c.data[c.reader + i] = first + i
  <2>1. ReadableBytes(b) \in Nat /\ ReadableBytes(c) = ReadableBytes(b) + len
    BY <1>0, <1>1 DEF ReadableBytes
  <2>2. CASE i < ReadableBytes(b)
    <3>1. b.reader + i \in 0..(b.size - 1) /\ b.reader + i \notin new
      BY <1>0, <2>1, <2>2 DEF ReadableBytes
    <3>2. c.data[b.reader + i] = b.data[b.reader + i]
      <4> HIDE DEF new
      <4>. QED BY <1>1, <3>1
    <3>3. i \in 0..(ReadableBytes(b) - 1)
      BY <2>1, <2>2
    <3>. QED BY <1>1, <3>2, <3>3 DEF Holds
  <2>3. CASE i >= ReadableBytes(b)
    <3>1. b.reader + i \in new
      BY <1>0, <2>1, <2>3 DEF ReadableBytes
    <3>2. c.data[b.reader + i] = (b.reader + i) - b.writer + (last + 1)
      <4> HIDE DEF new
      <4>. QED BY <1>1, <1>3, <3>1
    <3>3. last = first + (b.writer - b.reader) - 1
      BY DEF Holds, ReadableBytes
    <3>4. (b.reader + i) - b.writer + (last + 1) = first + i
      BY <1>0, <2>1, <3>3
    <3>. QED BY <1>1, <3>2, <3>4
  <2>. QED BY <2>1, <2>2, <2>3
<1>6. last + len = first + ReadableBytes(c) - 1
  BY <1>0, <1>1, SMTT(30) DEF Holds, ReadableBytes
<1>. QED BY <1>4, <1>5, <1>6 DEF Holds

\* append: what the buffer holds is followed by the new bytes.
LEMMA AppendHolds ==
  ASSUME NEW b, IsBuffer(b), NEW len \in Nat,
         NEW first \in Nat, NEW last \in Nat, Holds(b, first, last)
  PROVE  LET c == AppendBytes(b, len, last + 1)
         IN  IsBuffer(c) /\ Holds(c, first, last + len)
<1> DEFINE e == EnsureWritableBytes(b, len)
<1>1. IsBuffer(e) /\ len <= WritableBytes(e)
  BY EnsureKeeps DEF Keeps
<1>2. Holds(e, first, last)
  BY EnsureKeeps DEF Keeps, Holds
<1>3. IsBuffer(Copied(e, len, last + 1)) /\ Holds(Copied(e, len, last + 1), first, last + len)
  BY <1>1, <1>2, CopyHolds
<1>. QED BY <1>3 DEF AppendBytes

\* readFd: the same, also when a part of the bytes came by way of extrabuf.
LEMMA ReadHolds ==
  ASSUME NEW b, IsBuffer(b), NEW n \in Nat,
         NEW first \in Nat, NEW last \in Nat, Holds(b, first, last)
  PROVE  LET c == ReadBytes(b, n, last + 1)
         IN  IsBuffer(c) /\ Holds(c, first, last + n)
<1>1. CASE n <= WritableBytes(b)
  BY <1>1, CopyHolds DEF ReadBytes
<1>2. CASE ~(n <= WritableBytes(b))
  <2> DEFINE w == WritableBytes(b)
             d == Copied(b, w, last + 1)
  <2>1. w \in Nat /\ n - w \in Nat
    BY <1>2 DEF IsBuffer, WritableBytes
  <2>2. IsBuffer(d) /\ Holds(d, first, last + w)
    BY <2>1, CopyHolds
  <2>3. LET c == AppendBytes(d, n - w, (last + w) + 1)
        IN  IsBuffer(c) /\ Holds(c, first, (last + w) + (n - w))
    <3> HIDE DEF d, w
    <3>1. last + w \in Nat
      BY <2>1
    <3>. QED BY <2>1, <2>2, <3>1, AppendHolds
  <2>4. (last + w) + 1 = last + 1 + w /\ (last + w) + (n - w) = last + n
    BY <2>1
  <2>. QED BY <1>2, <2>3, <2>4 DEF ReadBytes
<1>. QED BY <1>1, <1>2

\* retrieve: the bytes that are left are the ones after those taken.
LEMMA RetrieveHolds ==
  ASSUME NEW b, IsBuffer(b), NEW len \in Nat,
         NEW first \in Nat, NEW last \in Nat, Holds(b, first, last),
         NEW c, c = Retrieve(b, len)
  PROVE  /\ IsBuffer(c)
         /\ Holds(c, IF len < ReadableBytes(b) THEN first + len
                     ELSE last + 1, last)
<1> USE BufferAssumption
<1>1. CASE len < ReadableBytes(b)
  <2>1. c = [b EXCEPT !.reader = b.reader + len]
    BY <1>1 DEF Retrieve
  <2>2. /\ c.reader = b.reader + len
        /\ c.size = b.size /\ c.writer = b.writer /\ c.data = b.data
        /\ c = [data |-> c.data, size |-> c.size, reader |-> c.reader,
                writer |-> c.writer]
    BY <2>1 DEF IsBuffer
  <2>3. IsBuffer(c)
    BY <1>1, <2>2 DEF IsBuffer, ReadableBytes
  <2>4. ASSUME NEW i \in 0..(ReadableBytes(c) - 1)
        PROVE  c.data[c.reader + i] = first + len + i
    <3>1. len + i \in 0..(ReadableBytes(b) - 1)
      BY <1>1, <2>2, SMTT(30) DEF IsBuffer, ReadableBytes
    <3>2. b.data[b.reader + (len + i)] = first + (len + i)
      BY <3>1 DEF Holds
    <3>. QED BY <2>2, <3>2, SMTT(30) DEF IsBuffer
  <2>5. last = first + len + ReadableBytes(c) - 1
    BY <1>1, <2>2, SMTT(30) DEF IsBuffer, Holds, ReadableBytes
  <2>. QED BY <1>1, <2>3, <2>4, <2>5 DEF Holds
<1>2. CASE ~(len < ReadableBytes(b))
  <2>1. c = RetrieveAll(b)
    BY <1>2 DEF Retrieve
  <2>2. /\ c.reader = kCheapPrepend /\ c.writer = kCheapPrepend
        /\ c.size = b.size /\ c.data = b.data
        /\ c = [data |-> c.data, size |-> c.size, reader |-> c.reader,
                writer |-> c.writer]
    BY <2>1 DEF IsBuffer, RetrieveAll
  <2>3. IsBuffer(c)
    BY <2>2 DEF IsBuffer
  <2>4. ReadableBytes(c) = 0
    BY <2>2 DEF ReadableBytes
  <2>. QED BY <1>2, <2>3, <2>4 DEF Holds
<1>. QED BY <1>1, <1>2

\* The invariant is inductive as it stands.
BufferInv == TypeOK /\ BytesInOrder

\* A new buffer is empty.
LEMMA BufferInit == Init => BufferInv
  BY BufferAssumption
  DEF Init, BufferInv, TypeOK, BytesInOrder, IsBuffer, Holds, NewBuffer, ReadableBytes

\* A call of append keeps it, whatever the length,
LEMMA AppendStep ==
  ASSUME BufferInv, NEW len \in Nat, AppendData(len)
  PROVE  BufferInv'
<1>0. /\ IsBuffer(buf) /\ appended \in Nat /\ taken \in Nat
      /\ Holds(buf, taken + 1, appended)
  BY DEF BufferInv, TypeOK, BytesInOrder
<1>1. IsBuffer(buf') /\ Holds(buf', taken + 1, appended + len)
  BY <1>0, AppendHolds DEF AppendData
<1>. QED BY <1>0, <1>1 DEF AppendData, BufferInv, TypeOK, BytesInOrder

\* a call of readFd that delivers any number of bytes,
LEMMA ReadStep ==
  ASSUME BufferInv, NEW len \in Nat, ReadFd(len)
  PROVE  BufferInv'
<1>0. /\ IsBuffer(buf) /\ appended \in Nat /\ taken \in Nat
      /\ Holds(buf, taken + 1, appended)
  BY DEF BufferInv, TypeOK, BytesInOrder
<1>1. IsBuffer(buf') /\ Holds(buf', taken + 1, appended + len)
  BY <1>0, ReadHolds DEF ReadFd
<1>. QED BY <1>0, <1>1 DEF ReadFd, BufferInv, TypeOK, BytesInOrder

\* and one of retrieve.
LEMMA TakeStep ==
  ASSUME BufferInv, NEW len \in Nat, Take(len)
  PROVE  BufferInv'
<1>0. /\ IsBuffer(buf) /\ appended \in Nat /\ taken \in Nat
      /\ Holds(buf, taken + 1, appended)
  BY DEF BufferInv, TypeOK, BytesInOrder
<1>1. /\ IsBuffer(buf')
      /\ Holds(buf', IF len < ReadableBytes(buf) THEN taken + 1 + len
                     ELSE appended + 1, appended)
  BY <1>0, RetrieveHolds DEF Take
<1>2. taken' + 1 = IF len < ReadableBytes(buf) THEN taken + 1 + len
                   ELSE appended + 1
  BY <1>0 DEF Take
<1>. QED BY <1>0, <1>1, <1>2 DEF Take, BufferInv, TypeOK, BytesInOrder

\* Each step of a buffer keeps it.
LEMMA BufferStep == BufferInv /\ [Next]_vars => BufferInv'
<1> SUFFICES ASSUME BufferInv, [Next]_vars PROVE BufferInv'
  OBVIOUS
<1>1. 0..MaxLen \subseteq Nat
  BY BufferAssumption
<1>2. CASE UNCHANGED vars
  BY <1>2 DEF vars, BufferInv, TypeOK, BytesInOrder
<1>. QED BY <1>1, <1>2, AppendStep, ReadStep, TakeStep DEF Next

\* Whatever is appended, read from the socket and retrieved, the readable part
\* is what was put in and not taken out, in order, and inside the vector.
THEOREM BufferCorrect == Spec => [](TypeOK /\ BytesInOrder)
<1>1. BufferInv => TypeOK /\ BytesInOrder
  BY DEF BufferInv
<1>. QED BY BufferInit, BufferStep, <1>1, PTL DEF Spec

------------------------------------------------------------------------------
\* A session.

\* The readable text is a sequence as long as what is readable.
LEMMA TextIsSeq ==
  ASSUME TypeOK
  PROVE  /\ Len(Text) \in Nat
         /\ DOMAIN Text = 1..Len(Text)
  BY DEF TypeOK, IsBuffer, Text, ReadableBytes

\* The first line of a text has a length.
LEMMA LineHasLength ==
  ASSUME NEW text, Len(text) \in Nat, DOMAIN text = 1..Len(text)
  PROVE  Len(FirstLine(text)) \in Nat
<1> DEFINE before == {i \in DOMAIN text : \A j \in CRLFs(text) : i < j}
<1>1. before \subseteq 1..Len(text)
  OBVIOUS
<1>2. IsFiniteSet(1..Len(text))
  BY FS_Interval
<1>3. Cardinality(before) \in Nat
  BY <1>1, <1>2, FS_Subset, FS_CardinalityType
<1>4. FirstLine(text) = SubSeq(text, 1, Cardinality(before))
  BY DEF FirstLine
<1>. HIDE DEF before
<1>. QED BY <1>3, <1>4

\* Each step of a session keeps the buffer's invariant: what changes the buffer
\* is a call of readFd or of retrieve.
LEMMA SessionStep == BufferInv /\ [SessionNext]_sessionVars => BufferInv'
<1> SUFFICES ASSUME BufferInv, [SessionNext]_sessionVars PROVE BufferInv'
  OBVIOUS
<1>1. CASE NoClient
  BY <1>1, BufferStep DEF NoClient
<1>2. ASSUME NEW n \in 1..Len(stream), Read(n) PROVE BufferInv'
  BY <1>2, ReadStep DEF Read
<1>3. CASE Parse
  <2>1. ASSUME NEW line, ParseLine(Text, line), line = FirstLine(Text)
        PROVE  BufferInv'
    <3>1. Len(Text) \in Nat /\ Len(line) + 2 \in Nat
      BY <2>1, TextIsSeq, LineHasLength DEF BufferInv
    <3>. QED BY <2>1, <3>1, TakeStep DEF ParseLine
  <2>2. CASE UNCHANGED vars
    BY <2>2, BufferStep
  <2>. QED BY <1>3, <2>1, <2>2 DEF Parse, Refuse
<1>4. CASE UNCHANGED vars
  BY <1>4, BufferStep
<1>5. CASE OnMessage /\ ~Parse
  BY <1>4, <1>5 DEF OnMessage, Stat, Unopened, Crash, SendPage
<1>6. CASE OnDestroy \/ Edit \/ UNCHANGED sessionVars
  BY <1>4, <1>6 DEF OnDestroy, Edit, sessionVars
<1>. QED BY <1>1, <1>2, <1>3, <1>5, <1>6 DEF SessionNext

\* A session starts with a new buffer and keeps its invariant.
LEMMA SessionBuffer == SessionSpec => []BufferInv
<1>1. SessionInit => BufferInv
  BY BufferInit DEF SessionInit
<1>. QED BY <1>1, SessionStep, PTL DEF SessionSpec

\* Whatever a client sends and the parser takes, the indices of the input buffer
\* stay in order and within its vector.
THEOREM SessionTypeOK == SessionSpec => []TypeOK
<1>1. BufferInv => TypeOK
  BY DEF BufferInv
<1>. QED BY SessionBuffer, <1>1, PTL

\* Whatever a client sends and the parser takes, what the parser has still to
\* see is what has arrived and not been taken, in order.
THEOREM SessionBytesInOrder == SessionSpec => []BytesInOrder
<1>1. BufferInv => BytesInOrder
  BY DEF BufferInv
<1>. QED BY SessionBuffer, <1>1, PTL

------------------------------------------------------------------------------
\* The answers.

\* The letters; the client's requests are made of them.
LetterSet == {"GET", "POST", "TP", "CR", "LF", "type", "form", "host", "name",
              "user", "pass", "word", "junk"}
Kinds == {"get", "login", "bad"}

LEMMA LettersType ==
  \A kind \in Kinds : Letters(kind) \in Seq(LetterSet) /\ Len(Letters(kind)) > 0
<1>1. Letters("get") \in Seq(LetterSet)
  BY DEF Letters, LetterSet
<1>2. Letters("login") \in Seq(LetterSet)
  BY DEF Letters, LetterSet
<1>3. Letters("bad") \in Seq(LetterSet)
  BY DEF Letters, LetterSet
<1>4. /\ Len(Letters("get")) = 10
      /\ Len(Letters("login")) = 13
      /\ Len(Letters("bad")) = 5
  BY DEF Letters
<1>5. \A kind \in Kinds : kind = "get" \/ kind = "login" \/ kind = "bad"
  BY DEF Kinds
<1>6. 10 > 0 /\ 13 > 0 /\ 5 > 0
  OBVIOUS
<1>. QED BY <1>1, <1>2, <1>3, <1>4, <1>5, <1>6

\* What the first k requests of a script s send.
Parts(s) == [i \in DOMAIN s |-> Letters(s[i])]
Flat(s) == CHOOSE f : Flattens(LetterSet, Parts(s), f)
Sent(s, k) == Len(Flat(s)[k])

\* The k-th request of a script is, in the stream, where Sent says.
Located(s, bytes, k) == IsPart(bytes, Flat(s), k, Letters(s[k]))

LEMMA ScriptSent ==
  ASSUME NEW s \in Scripts
  PROVE  /\ s \in Seq(Kinds)
         /\ Sent(s, 0) = 0
         /\ Sent(s, Len(s)) = Len(Streams[s])
         /\ \A k \in 0..Len(s) : Sent(s, k) \in Nat
         /\ \A k \in 1..Len(s) : Located(s, Streams[s], k)
<1>1. s \in Seq(Kinds)
  BY HttpAssumption DEF Kinds
<1>2. /\ Parts(s) \in Seq(Seq(LetterSet)) /\ Len(Parts(s)) = Len(s)
      /\ \A i \in 1..Len(s) : Parts(s)[i] = Letters(s[i])
  BY <1>1, LettersType DEF Parts
<1>3. Flattens(LetterSet, Parts(s), Flat(s))
  BY <1>2, FlattenExists DEF Flat
<1>4. Streams[s] = FlattenSeq(Parts(s))
  BY DEF Streams, Parts
<1>5. FlattenSeq(Parts(s)) = Flat(s)[Len(s)]
  BY <1>2, <1>3, FlattenIs
<1> DEFINE p == Parts(s)
           f == Flat(s)
<1>6. /\ Len(f[0]) = 0
      /\ \A k \in 0..Len(p) : Len(f[k]) \in Nat
      /\ \A k \in 1..Len(p) : IsPart(FlattenSeq(p), f, k, p[k])
  <2>1. p \in Seq(Seq(LetterSet)) /\ Flattens(LetterSet, p, f)
    BY <1>2, <1>3
  <2> HIDE DEF p, f
  <2>. QED BY <2>1, FlattenSeqParts
<1>7. ASSUME NEW k \in 1..Len(s) PROVE Located(s, Streams[s], k)
  BY <1>2, <1>4, <1>6 DEF Located
<1>. QED BY <1>1, <1>2, <1>4, <1>5, <1>6, <1>7 DEF Sent

\* A text that is what is left of the letters after the first o.
RestOf(text, letters, o) ==
  /\ text \in Seq(LetterSet)
  /\ Len(text) = Len(letters) - o
  /\ \A i \in 1..Len(text) : text[i] = letters[o + i]

\* The first line of a text whose first CRLF comes after k letters,
LEMMA LineIs ==
  ASSUME NEW t \in Seq(LetterSet), NEW k \in Nat, k + 2 <= Len(t),
         t[k + 1] = "CR", t[k + 2] = "LF",
         \A i \in 1..k : ~(t[i] = "CR" /\ t[i + 1] = "LF")
  PROVE  /\ FirstLine(t) \in Seq(LetterSet) /\ Len(FirstLine(t)) = k
         /\ \A i \in 1..k : FirstLine(t)[i] = t[i]
<1> DEFINE before == {i \in DOMAIN t : \A j \in CRLFs(t) : i < j}
<1>1. k + 1 \in CRLFs(t) /\ CRLFs(t) \subseteq Nat
  BY DEF CRLFs
<1>2. \A j \in CRLFs(t) : j > k
  BY DEF CRLFs
<1>3. before = 1..k
  BY <1>1, <1>2
<1>4. Cardinality(1..k) = k
  BY FS_Interval
<1>5. FirstLine(t) = SubSeq(t, 1, k)
  BY <1>3, <1>4 DEF FirstLine
<1>. QED BY <1>5

\* and of one without a CRLF.
LEMMA LineIsText ==
  ASSUME NEW t \in Seq(LetterSet),
         \A i \in 1..Len(t) : t[i] # "CR"
  PROVE  FirstLine(t) = t
<1> DEFINE before == {i \in DOMAIN t : \A j \in CRLFs(t) : i < j}
<1>1. CRLFs(t) = {}
  BY DEF CRLFs
<1>2. before = 1..Len(t)
  BY <1>1
<1>3. Cardinality(1..Len(t)) = Len(t)
  <2>1. Len(t) \in Nat
    OBVIOUS
  <2>. QED BY <2>1, FS_Interval
<1>4. FirstLine(t) = SubSeq(t, 1, Len(t))
  BY <1>2, <1>3 DEF FirstLine
<1>. QED BY <1>4

LEMMA LineOfTwo ==
  ASSUME NEW t \in Seq(LetterSet), Len(t) >= 4,
         t[1] # "CR", t[2] # "CR", t[3] = "CR", t[4] = "LF"
  PROVE  /\ FirstLine(t) \in Seq(LetterSet) /\ Len(FirstLine(t)) = 2
         /\ FirstLine(t)[1] = t[1] /\ FirstLine(t)[2] = t[2]
<1>1. 2 \in Nat /\ 2 + 2 <= Len(t) /\ t[2 + 1] = "CR" /\ t[2 + 2] = "LF"
  OBVIOUS
<1>2. \A i \in 1..2 : ~(t[i] = "CR" /\ t[i + 1] = "LF")
  OBVIOUS
<1>3. /\ FirstLine(t) \in Seq(LetterSet) /\ Len(FirstLine(t)) = 2
      /\ \A i \in 1..2 : FirstLine(t)[i] = t[i]
  BY ONLY t \in Seq(LetterSet), <1>1, <1>2, LineIs
<1>. QED BY <1>3

LEMMA LineOfOne ==
  ASSUME NEW t \in Seq(LetterSet), Len(t) >= 3,
         t[1] # "CR", t[2] = "CR", t[3] = "LF"
  PROVE  /\ FirstLine(t) \in Seq(LetterSet) /\ Len(FirstLine(t)) = 1
         /\ FirstLine(t)[1] = t[1]
<1>1. 1 \in Nat /\ 1 + 2 <= Len(t) /\ t[1 + 1] = "CR" /\ t[1 + 2] = "LF"
  OBVIOUS
<1>2. \A i \in 1..1 : ~(t[i] = "CR" /\ t[i + 1] = "LF")
  OBVIOUS
<1>3. /\ FirstLine(t) \in Seq(LetterSet) /\ Len(FirstLine(t)) = 1
      /\ \A i \in 1..1 : FirstLine(t)[i] = t[i]
  BY ONLY t \in Seq(LetterSet), <1>1, <1>2, LineIs
<1>. QED BY <1>3

LEMMA LineOfNone ==
  ASSUME NEW t \in Seq(LetterSet), Len(t) >= 2, t[1] = "CR", t[2] = "LF"
  PROVE  FirstLine(t) \in Seq(LetterSet) /\ Len(FirstLine(t)) = 0
<1>1. 0 \in Nat /\ 0 + 2 <= Len(t) /\ t[0 + 1] = "CR" /\ t[0 + 2] = "LF"
  OBVIOUS
<1>2. \A i \in 1..0 : ~(t[i] = "CR" /\ t[i + 1] = "LF")
  OBVIOUS
<1>3. FirstLine(t) \in Seq(LetterSet) /\ Len(FirstLine(t)) = 0
  BY ONLY t \in Seq(LetterSet), <1>1, <1>2, LineIs
<1>. QED BY <1>3

\* The first line of each text that the parser meets when a read brings one
\* request: the request line,
LEMMA RequestLines ==
  ASSUME NEW kind \in Kinds, NEW t, RestOf(t, Letters(kind), 0),
         NEW line, line = FirstLine(t)
  PROVE  /\ line \in Seq(LetterSet)
         /\ kind = "get" => /\ Len(t) = 10 /\ Len(line) = 2
                            /\ line[1] = "GET" /\ line[2] = "TP"
         /\ kind = "login" => /\ Len(t) = 13 /\ Len(line) = 2
                              /\ line[1] = "POST" /\ line[2] = "TP"
         /\ kind = "bad" => Len(t) = 5 /\ Len(line) = 1 /\ line[1] = "junk"
<1>1. CASE kind = "get"
  <2>1. /\ Len(t) = 10 /\ t \in Seq(LetterSet)
        /\ t[1] = "GET" /\ t[2] = "TP" /\ t[3] = "CR" /\ t[4] = "LF"
    BY <1>1 DEF RestOf, Letters
  <2>. QED BY <1>1, <2>1, LineOfTwo
<1>2. CASE kind = "login"
  <2>0. /\ Len(Letters("login")) = 13
        /\ Letters("login")[1] = "POST" /\ Letters("login")[2] = "TP"
        /\ Letters("login")[3] = "CR" /\ Letters("login")[4] = "LF"
    BY DEF Letters
  <2>1. /\ Len(t) = 13 /\ t \in Seq(LetterSet)
        /\ t[1] = "POST" /\ t[2] = "TP" /\ t[3] = "CR" /\ t[4] = "LF"
    BY <1>2, <2>0 DEF RestOf
  <2>. QED BY <1>2, <2>1, LineOfTwo
<1>3. CASE kind = "bad"
  <2>1. /\ Len(t) = 5 /\ t \in Seq(LetterSet)
        /\ t[1] = "junk" /\ t[2] = "CR" /\ t[3] = "LF"
    BY <1>3 DEF RestOf, Letters
  <2>. QED BY <1>3, <2>1, LineOfOne
<1>. QED BY <1>1, <1>2, <1>3 DEF Kinds

\* a header, and what comes after the headers.
LEMMA GetLines ==
  ASSUME NEW t, NEW line, line = FirstLine(t)
  PROVE  /\ RestOf(t, Letters("get"), 4) =>
              /\ Len(t) = 6 /\ line \in Seq(LetterSet) /\ Len(line) = 2
              /\ line[1] = "host" /\ line[2] = "name"
         /\ RestOf(t, Letters("get"), 8) =>
              Len(t) = 2 /\ line \in Seq(LetterSet) /\ Len(line) = 0
<1>1. ASSUME RestOf(t, Letters("get"), 4)
      PROVE  /\ Len(t) = 6 /\ line \in Seq(LetterSet) /\ Len(line) = 2
             /\ line[1] = "host" /\ line[2] = "name"
  <2>1. /\ Len(t) = 6 /\ t \in Seq(LetterSet)
        /\ t[1] = "host" /\ t[2] = "name" /\ t[3] = "CR" /\ t[4] = "LF"
    BY <1>1 DEF RestOf, Letters
  <2>. QED BY <2>1, LineOfTwo
<1>2. ASSUME RestOf(t, Letters("get"), 8)
      PROVE  Len(t) = 2 /\ line \in Seq(LetterSet) /\ Len(line) = 0
  <2>1. Len(t) = 2 /\ t \in Seq(LetterSet) /\ t[1] = "CR" /\ t[2] = "LF"
    BY <1>2 DEF RestOf, Letters
  <2>. QED BY <2>1, LineOfNone
<1>. QED BY <1>1, <1>2

LEMMA LoginLines ==
  ASSUME NEW t, NEW line, line = FirstLine(t)
  PROVE  /\ RestOf(t, Letters("login"), 4) =>
              Len(t) = 9 /\ Len(line) = 2 /\ line = <<"type", "form">>
         /\ RestOf(t, Letters("login"), 8) =>
              Len(t) = 5 /\ line \in Seq(LetterSet) /\ Len(line) = 0
         /\ RestOf(t, Letters("login"), 10) =>
              /\ Len(t) = 3 /\ line = t
              /\ line = <<"user", "pass", "word">>
<1>1. ASSUME RestOf(t, Letters("login"), 4)
      PROVE  Len(t) = 9 /\ Len(line) = 2 /\ line = <<"type", "form">>
  <2>0. /\ Len(Letters("login")) = 13
        /\ Letters("login")[5] = "type" /\ Letters("login")[6] = "form"
        /\ Letters("login")[7] = "CR" /\ Letters("login")[8] = "LF"
    BY DEF Letters
  <2>1. /\ Len(t) = 9 /\ t \in Seq(LetterSet)
        /\ t[1] = "type" /\ t[2] = "form" /\ t[3] = "CR" /\ t[4] = "LF"
    BY <1>1, <2>0, SMTT(30) DEF RestOf
  <2>2. /\ line \in Seq(LetterSet) /\ Len(line) = 2
        /\ line[1] = "type" /\ line[2] = "form"
    BY <2>1, LineOfTwo
  <2>. QED BY <2>1, <2>2
<1>2. ASSUME RestOf(t, Letters("login"), 8)
      PROVE  Len(t) = 5 /\ line \in Seq(LetterSet) /\ Len(line) = 0
  <2>1. Len(t) = 5 /\ t \in Seq(LetterSet) /\ t[1] = "CR" /\ t[2] = "LF"
    BY <1>2 DEF RestOf, Letters
  <2>. QED BY <2>1, LineOfNone
<1>3. ASSUME RestOf(t, Letters("login"), 10)
      PROVE  /\ Len(t) = 3 /\ line = t
             /\ line = <<"user", "pass", "word">>
  <2>1. /\ Len(t) = 3 /\ t \in Seq(LetterSet)
        /\ t[1] = "user" /\ t[2] = "pass" /\ t[3] = "word"
    BY <1>3 DEF RestOf, Letters
  <2>2. \A i \in 1..Len(t) : t[i] # "CR"
    BY <2>1
  <2>3. line = t
    BY <2>1, <2>2, LineIsText
  <2>. QED BY <2>1, <2>3
<1>. QED BY <1>1, <1>2, <1>3

\* The fields of an HttpRequest,
IsRequest(r) == DOMAIN r = {"state", "method", "path", "form", "asked"}

\* and what the three functions make of them: q is made of r.
ByRequestLine(r, line, q) ==
  /\ IsRequest(q)
  /\ q.state = "HEADERS"
  /\ q.method = (IF line[1] = "POST" THEN "POST" ELSE "other")
  /\ q.path = (IF Contains(line, "POST") THEN "login" ELSE "index")
  /\ q.form = r.form /\ q.asked = r.asked

ByHeader(r, line, n, q) ==
  /\ IsRequest(q)
  /\ q.state = (IF n <= 2 THEN "FINISH"
                ELSE IF IsHeader(line) THEN "HEADERS" ELSE "BODY")
  /\ q.method = r.method /\ q.path = r.path /\ q.asked = r.asked
  /\ r.form = TRUE \/ line = <<"type", "form">> => q.form = TRUE

ByBody(r, line, q) ==
  /\ IsRequest(q)
  /\ q.path \in {r.path, "welcome", "error"}
  /\ r.method = "POST" /\ r.form = TRUE =>
       q.path \in {"welcome", "error"} /\ q.asked = line

LEMMA RequestFields ==
  ASSUME NEW r, IsRequest(r), NEW line, NEW n, NEW verified
  PROVE  /\ ByRequestLine(r, line, ParseRequestLine(r, line))
         /\ ByHeader(r, line, n, ParseHeader(r, line, n))
         /\ ByBody(r, line, ParseBody(r, line, verified))
<1>1. ASSUME NEW q, q = ParseRequestLine(r, line)
      PROVE  ByRequestLine(r, line, q)
  BY <1>1 DEF ParseRequestLine, IsRequest, ByRequestLine
<1>2. ASSUME NEW q, q = ParseHeader(r, line, n)
      PROVE  ByHeader(r, line, n, q)
  <2>1. IsRequest(q)
    BY <1>2 DEF ParseHeader, IsRequest
  <2>2. q.method = r.method /\ q.path = r.path /\ q.asked = r.asked
    BY <1>2 DEF ParseHeader, IsRequest
  <2>3. q.state = (IF n <= 2 THEN "FINISH"
                   ELSE IF IsHeader(line) THEN "HEADERS" ELSE "BODY")
    BY <1>2 DEF ParseHeader, IsRequest
  <2>4. r.form = TRUE \/ line = <<"type", "form">> => q.form = TRUE
    BY <1>2 DEF ParseHeader, IsRequest
  <2>. QED BY <2>1, <2>2, <2>3, <2>4 DEF ByHeader
<1>3. ASSUME NEW q, q = ParseBody(r, line, verified)
      PROVE  ByBody(r, line, q)
  BY <1>3 DEF ParseBody, IsRequest, Credentials, ByBody
<1>. QED BY <1>1, <1>2, <1>3

\* Where the parser is when it has taken the first o letters of a request,
Stage(kind, o, r) ==
  \/ /\ o = 0
     /\ r = NewRequest
  \/ /\ kind = "get"
     /\ r.path = "index" /\ r.asked = <<>>
     /\ \/ o \in {4, 8} /\ r.state = "HEADERS"
        \/ o = 10 /\ r.state = "FINISH"
  \/ /\ kind = "login"
     /\ r.method = "POST" /\ r.path = "login" /\ r.asked = <<>>
     /\ \/ o = 4 /\ r.state = "HEADERS"
        \/ o = 8 /\ r.state = "HEADERS" /\ r.form = TRUE
        \/ o = 10 /\ r.state = "BODY" /\ r.form = TRUE

\* and what it has found when it is done.
Done(kind, r) ==
  \/ kind = "get" /\ r.path = "index" /\ r.asked = <<>>
  \/ /\ kind = "login"
     /\ r.path \in {"welcome", "error"}
     /\ r.asked = <<"user", "pass", "word">>

\* The request lines,
LEMMA FirstStage ==
  ASSUME NEW kind \in Kinds, NEW t, RestOf(t, Letters(kind), 0),
         NEW line, line = FirstLine(t),
         NEW q, ByRequestLine(NewRequest, line, q)
  PROVE  /\ line # t
         /\ kind = "bad" => ~IsRequestLine(line)
         /\ kind # "bad" =>
              IsRequestLine(line) /\ Len(line) = 2 /\ Stage(kind, 4, q)
<1>0. NewRequest.asked = <<>>
  BY DEF NewRequest
<1>1. CASE kind = "get"
  <2>1. /\ Len(t) = 10 /\ line \in Seq(LetterSet) /\ Len(line) = 2
        /\ line[1] = "GET" /\ line[2] = "TP"
    BY <1>1, RequestLines
  <2>2. IsRequestLine(line)
    <3>1. 1 \in 1..(Len(line) - 1) /\ line[1 + 1] = "TP"
      BY <2>1
    <3>2. \A j \in DOMAIN line \ {1} : line[j] \notin Targets
      BY <2>1 DEF Targets
    <3>. QED BY <2>1, <3>1, <3>2 DEF IsRequestLine, Targets
  <2>3. ~Contains(line, "POST")
    BY <2>1 DEF Contains
  <2>4. /\ q.state = "HEADERS" /\ q.method = "other" /\ q.path = "index"
        /\ q.asked = <<>>
    BY <1>0, <2>1, <2>3 DEF ByRequestLine
  <2>5. line # t
    <3>1. Len(line) # Len(t)
      BY <2>1
    <3>. QED BY ONLY <3>1
  <2>6. Stage(kind, 4, q)
    BY <1>1, <2>4 DEF Stage
  <2>. QED BY <1>1, <2>1, <2>2, <2>5, <2>6
<1>2. CASE kind = "login"
  <2>1. /\ Len(t) = 13 /\ line \in Seq(LetterSet) /\ Len(line) = 2
        /\ line[1] = "POST" /\ line[2] = "TP"
    BY <1>2, RequestLines
  <2>2. IsRequestLine(line)
    <3>1. 1 \in 1..(Len(line) - 1) /\ line[1 + 1] = "TP"
      BY <2>1
    <3>2. \A j \in DOMAIN line \ {1} : line[j] \notin Targets
      BY <2>1 DEF Targets
    <3>. QED BY <2>1, <3>1, <3>2 DEF IsRequestLine, Targets
  <2>3. Contains(line, "POST")
    BY <2>1 DEF Contains
  <2>4. /\ q.state = "HEADERS" /\ q.method = "POST" /\ q.path = "login"
        /\ q.asked = <<>>
    BY <1>0, <2>1, <2>3 DEF ByRequestLine
  <2>5. line # t
    <3>1. Len(line) # Len(t)
      BY <2>1
    <3>. QED BY ONLY <3>1
  <2>6. Stage(kind, 4, q)
    BY <1>2, <2>4 DEF Stage
  <2>. QED BY <1>2, <2>1, <2>2, <2>5, <2>6
<1>3. CASE kind = "bad"
  <2>1. /\ Len(t) = 5 /\ line \in Seq(LetterSet) /\ Len(line) = 1
        /\ line[1] = "junk"
    BY <1>3, RequestLines
  <2>2. ~IsRequestLine(line)
    BY <2>1 DEF IsRequestLine
  <2>3. line # t
    <3>1. Len(line) # Len(t)
      BY <2>1
    <3>. QED BY ONLY <3>1
  <2>. QED BY <1>3, <2>2, <2>3
<1>. QED BY <1>1, <1>2, <1>3 DEF Kinds

\* the headers and the empty line after them,
LEMMA HeaderStage ==
  ASSUME NEW kind \in Kinds, NEW o \in {4, 8}, NEW r,
         Stage(kind, o, r), r.state = "HEADERS",
         NEW t, RestOf(t, Letters(kind), o), NEW line, line = FirstLine(t),
         NEW q, ByHeader(r, line, Len(t), q)
  PROVE  /\ line # t
         /\ Len(line) \in Nat /\ o + (Len(line) + 2) \in {8, 10}
         /\ Stage(kind, o + (Len(line) + 2), q)
<1>a. kind \in {"get", "login"}
  BY DEF Stage
<1>1. CASE kind = "get" /\ o = 4
  <2>1. /\ Len(t) = 6 /\ line \in Seq(LetterSet) /\ Len(line) = 2
        /\ line[1] = "host" /\ line[2] = "name"
    BY <1>1, GetLines
  <2>2. IsHeader(line)
    <3>1. 1 \in DOMAIN line
      BY <2>1
    <3>2. \A j \in (1 + 1)..Len(line) : line[j] \notin {"CR", "LF"}
      BY <2>1
    <3>. QED BY <2>1, <3>1, <3>2 DEF IsHeader
  <2>3. r.path = "index" /\ r.asked = <<>>
    BY <1>1 DEF Stage
  <2>4. /\ q.state = "HEADERS"
        /\ q.path = "index"
        /\ q.asked = <<>>
    BY <2>1, <2>2, <2>3 DEF ByHeader
  <2>5. o + (Len(line) + 2) = 8
    BY <1>1, <2>1
  <2>6. line # t
    <3>1. Len(line) # Len(t)
      BY <2>1
    <3>. QED BY ONLY <3>1
  <2>7. Stage(kind, o + (Len(line) + 2), q)
    BY <1>1, <2>4, <2>5 DEF Stage
  <2>. QED BY <2>1, <2>5, <2>6, <2>7
<1>2. CASE kind = "get" /\ o = 8
  <2>1. Len(t) = 2 /\ line \in Seq(LetterSet) /\ Len(line) = 0
    BY <1>2, GetLines
  <2>3. r.path = "index" /\ r.asked = <<>>
    BY <1>2 DEF Stage
  <2>4. /\ q.state = "FINISH"
        /\ q.path = "index"
        /\ q.asked = <<>>
    BY <2>1, <2>3 DEF ByHeader
  <2>5. o + (Len(line) + 2) = 10
    BY <1>2, <2>1
  <2>6. line # t
    <3>1. Len(line) # Len(t)
      BY <2>1
    <3>. QED BY ONLY <3>1
  <2>7. Stage(kind, o + (Len(line) + 2), q)
    BY <1>2, <2>4, <2>5 DEF Stage
  <2>. QED BY <2>1, <2>5, <2>6, <2>7
<1>3. CASE kind = "login" /\ o = 4
  <2>1. /\ Len(t) = 9 /\ Len(line) = 2 /\ line = <<"type", "form">>
    BY <1>3, LoginLines
  <2>2. IsHeader(line)
    <3>0. line[1] = "type" /\ line[2] = "form" /\ Len(line) = 2 /\ DOMAIN line = 1..2
      BY <2>1
    <3>1. 1 \in DOMAIN line
      BY <3>0
    <3>2. \A j \in (1 + 1)..Len(line) : line[j] \notin {"CR", "LF"}
      BY <3>0
    <3>. QED BY <3>0, <3>1, <3>2 DEF IsHeader
  <2>3. r.method = "POST" /\ r.path = "login" /\ r.asked = <<>>
    BY <1>3 DEF Stage
  <2>4. /\ q.state = "HEADERS"
        /\ q.method = "POST"
        /\ q.path = "login"
        /\ q.form = TRUE
        /\ q.asked = <<>>
    BY <2>1, <2>2, <2>3 DEF ByHeader
  <2>5. o + (Len(line) + 2) = 8
    BY <1>3, <2>1
  <2>6. line # t
    <3>1. Len(line) # Len(t)
      BY <2>1
    <3>. QED BY ONLY <3>1
  <2>7. Stage(kind, o + (Len(line) + 2), q)
    BY <1>3, <2>4, <2>5 DEF Stage
  <2>. QED BY <2>1, <2>5, <2>6, <2>7
<1>4. CASE kind = "login" /\ o = 8
  <2>1. Len(t) = 5 /\ line \in Seq(LetterSet) /\ Len(line) = 0
    BY <1>4, LoginLines
  <2>2. ~IsHeader(line)
    BY <2>1 DEF IsHeader
  <2>3. r.method = "POST" /\ r.path = "login" /\ r.asked = <<>> /\ r.form = TRUE
    BY <1>4 DEF Stage
  <2>4. /\ q.state = "BODY"
        /\ q.method = "POST"
        /\ q.path = "login"
        /\ q.form = TRUE
        /\ q.asked = <<>>
    BY <2>1, <2>2, <2>3 DEF ByHeader
  <2>5. o + (Len(line) + 2) = 10
    BY <1>4, <2>1
  <2>6. line # t
    <3>1. Len(line) # Len(t)
      BY <2>1
    <3>. QED BY ONLY <3>1
  <2>7. Stage(kind, o + (Len(line) + 2), q)
    BY <1>4, <2>4, <2>5 DEF Stage
  <2>. QED BY <2>1, <2>5, <2>6, <2>7
<1>. QED BY <1>a, <1>1, <1>2, <1>3, <1>4, Zenon

\* and the body of a login.
LEMMA BodyStage ==
  ASSUME NEW kind \in Kinds, NEW o, NEW r,
         Stage(kind, o, r), r.state = "BODY",
         NEW t, RestOf(t, Letters(kind), o), NEW line, line = FirstLine(t),
         NEW q, ByBody(r, line, q)
  PROVE  line = t /\ Done(kind, q)
<1>0. NewRequest.state = "REQUEST_LINE"
  BY DEF NewRequest
<1>1. kind = "login" /\ o = 10 /\ r.method = "POST" /\ r.form = TRUE
  BY <1>0 DEF Stage
<1>2. line = t /\ line = <<"user", "pass", "word">>
  BY <1>1, LoginLines
<1>3. q.path \in {"welcome", "error"} /\ q.asked = line
  BY <1>1, <1>2 DEF ByBody
<1>. QED BY <1>1, <1>2, <1>3 DEF Done

------------------------------------------------------------------------------
\* A sequence, whatever is in it.
IsSeq(s) == Len(s) \in Nat /\ s = [i \in 1..Len(s) |-> s[i]]

LEMMA AppendIsSeq ==
  ASSUME NEW s, IsSeq(s), NEW e
  PROVE  /\ IsSeq(Append(s, e)) /\ Len(Append(s, e)) = Len(s) + 1
         /\ \A i \in 1..Len(s) : Append(s, e)[i] = s[i]
         /\ Append(s, e)[Len(s) + 1] = e
<1> DEFINE X == {s[i] : i \in 1..Len(s)} \cup {e}
<1>1. s \in Seq(X)
  BY DEF IsSeq
<1>2. e \in X
  OBVIOUS
<1> HIDE DEF X
<1>3. /\ Append(s, e) \in Seq(X) /\ Len(Append(s, e)) = Len(s) + 1
      /\ \A i \in 1..Len(s) : Append(s, e)[i] = s[i]
      /\ Append(s, e)[Len(s) + 1] = e
  BY <1>1, <1>2
<1>4. IsSeq(Append(s, e))
  <2>1. ASSUME NEW u \in Seq(X) PROVE IsSeq(u)
    BY DEF IsSeq
  <2>. QED BY <1>3, <2>1
<1>. QED BY <1>3, <1>4

\* As long as the files have been left alone, every page is there.
Alone ==
  /\ site = [p \in Pages |-> File(TRUE, 1)]
  /\ phase # "crashed"
  /\ phase = "content" => response.page \in Pages /\ response.size = 1

\* What is true of a session, whatever is sent.
SessionBasics ==
  /\ script \in Scripts
  /\ edits \in Nat /\ reads \in Nat
  /\ IsRequest(req)
  /\ req.path \in {"", "index", "login", "welcome", "error"}
  /\ script = <<>> => phase = "idle" /\ answers = <<>>

\* Where a connected connection is: it has answered all requests but the one
\* that it is at.
Idle == phase = "idle" /\ Len(answers) = reads /\ taken = appended

Parsing ==
  /\ phase = "parse"
  /\ reads >= 1 /\ Len(answers) = reads - 1
  /\ \E o \in 0..Len(Letters(script[reads])) :
       /\ Stage(script[reads], o, req)
       /\ taken = Sent(script, reads - 1) + o

Responding ==
  /\ phase \in {"stat", "content"}
  /\ reads >= 1 /\ Len(answers) = reads - 1
  /\ taken = appended
  /\ Done(script[reads], req)
  /\ phase = "content" /\ edits = 0 => response.page = req.path

\* As long as each read brings one request.
Matching ==
  /\ reads <= Len(script)
  /\ appended = Sent(script, reads)
  /\ IsSeq(answers) /\ Len(answers) <= reads
  /\ \A i \in 1..Len(answers) : Answers(answers[i], script[i])
  /\ state = "connected" =>
       Idle \/ Parsing \/ Responding \/ phase = "crashed"

Matched == whole /\ script # <<>> => Matching

SessionInv ==
  BufferInv /\ SessionBasics /\ (edits = 0 => Alone) /\ Matched

\* What the parser sees when it has taken the first o letters of a request.
LEMMA TextRest ==
  ASSUME BufferInv, script \in Scripts, reads \in 1..Len(script),
         appended = Sent(script, reads),
         NEW o \in 0..Len(Letters(script[reads])),
         taken = Sent(script, reads - 1) + o
  PROVE  /\ script[reads] \in Kinds
         /\ ReadableBytes(buf) = Len(Letters(script[reads])) - o
         /\ RestOf(Text, Letters(script[reads]), o)
<1> DEFINE kind == script[reads]
           L == Letters(kind)
           n == ReadableBytes(buf)
           before == Sent(script, reads - 1)
<1>1. kind \in Kinds
  BY ScriptSent
<1>2. L \in Seq(LetterSet)
  BY <1>1, LettersType
<1>3. /\ before \in Nat
      /\ appended = before + Len(L)
      /\ \A i \in 1..Len(L) : stream[before + i] = L[i]
  <2>1. Located(script, stream, reads) /\ reads - 1 \in 0..Len(script)
    BY ScriptSent DEF stream
  <2>. QED BY <2>1, ScriptSent DEF Located, IsPart, Sent
<1> HIDE DEF kind, L, before
<1>4. /\ n = appended - taken
      /\ \A i \in 0..(n - 1) : buf.data[buf.reader + i] = taken + 1 + i
      /\ n \in Nat /\ buf.reader \in Nat
  BY SMTT(30) DEF BufferInv, BytesInOrder, Holds, TypeOK, IsBuffer, ReadableBytes
<1> DEFINE len == Len(L)
<1>b. taken = before + o /\ o \in 0..len /\ len \in Nat
  BY <1>2 DEF before, L, kind
<1>c. /\ before \in Nat /\ appended = before + len /\ n = appended - taken
      /\ n \in Nat /\ buf.reader \in Nat
  BY <1>3, <1>4
<1> HIDE DEF n, len
<1>5. n = len - o
  BY ONLY <1>b, <1>c
<1>6. ASSUME NEW i \in 1..n
      PROVE  Text[i] = L[o + i] /\ Text[i] \in LetterSet
  <2>1. /\ i - 1 \in 0..(n - 1) /\ buf.reader + (i - 1) = buf.reader + i - 1
        /\ o + i \in 1..len /\ taken + 1 + (i - 1) = before + (o + i)
    BY ONLY <1>5, <1>b, <1>c, i \in 1..n
  <2>2. Text[i] = stream[buf.data[buf.reader + i - 1]]
    BY DEF Text, n
  <2>3. Text[i] = stream[before + (o + i)]
    BY <1>4, <2>1, <2>2
  <2>. QED BY <1>2, <1>3, <2>1, <2>3, SMTT(30) DEF len
<1>7. Text \in Seq(LetterSet) /\ Len(Text) = n
  <2> DEFINE F(i) == stream[buf.data[buf.reader + i - 1]]
  <2>1. Text = [i \in 1..n |-> F(i)]
    BY DEF Text, n
  <2>2. \A i \in 1..n : F(i) \in LetterSet
    BY <1>6 DEF Text, n
  <2>3. n \in Nat
    BY <1>4
  <2> HIDE DEF F
  <2>. QED BY ONLY <2>1, <2>2, <2>3
<1>. QED BY <1>1, <1>5, <1>6, <1>7 DEF RestOf, kind, L, n, len

\* Nothing is read for a script without requests.
LEMMA ReadHasScript ==
  ASSUME BufferInv, SessionBasics, NEW n \in 1..Len(stream), Read(n)
  PROVE  script # <<>>
<1> SUFFICES ASSUME script = <<>> PROVE FALSE
  OBVIOUS
<1>1. script \in Scripts
  BY DEF SessionBasics
<1>2. Len(Streams[script]) = Sent(script, Len(script)) /\ Sent(script, 0) = 0
  BY <1>1, ScriptSent
<1>3. Len(script) = 0
  OBVIOUS
<1>4. Len(stream) = 0
  BY <1>2, <1>3 DEF stream
<1>. QED BY <1>4

\* The basics, by what can change them: a new request,
LEMMA BasicsOfParse ==
  ASSUME SessionBasics, Parse
  PROVE  SessionBasics' /\ phase' \in {"parse", "stat"}
<1>0. script # <<>> /\ phase = "parse"
  BY DEF Parse, SessionBasics
<1>1. CASE UNCHANGED <<req, script, edits, reads>> /\ phase' = "stat"
  BY <1>0, <1>1 DEF SessionBasics, IsRequest
<1>2. ASSUME NEW line, ParseLine(Text, line)
      PROVE  SessionBasics' /\ phase' \in {"parse", "stat"}
  <2>0. IsRequest(req)
        /\ req.path \in {"", "index", "login", "welcome", "error"}
    BY DEF SessionBasics
  <2>1. IsRequest(req') /\ req'.path \in {"", "index", "login", "welcome", "error"}
    <3>1. CASE req' = ParseRequestLine(req, line)
      <4>1. ByRequestLine(req, line, req')
        BY <2>0, <3>1, RequestFields
      <4>. QED BY <4>1 DEF ByRequestLine
    <3>2. CASE req' = ParseHeader(req, line, Len(Text))
      <4>1. ByHeader(req, line, Len(Text), req')
        BY <2>0, <3>2, RequestFields
      <4>. QED BY <2>0, <4>1 DEF ByHeader
    <3>3. ASSUME NEW verified, req' = ParseBody(req, line, verified)
          PROVE  IsRequest(req') /\ req'.path \in {"", "index", "login", "welcome", "error"}
      <4>1. ByBody(req, line, req')
        BY <2>0, <3>3, RequestFields
      <4>. QED BY <2>0, <4>1 DEF ByBody
    <3>. QED BY <1>2, <3>1, <3>2, <3>3 DEF ParseLine
  <2>2. UNCHANGED <<script, edits, reads>> /\ phase' \in {"parse", "stat"}
    BY <1>0, <1>2 DEF ParseLine, connVars, siteVars
  <2>. QED BY <1>0, <2>1, <2>2 DEF SessionBasics
<1>. QED BY <1>1, <1>2 DEF Parse, Refuse, connVars, siteVars

\* and the answer to a request.
LEMMA AloneOfStat ==
  ASSUME SessionBasics, edits = 0 => Alone, Stat
  PROVE  edits' = 0 =>
           Alone' /\ (req.path # "" => response'.page = req.path)
<1> SUFFICES ASSUME edits = 0
             PROVE  Alone' /\ (req.path # "" => response'.page = req.path)
  BY DEF Stat, siteVars
<1>1. site = [p \in Pages |-> File(TRUE, 1)] /\ site' = site /\ phase' = "content"
  BY DEF Alone, Stat, siteVars
<1>2. CASE req.path = ""
  <2>1. ~FileAt(req.path).there /\ FileAt(req.path).size = 1
    BY <1>2 DEF FileAt, Missing
  <2>2. response' = ErrorHtml("404", 1)
    BY <2>1 DEF Stat
  <2>3. response' = [page |-> "404", size |-> 1]
    BY <1>1, <2>2 DEF ErrorHtml, Pages, File
  <2>. QED BY <1>1, <1>2, <2>3 DEF Alone, Pages
<1>3. CASE req.path # ""
  <2>1. req.path \in Pages
    BY <1>3 DEF SessionBasics, Pages
  <2>2. FileAt(req.path) = File(TRUE, 1)
    BY <1>1, <1>3, <2>1 DEF FileAt
  <2>3. response' = [page |-> req.path, size |-> 1]
    BY <2>2 DEF Stat, File
  <2>. QED BY <1>1, <2>1, <2>3 DEF Alone
<1>. QED BY <1>2, <1>3

\* Each step keeps the basics, and what holds of files that are left alone.
LEMMA BasicsStep ==
  ASSUME BufferInv, SessionBasics, edits = 0 => Alone,
         [SessionNext]_sessionVars
  PROVE  SessionBasics' /\ (edits' = 0 => Alone')
<1>1. ASSUME NEW n \in 1..Len(stream), Read(n)
      PROVE  SessionBasics' /\ (edits' = 0 => Alone')
  <2>1. script # <<>>
    BY <1>1, ReadHasScript
  <2>2. /\ UNCHANGED <<script, site, edits, response>>
        /\ reads' = reads + 1 /\ phase' = "parse" /\ req' = NewRequest
    BY <1>1 DEF Read, siteVars
  <2>3. IsRequest(NewRequest) /\ NewRequest.path = ""
    BY DEF NewRequest, IsRequest
  <2>4. IsRequest(req') /\ req'.path = ""
    BY <2>2, <2>3
  <2>5. SessionBasics'
    <3>1. script \in Scripts /\ edits \in Nat /\ reads \in Nat
      BY DEF SessionBasics
    <3>2. reads' \in Nat
      BY <2>2, <3>1
    <3>. QED BY <2>1, <2>2, <2>4, <3>1, <3>2 DEF SessionBasics
  <2>. QED BY <2>2, <2>5 DEF Alone
<1>2. CASE Parse
  <2>1. SessionBasics' /\ phase' \in {"parse", "stat"}
    BY <1>2, BasicsOfParse
  <2>2. UNCHANGED <<site, edits>>
    BY <1>2 DEF Parse, Refuse, ParseLine, siteVars
  <2>. QED BY <2>1, <2>2 DEF Alone
<1>3. CASE Stat
  <2>1. SessionBasics'
    BY <1>3 DEF Stat, SessionBasics, connVars, siteVars
  <2>. QED BY <1>3, <2>1, AloneOfStat
<1>4. CASE Unopened \/ SendPage
  <2>1. /\ phase = "content" /\ phase' = "idle"
        /\ UNCHANGED <<script, site, edits, reads, req>>
    BY <1>4 DEF Unopened, SendPage, siteVars
  <2>2. script # <<>>
    BY <2>1 DEF SessionBasics
  <2>. QED BY <2>1, <2>2 DEF SessionBasics, Alone
<1>5. CASE Crash
  <2>1. /\ phase = "content"
        /\ UNCHANGED <<script, site, edits, reads, req, answers>>
        /\ site[response.page].there
        /\ response.size = 0 \/ site[response.page].size < response.size
    BY <1>5 DEF Crash, connVars, siteVars
  <2>2. edits # 0
    <3>1. ASSUME edits = 0 PROVE FALSE
      <4>1. site[response.page] = File(TRUE, 1) /\ response.size = 1
        BY <2>1, <3>1 DEF Alone
      <4>. QED BY <2>1, <4>1 DEF File
    <3>. QED BY <3>1
  <2>. QED BY <2>1, <2>2 DEF SessionBasics
<1>6. CASE OnDestroy
  BY <1>6 DEF OnDestroy, siteVars, SessionBasics, Alone
<1>7. CASE Edit
  <2>1. /\ UNCHANGED <<phase, req, script, reads, answers>>
        /\ edits' = edits + 1
    BY <1>7 DEF Edit, connVars
  <2>2. edits' \in Nat /\ edits' # 0
    <3>1. edits \in Nat
      BY DEF SessionBasics
    <3>. QED BY <2>1, <3>1
  <2>. QED BY <2>1, <2>2 DEF SessionBasics
<1>8. CASE NoClient \/ UNCHANGED sessionVars
  <2>1. UNCHANGED <<phase, req, response, connVars, siteVars>>
    BY <1>8 DEF NoClient, sessionVars
  <2>. QED BY <2>1 DEF connVars, siteVars, SessionBasics, Alone
<1>. QED BY <1>1, <1>2, <1>3, <1>4, <1>5, <1>6, <1>7, <1>8
         DEF SessionNext, OnMessage

\* The length of a request is what its part of the stream takes.
LEMMA SentNext ==
  ASSUME script \in Scripts, NEW k \in 1..Len(script)
  PROVE  /\ script[k] \in Kinds
         /\ Sent(script, k - 1) \in Nat
         /\ Len(Letters(script[k])) \in Nat
         /\ Sent(script, k) = Sent(script, k - 1) + Len(Letters(script[k]))
<1>1. script[k] \in Kinds /\ k - 1 \in 0..Len(script) /\ Located(script, stream, k)
  BY ScriptSent DEF stream
<1>2. Letters(script[k]) \in Seq(LetterSet)
  BY <1>1, LettersType
<1>3. Sent(script, k) = Sent(script, k - 1) + Len(Letters(script[k]))
  BY <1>1 DEF Located, IsPart, Sent
<1>. QED BY <1>1, <1>2, <1>3, ScriptSent

\* A read of one request brings the parser to its start.
LEMMA ReadMatches ==
  ASSUME SessionInv, NEW n \in 1..Len(stream), Read(n)
  PROVE  Matched'
<1> SUFFICES ASSUME whole'
             PROVE  Matching'
  BY DEF Matched
<1>1. /\ script \in Scripts /\ script # <<>>
      /\ reads \in Nat /\ appended \in Nat /\ taken \in Nat
      /\ BufferInv /\ SessionBasics
  <2>1. script # <<>>
    BY ReadHasScript DEF SessionInv
  <2>. QED BY <2>1 DEF SessionInv, SessionBasics, BufferInv, TypeOK
<1>2. /\ appended + n <= Len(stream) /\ appended' = appended + n
      /\ taken' = taken
      /\ whole /\ n = Len(Letters(script[reads + 1]))
      /\ reads' = reads + 1 /\ phase = "idle" /\ phase' = "parse"
      /\ req' = NewRequest
      /\ UNCHANGED <<script, state, answers, edits>>
  BY DEF Read, ReadFd, siteVars
<1>3. Matching
  BY <1>1, <1>2 DEF SessionInv, Matched
<1>4. reads <= Len(script) /\ appended = Sent(script, reads)
      /\ Len(answers) <= reads /\ IsSeq(answers) /\ Len(script) \in Nat
  BY <1>1, <1>3, ScriptSent DEF Matching
<1>5. reads + 1 \in 1..Len(script)
  <2>1. Sent(script, Len(script)) = Len(stream)
    BY <1>1, ScriptSent DEF stream
  <2>2. Len(stream) \in Nat
    <3>1. Len(script) \in 0..Len(script)
      BY <1>4
    <3>. QED BY <1>1, <2>1, <3>1, ScriptSent
  <2>3. reads # Len(script)
    <3>1. ASSUME reads = Len(script) PROVE FALSE
      <4>1. appended = Len(stream)
        BY <1>4, <2>1, <3>1
      <4>. QED BY ONLY <4>1, <2>2, <1>2, n \in 1..Len(stream)
    <3>. QED BY <3>1
  <2>. QED BY <1>1, <1>4, <2>3
<1>6. /\ script[reads + 1] \in Kinds
      /\ Sent(script, reads + 1) = Sent(script, reads) + n
      /\ n \in Nat
  <2>1. (reads + 1) - 1 = reads
    BY <1>1
  <2>. QED BY <1>1, <1>2, <1>5, <2>1, SentNext
<1>7. appended' = Sent(script, reads + 1)
  BY <1>2, <1>4, <1>6
<1>8. ASSUME state = "connected"
      PROVE  Parsing'
  <2>1. Len(answers) = reads /\ taken = appended
    BY <1>2, <1>3, <1>8 DEF Matching, Idle, Parsing, Responding
  <2>2. /\ reads' >= 1 /\ Len(answers') = reads' - 1 /\ reads' - 1 = reads
        /\ taken' = Sent(script, reads) + 0
    BY <1>1, <1>2, <1>4, <2>1
  <2>3. Stage(script[reads'], 0, req')
    BY <1>2 DEF Stage
  <2>4. 0 \in 0..Len(Letters(script[reads']))
    BY <1>2, <1>6
  <2>. QED BY <1>2, <2>2, <2>3, <2>4 DEF Parsing
<1>9. \A i \in 1..Len(answers') : Answers(answers[i], script[i])'
  BY <1>2, <1>3 DEF Matching, Answers
<1>10. Len(answers') <= reads' /\ reads' <= Len(script')
  <2>1. Len(answers) \in Nat
    BY <1>4 DEF IsSeq
  <2>2. Len(answers) <= reads + 1 /\ reads + 1 <= Len(script)
    BY <2>1, <1>1, <1>4, <1>5
  <2>. QED BY <1>2, <2>2
<1>. QED BY <1>2, <1>4, <1>7, <1>8, <1>9, <1>10 DEF Matching

\* What is taken of the buffer, when it is not more than there is.
LEMMA Takes ==
  ASSUME BufferInv, NEW len \in Nat, len <= ReadableBytes(buf), Take(len)
  PROVE  taken' = taken + len /\ appended' = appended
<1>1. /\ ReadableBytes(buf) \in Nat /\ taken \in Nat /\ appended \in Nat
      /\ appended = taken + 1 + ReadableBytes(buf) - 1
  BY DEF BufferInv, TypeOK, BytesInOrder, Holds, IsBuffer, ReadableBytes
<1>. QED BY <1>1 DEF Take

\* What the parser does with the text that it meets at a stage: it takes a
\* line and is at a later stage, or it is done, or it refuses a bad request.
LEMMA StageStep ==
  ASSUME BufferInv, IsRequest(req), NEW kind \in Kinds,
         NEW o \in 0..Len(Letters(kind)), Stage(kind, o, req),
         NEW t, RestOf(t, Letters(kind), o), Len(t) = ReadableBytes(buf),
         Len(t) \in Nat, NEW line, line = FirstLine(t),
         ParseLine(t, line)
  PROVE  \/ /\ phase' = phase /\ appended' = appended
            /\ \E q \in 0..Len(Letters(kind)) :
                 Stage(kind, q, req') /\ taken' = taken + (q - o)
         \/ /\ phase' = "stat" /\ Done(kind, req')
            /\ taken' = taken + Len(t) /\ appended' = appended
<1>0. /\ Letters(kind) \in Seq(LetterSet) /\ Len(Letters(kind)) \in Nat
      /\ Len(t) = Len(Letters(kind)) - o
  BY LettersType DEF RestOf
<1>1. CASE req.state = "REQUEST_LINE" /\ IsRequestLine(line)
  <2>0. kind # "bad" => Len(Letters(kind)) > 3
    BY DEF Kinds, Letters
  <2>1. o = 0 /\ req = NewRequest
    BY <1>1 DEF Stage
  <2>2. RestOf(t, Letters(kind), 0)
    BY <2>1
  <2>3. req' = ParseRequestLine(req, line)
    BY <1>1 DEF ParseLine
  <2>4. ByRequestLine(NewRequest, line, req')
    BY <2>1, <2>3, RequestFields
  <2>5. /\ line # t /\ kind # "bad"
        /\ Len(line) = 2 /\ Stage(kind, 4, req')
    BY <1>1, <2>2, <2>4, FirstStage
  <2>6. Take(4) /\ phase' = phase
    BY <2>5 DEF ParseLine
  <2>7. 4 \in 0..Len(Letters(kind)) /\ 4 <= Len(t)
    BY <1>0, <2>0, <2>1, <2>5
  <2>8. taken' = taken + 4 /\ appended' = appended
    BY <2>6, <2>7, Takes
  <2>. QED BY <2>1, <2>5, <2>6, <2>7, <2>8
<1>2. CASE req.state = "HEADERS"
  <2>0. kind # "bad" => Len(Letters(kind)) >= 10
    BY DEF Kinds, Letters
  <2>1. o \in {4, 8} /\ kind # "bad"
    <3>1. NewRequest.state = "REQUEST_LINE"
      BY DEF NewRequest
    <3>. QED BY <1>2, <3>1 DEF Stage
  <2>2. req' = ParseHeader(req, line, Len(t))
    BY <1>2 DEF ParseLine
  <2>3. ByHeader(req, line, Len(t), req')
    BY <2>2, RequestFields
  <2>4. /\ line # t /\ Len(line) \in Nat /\ o + (Len(line) + 2) \in {8, 10}
        /\ Stage(kind, o + (Len(line) + 2), req')
    BY <1>2, <2>1, <2>3, HeaderStage
  <2>5. Take(Len(line) + 2) /\ phase' = phase
    BY <2>4 DEF ParseLine
  <2> DEFINE q == o + (Len(line) + 2)
  <2>6. /\ q \in 0..Len(Letters(kind)) /\ Len(line) + 2 <= Len(t)
        /\ q - o = Len(line) + 2 /\ Len(line) + 2 \in Nat
    BY <1>0, <2>0, <2>1, <2>4
  <2>7. taken' = taken + (Len(line) + 2) /\ appended' = appended
    BY <2>5, <2>6, Takes
  <2>8. Stage(kind, q, req') /\ taken' = taken + (q - o)
    BY <2>4, <2>6, <2>7
  <2> HIDE DEF q
  <2>. QED BY <2>5, <2>6, <2>7, <2>8
<1>3. CASE req.state = "BODY"
  <2>1. PICK verified \in Verdicts(line) : req' = ParseBody(req, line, verified)
    BY <1>3 DEF ParseLine
  <2>2. ByBody(req, line, req')
    BY <2>1, RequestFields
  <2>3. line = t /\ Done(kind, req')
    BY <1>3, <2>2, BodyStage
  <2>4. Take(Len(t)) /\ phase' = "stat"
    BY <2>3 DEF ParseLine
  <2>5. taken' = taken + Len(t) /\ appended' = appended
    BY <2>4, Takes
  <2>. QED BY <2>3, <2>4, <2>5
<1>. QED BY <1>1, <1>2, <1>3 DEF ParseLine

\* A text has been taken whole when the parser is done with it.
LEMMA FinishedStage ==
  ASSUME NEW kind \in Kinds, NEW o, NEW r, Stage(kind, o, r),
         o = Len(Letters(kind)) \/ r.state = "FINISH"
  PROVE  o = Len(Letters(kind)) /\ Done(kind, r)
<1>1. /\ Len(Letters("get")) = 10
      /\ Len(Letters("login")) = 13
      /\ Len(Letters("bad")) = 5
  BY DEF Letters
<1>2. NewRequest.state = "REQUEST_LINE"
  BY DEF NewRequest
<1>3. o # 0
  <2>1. ASSUME o = 0 PROVE FALSE
    <3>1. r.state # "FINISH"
      BY <1>2, <2>1 DEF Stage
    <3>2. Len(Letters(kind)) # 0
      <4>1. Len(Letters(kind)) > 0 /\ Len(Letters(kind)) \in Nat
        BY LettersType
      <4>. QED BY <4>1
    <3>. QED BY <2>1, <3>1, <3>2
  <2>. QED BY <2>1
<1>4. CASE kind = "get"
  BY <1>1, <1>3, <1>4 DEF Stage, Done
<1>5. CASE kind # "get"
  <2>1. kind = "login" /\ o \in {4, 8, 10} /\ r.state # "FINISH"
    BY <1>3, <1>5 DEF Stage
  <2>2. Len(Letters(kind)) = 13
    BY <1>1, <2>1
  <2>3. o # 13
    BY <2>1
  <2>. QED BY <2>1, <2>2, <2>3
<1>. QED BY <1>4, <1>5

\* Parsing brings the parser to a later stage of the request, or to its end.
LEMMA ParsingStep ==
  ASSUME BufferInv, SessionBasics, Matching, Parsing, Parse,
         ~(ReadableBytes(buf) > 0 /\ Refuse(FirstLine(Text)))
  PROVE  Parsing' \/ Responding'
<1> DEFINE kind == script[reads]
           before == Sent(script, reads - 1)
<1>1. PICK o \in 0..Len(Letters(script[reads])) :
             Stage(script[reads], o, req) /\ taken = before + o
  BY DEF Parsing
<1>2. /\ script \in Scripts /\ reads \in Nat /\ reads >= 1 /\ reads <= Len(script)
      /\ appended = Sent(script, reads) /\ Len(answers) = reads - 1
      /\ Len(script) \in Nat /\ IsRequest(req) /\ phase = "parse"
  <2>1. script \in Scripts /\ reads \in Nat /\ IsRequest(req)
    BY DEF SessionBasics
  <2>2. Len(script) \in Nat
    BY <2>1, ScriptSent
  <2>3. reads >= 1 /\ Len(answers) = reads - 1 /\ phase = "parse"
    BY DEF Parsing
  <2>. QED BY <2>1, <2>2, <2>3 DEF Matching
<1>3. reads \in 1..Len(script)
  BY <1>2
<1>4. /\ kind \in Kinds
      /\ before \in Nat
      /\ Len(Letters(kind)) \in Nat
      /\ appended = before + Len(Letters(kind))
  BY <1>2, <1>3, SentNext
<1>5. /\ ReadableBytes(buf) = Len(Letters(kind)) - o
      /\ RestOf(Text, Letters(kind), o)
  BY <1>1, <1>2, <1>3, TextRest
<1>6. Stage(kind, o, req) /\ o \in 0..Len(Letters(kind)) /\ taken = before + o
  BY <1>1
<1>7. UNCHANGED <<script, reads, answers, edits>>
  BY DEF Parse, ParseLine, connVars, siteVars
<1> HIDE DEF kind, before
<1>8. CASE ~(ReadableBytes(buf) > 0 /\ req.state # "FINISH")
  <2>1. phase' = "stat" /\ UNCHANGED <<req, taken, appended>>
    BY <1>8, <1>2 DEF Parse, vars
  <2>2. o = Len(Letters(kind)) \/ req.state = "FINISH"
    BY <1>4, <1>5, <1>6, <1>8
  <2>3. o = Len(Letters(kind)) /\ Done(kind, req)
    BY <1>4, <1>6, <2>2, FinishedStage
  <2>4. taken' = appended'
    BY <1>4, <1>6, <2>1, <2>3
  <2>. QED BY <1>2, <1>7, <2>1, <2>3, <2>4 DEF Responding, kind
<1>9. CASE ReadableBytes(buf) > 0 /\ req.state # "FINISH"
  <2>1. ParseLine(Text, FirstLine(Text))
    BY <1>2, <1>9 DEF Parse
  <2>2. Len(Text) = ReadableBytes(buf) /\ Len(Text) \in Nat
    BY <1>4, <1>5, <1>6 DEF RestOf
  <2>3. \/ /\ phase' = phase /\ appended' = appended
           /\ \E q \in 0..Len(Letters(kind)) :
                Stage(kind, q, req') /\ taken' = taken + (q - o)
        \/ /\ phase' = "stat" /\ Done(kind, req')
           /\ taken' = taken + Len(Text) /\ appended' = appended
    BY <1>2, <1>4, <1>5, <1>6, <2>1, <2>2, StageStep
  <2>4. ASSUME phase' = phase, appended' = appended,
               NEW q \in 0..Len(Letters(kind)),
               Stage(kind, q, req'), taken' = taken + (q - o)
        PROVE  Parsing'
    <3>1. taken' = before + q
      BY <1>4, <1>6, <2>4
    <3>. QED BY <1>2, <1>7, <2>4, <3>1 DEF Parsing, kind, before
  <2>5. ASSUME phase' = "stat", Done(kind, req'),
               taken' = taken + Len(Text), appended' = appended
        PROVE  Responding'
    <3>1. taken' = appended'
      BY <1>4, <1>5, <1>6, <2>2, <2>5
    <3>. QED BY <1>2, <1>7, <2>5, <3>1 DEF Responding, kind
  <2>. QED BY <2>3, <2>4, <2>5
<1>. QED BY <1>8, <1>9

\* A bad request is refused, and nothing else is.
LEMMA RefusingStep ==
  ASSUME BufferInv, SessionBasics, Matching, Parsing, NEW line,
         phase = "parse", ReadableBytes(buf) > 0,
         line = FirstLine(Text), Refuse(line)
  PROVE  script[reads] = "bad"
<1>1. PICK o \in 0..Len(Letters(script[reads])) :
             /\ Stage(script[reads], o, req)
             /\ taken = Sent(script, reads - 1) + o
  BY DEF Parsing
<1>2. /\ script \in Scripts /\ reads \in Nat /\ reads >= 1 /\ reads <= Len(script)
      /\ appended = Sent(script, reads) /\ Len(script) \in Nat
  <2>1. script \in Scripts /\ reads \in Nat /\ IsRequest(req)
    BY DEF SessionBasics
  <2>2. Len(script) \in Nat
    BY <2>1, ScriptSent
  <2>3. reads >= 1 /\ Len(answers) = reads - 1 /\ phase = "parse"
    BY DEF Parsing
  <2>. QED BY <2>1, <2>2, <2>3 DEF Matching
<1>3. reads \in 1..Len(script)
  BY <1>2
<1>4. script[reads] \in Kinds /\ RestOf(Text, Letters(script[reads]), o)
  BY <1>1, <1>2, <1>3, TextRest
<1>5. req.state = "REQUEST_LINE" /\ ~IsRequestLine(line)
  BY DEF Refuse
<1>6. o = 0
  BY <1>1, <1>5 DEF Stage
<1>7. RestOf(Text, Letters(script[reads]), 0)
  BY <1>4, <1>6
<1>8. IsRequest(NewRequest)
  BY DEF NewRequest, IsRequest
<1>9. ByRequestLine(NewRequest, line, ParseRequestLine(NewRequest, line))
  BY <1>8, RequestFields
<1>. QED BY <1>4, <1>5, <1>7, <1>9, FirstStage

\* An answer to the request that the connection is at.
LEMMA AnswerMatches ==
  ASSUME SessionBasics, Matching, state = "connected",
         NEW answer, Send(answer), UNCHANGED <<script, reads, appended, edits>>,
         reads >= 1, Len(answers) = reads - 1, Answers(answer, script[reads])
  PROVE  /\ reads' <= Len(script') /\ appended' = Sent(script', reads')
         /\ IsSeq(answers') /\ Len(answers') = reads'
         /\ \A i \in 1..Len(answers') : Answers(answers[i], script[i])'
<1>1. reads \in Nat /\ IsSeq(answers) /\ answers' = Append(answers, answer)
  BY DEF SessionBasics, Matching, Send
<1>2. /\ IsSeq(answers') /\ Len(answers') = Len(answers) + 1
      /\ \A i \in 1..Len(answers) : answers'[i] = answers[i]
      /\ answers'[Len(answers) + 1] = answer
  BY <1>1, AppendIsSeq
<1>3. Len(answers') = reads /\ Len(answers) + 1 = reads
  BY <1>1, <1>2
<1>4. ASSUME NEW i \in 1..reads
      PROVE  Answers(answers'[i], script[i])
  <2>1. CASE i = reads
    <3>1. answers'[i] = answer
      BY <1>2, <1>3, <2>1
    <3>. QED BY <2>1, <3>1
  <2>2. CASE i # reads
    <3>1. i \in 1..Len(answers)
      BY <1>1, <1>3, <2>2
    <3>2. answers'[i] = answers[i] /\ Answers(answers[i], script[i])
      BY <1>2, <3>1 DEF Matching
    <3>. QED BY <3>2
  <2>. QED BY <2>1, <2>2
<1>5. \A i \in 1..Len(answers') : Answers(answers[i], script[i])'
  BY <1>3, <1>4 DEF Answers
<1>. QED BY <1>2, <1>3, <1>5 DEF Matching

\* What is left alone stays matched.
LEMMA SameMatches ==
  ASSUME Matching, UNCHANGED <<script, reads, appended, answers>>,
         edits' = edits \/ edits' # 0
  PROVE  /\ reads' <= Len(script') /\ appended' = Sent(script', reads')
         /\ IsSeq(answers') /\ Len(answers') <= reads'
         /\ \A i \in 1..Len(answers') : Answers(answers[i], script[i])'
<1>1. \A i \in 1..Len(answers) : Answers(answers[i], script[i])
  BY DEF Matching
<1>2. \A i \in 1..Len(answers') : Answers(answers[i], script[i])'
  BY <1>1 DEF Answers
<1>. QED BY <1>2 DEF Matching

LEMMA ParseMatches ==
  ASSUME BufferInv, SessionBasics, Matching, Parse
  PROVE  Matching'
<1>1. /\ phase = "parse" /\ UNCHANGED <<script, reads, edits, appended>>
  BY DEF Parse, Refuse, ParseLine, Take, vars, connVars, siteVars
<1> DEFINE line == FirstLine(Text)
<1>2. CASE Refuse(line) /\ ReadableBytes(buf) > 0 /\ state = "connected"
  <2>1. Parsing
    BY <1>1, <1>2 DEF Matching, Idle, Responding
  <2>2. script[reads] = "bad"
    BY <1>1, <1>2, <2>1, RefusingStep
  <2>3. Answers(BadRequest, "bad") /\ Send(BadRequest) /\ state' = "disconnecting"
    BY <1>2 DEF Answers, BadRequest, Refuse
  <2>4. reads >= 1 /\ Len(answers) = reads - 1 /\ reads \in Nat
    BY <2>1 DEF Parsing, SessionBasics
  <2>5. /\ reads' <= Len(script') /\ appended' = Sent(script', reads')
        /\ IsSeq(answers') /\ Len(answers') = reads'
        /\ \A i \in 1..Len(answers') : Answers(answers[i], script[i])'
    BY <1>1, <1>2, <2>2, <2>3, <2>4, AnswerMatches
  <2>6. Len(answers') <= reads'
    BY <1>1, <2>4, <2>5
  <2>. QED BY <2>3, <2>5, <2>6 DEF Matching
<1>3. CASE Refuse(line) /\ ReadableBytes(buf) > 0 /\ state # "connected"
  <2>1. answers' = answers /\ state' = "disconnecting"
    BY <1>3 DEF Refuse, Send
  <2>. QED BY <1>1, <2>1, SameMatches DEF Matching
<1>4. CASE ~(Refuse(line) /\ ReadableBytes(buf) > 0)
  <2>1. UNCHANGED <<answers, state>>
    BY <1>4 DEF Parse, ParseLine, connVars
  <2>2. ASSUME state = "connected"
        PROVE  Parsing' \/ Responding'
    <3>1. Parsing
      BY <1>1, <2>2 DEF Matching, Idle, Responding
    <3>. QED BY <1>4, <3>1, ParsingStep
  <2>. QED BY <1>1, <2>1, <2>2, SameMatches DEF Matching
<1>. QED BY <1>2, <1>3, <1>4

LEMMA StatMatches ==
  ASSUME SessionBasics, edits = 0 => Alone, Matching, Stat
  PROVE  Matching'
<1>1. /\ phase = "stat" /\ phase' = "content"
      /\ UNCHANGED <<script, reads, edits, appended, taken, answers, state, req>>
  BY DEF Stat, vars, connVars, siteVars
<1>2. ASSUME state = "connected"
      PROVE  Responding'
  <2>1. Responding
    BY <1>1, <1>2 DEF Matching, Idle, Parsing
  <2>2. req.path # ""
    BY <2>1 DEF Responding, Done
  <2>3. edits' = 0 => response'.page = req.path
    BY <2>2, AloneOfStat
  <2>. QED BY <1>1, <2>1, <2>3 DEF Responding
<1>. QED BY <1>1, <1>2, SameMatches DEF Matching

LEMMA SendMatches ==
  ASSUME SessionBasics, edits = 0 => Alone, Matching, Unopened \/ SendPage
  PROVE  Matching'
<1>1. /\ phase = "content" /\ phase' = "idle"
      /\ UNCHANGED <<script, reads, edits, appended, taken, state>>
  BY DEF Unopened, SendPage, vars, siteVars
<1>2. CASE state # "connected"
  <2>1. answers' = answers
    BY <1>2 DEF Unopened, SendPage, Send
  <2>. QED BY <1>1, <1>2, <2>1, SameMatches DEF Matching
<1>3. CASE state = "connected"
  <2>1. Responding
    BY <1>1, <1>3 DEF Matching, Idle, Parsing
  <2>2. reads >= 1 /\ Len(answers) = reads - 1 /\ reads \in Nat /\ taken = appended
    BY <2>1 DEF Responding, SessionBasics
  <2>3. Done(script[reads], req) /\ (edits = 0 => response.page = req.path)
    BY <1>1, <2>1 DEF Responding
  <2>4. PICK answer : /\ Send(answer) /\ answer.asked = req.asked
                      /\ edits = 0 => answer.page = response.page /\ answer.size = 1
    <3>1. CASE Unopened
      <4>1. edits # 0
        <5>1. ASSUME edits = 0 PROVE FALSE
          <6>1. site[response.page] = File(TRUE, 1)
            BY <1>1, <5>1 DEF Alone
          <6>. QED BY <3>1, <6>1 DEF Unopened, File
        <5>. QED BY <5>1
      <4> DEFINE a == [page |-> "none", size |-> 1, asked |-> req.asked]
      <4>2. Send(a) /\ a.asked = req.asked
        BY <3>1 DEF Unopened
      <4>. QED BY <4>1, <4>2
    <3>2. CASE SendPage
      <4> DEFINE a == [page |-> response.page, size |-> response.size,
                       asked |-> req.asked]
      <4>1. Send(a) /\ a.asked = req.asked /\ a.page = response.page
        BY <3>2 DEF SendPage
      <4>2. edits = 0 => a.size = 1
        BY <1>1 DEF Alone
      <4>. QED BY <4>1, <4>2
    <3>. QED BY <3>1, <3>2
  <2>5. Answers(answer, script[reads])
    BY <2>3, <2>4 DEF Answers, Done
  <2>6. /\ reads' <= Len(script') /\ appended' = Sent(script', reads')
        /\ IsSeq(answers') /\ Len(answers') = reads'
        /\ \A i \in 1..Len(answers') : Answers(answers[i], script[i])'
    BY <1>1, <1>3, <2>2, <2>4, <2>5, AnswerMatches
  <2>7. Len(answers') <= reads' /\ Idle'
    BY <1>1, <2>2, <2>6 DEF Idle
  <2>. QED BY <2>6, <2>7 DEF Matching
<1>. QED BY <1>2, <1>3

\* Each step keeps the answers matched,
LEMMA MatchedStep ==
  ASSUME SessionInv, [SessionNext]_sessionVars
  PROVE  Matched'
<1>0. BufferInv /\ SessionBasics /\ (edits = 0 => Alone)
  BY DEF SessionInv
<1>1. ASSUME NEW n \in 1..Len(stream), Read(n) PROVE Matched'
  BY <1>1, ReadMatches
<1>2. CASE Parse \/ Stat \/ Unopened \/ SendPage
  <2>1. UNCHANGED <<whole, script>>
    BY <1>2 DEF Parse, Refuse, ParseLine, Stat, Unopened, SendPage, connVars
  <2>. QED BY <1>0, <1>2, <2>1, ParseMatches, StatMatches, SendMatches
           DEF SessionInv, Matched
<1>3. CASE Crash
  <2>1. /\ phase' = "crashed"
        /\ UNCHANGED <<whole, script, reads, appended, answers, edits>>
    BY <1>3 DEF Crash, vars, connVars, siteVars
  <2>. QED BY <2>1, SameMatches DEF SessionInv, Matched, Matching
<1>4. CASE OnDestroy
  <2>1. /\ state' = "disconnecting"
        /\ UNCHANGED <<whole, script, reads, appended, answers, edits>>
    BY <1>4 DEF OnDestroy, vars, siteVars
  <2>. QED BY <2>1, SameMatches DEF SessionInv, Matched, Matching
<1>5. CASE Edit
  <2>1. /\ UNCHANGED <<whole, script, reads, appended, taken, answers, state,
                       phase, req, response>>
        /\ edits' = edits + 1
    BY <1>5 DEF Edit, vars, connVars
  <2>2. edits' # 0
    <3>1. edits \in Nat
      BY <1>0 DEF SessionBasics
    <3>. QED BY <2>1, <3>1
  <2>3. ASSUME Matching, state = "connected"
        PROVE  Idle' \/ Parsing' \/ Responding' \/ phase' = "crashed"
    BY <2>1, <2>2, <2>3 DEF Matching, Idle, Parsing, Responding
  <2>. QED BY <2>1, <2>2, <2>3, SameMatches DEF SessionInv, Matched, Matching
<1>6. CASE NoClient
  <2>1. script = <<>> /\ script' = script
    BY <1>6 DEF NoClient, connVars
  <2>. QED BY <2>1 DEF Matched
<1>7. CASE UNCHANGED sessionVars
  BY <1>7 DEF sessionVars, vars, connVars, siteVars, SessionInv, Matched,
              Matching, Idle, Parsing, Responding, Answers
<1>. QED BY <1>1, <1>2, <1>3, <1>4, <1>5, <1>6, <1>7 DEF SessionNext, OnMessage

\* and a session begins without any.
LEMMA SessionInvInit == SessionInit => SessionInv
<1> SUFFICES ASSUME SessionInit PROVE SessionInv
  OBVIOUS
<1>1. BufferInv
  BY BufferInit DEF SessionInit
<1>2. SessionBasics /\ (edits = 0 => Alone)
  BY DEF SessionInit, SessionBasics, Alone, NewRequest, IsRequest
<1>3. Matched
  <2>1. /\ script \in Scripts /\ reads = 0 /\ appended = 0 /\ taken = 0
        /\ answers = <<>> /\ phase = "idle"
    BY DEF SessionInit, Init
  <2>2. Sent(script, 0) = 0 /\ Len(script) \in Nat
    BY <2>1, ScriptSent
  <2>3. IsSeq(answers) /\ Len(answers) = 0
    BY <2>1 DEF IsSeq
  <2>. QED BY <2>1, <2>2, <2>3 DEF Matched, Matching, Idle
<1>. QED BY <1>1, <1>2, <1>3 DEF SessionInv

\* Whatever a client sends, as long as each read brings one request, each
\* answer is the right one to its request; and no session crashes as long as
\* the files are left alone.
THEOREM SessionAnswersMatch == SessionSpec => []AnswersMatch
<1>1. SessionInv /\ [SessionNext]_sessionVars => SessionInv'
  BY SessionStep, BasicsStep, MatchedStep DEF SessionInv
<1>2. SessionInv => AnswersMatch
  <2> SUFFICES ASSUME SessionInv, whole PROVE AnswersMatch
    BY DEF AnswersMatch
  <2>1. edits = 0 => phase # "crashed"
    BY DEF SessionInv, Alone
  <2>2. CASE script = <<>>
    <3>1. answers = <<>>
      BY <2>2 DEF SessionInv, SessionBasics
    <3>. QED BY <2>1, <3>1 DEF AnswersMatch
  <2>3. CASE script # <<>>
    <3>1. Matching
      BY <2>3 DEF SessionInv, Matched
    <3>2. DOMAIN answers = 1..Len(answers)
      BY <3>1 DEF Matching, IsSeq
    <3>. QED BY <2>1, <3>1, <3>2 DEF AnswersMatch, Matching
  <2>. QED BY <2>2, <2>3
<1>. QED BY SessionInvInit, <1>1, <1>2, PTL DEF SessionSpec
==============================================================================
