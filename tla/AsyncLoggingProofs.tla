------------------------- MODULE AsyncLoggingProofs --------------------------
(***************************************************************************)
(* The buffers of the asynchronous log, for any capacity, any traffic and  *)
(* any file sizes: no unique_ptr is used while it is null; the lines in the *)
(* files, in the write in progress and in the buffers are in the order of   *)
(* the calls of append; and a line that is in one of those places stays in  *)
(* one of them.                                                             *)
(***************************************************************************)
EXTENDS AsyncLogging, SequenceLemmas, SequenceTheorems, TLAPS

Contents == Seq(Nat)
Pointers == {Null} \cup {Ptr(b) : b \in Contents}

\* The types of the buffers, and which of the pointers may be null where: only
\* between the critical section and the end of the pass are the spares missing.
BuffersInv ==
  /\ currentBuffer_ \in Pointers /\ nextBuffer_ \in Pointers
  /\ newBuffer1 \in Pointers /\ newBuffer2 \in Pointers
  /\ buffers_ \in Seq(Contents) /\ buffersToWrite \in Seq(Contents)
  /\ appended \in Nat
  /\ pc \in {"none", "test", "collect", "write", "ended"}
  /\ NeverNull

\* A pointer to a buffer is not null, and a pointer that is not null points to
\* a buffer.
LEMMA PointerFacts ==
  /\ \A b \in Contents : Ptr(b) \in Pointers /\ Ptr(b) # Null
  /\ \A p \in Pointers : p # Null => Pointee(p) \in Contents /\ p = Ptr(Pointee(p))
  BY DEF Pointers, Ptr, Null, Pointee

\* A pass keeps exactly two buffers, however many it has written
\* (AsyncLogging.cpp:97-105).
LEMMA KeptTwo ==
  ASSUME NEW bs \in Seq(Contents)
  PROVE  Kept(bs) \in Seq(Contents) /\ Len(Kept(bs)) = 2
<1> NewBuffer \in Contents
  BY DEF NewBuffer, Contents
<1>0. Len(bs) \in Nat
  OBVIOUS
<1>1. CASE Len(bs) > 2
  <2>1. Kept(bs) = SubSeq(bs, 1, 2)
    BY <1>0, <1>1 DEF Kept
  <2>2. \A i \in 1..2 : bs[i] \in Contents
    BY <1>1
  <2>3. SubSeq(bs, 1, 2) \in Seq(Contents) /\ Len(SubSeq(bs, 1, 2)) = 2
    BY <2>2, SubSeqProperties
  <2>. QED BY <2>1, <2>3
<1>2. CASE Len(bs) = 2
  BY <1>2 DEF Kept
<1>3. CASE Len(bs) = 1
  BY <1>3 DEF Kept
<1>4. CASE Len(bs) = 0
  BY <1>4 DEF Kept
<1>5. Len(bs) > 2 \/ Len(bs) = 2 \/ Len(bs) = 1 \/ Len(bs) = 0
  <2>1. \A n \in Nat : n > 2 \/ n = 2 \/ n = 1 \/ n = 0
    OBVIOUS
  <2>. QED BY <1>0, <2>1, Zenon
<1>. QED BY <1>1, <1>2, <1>3, <1>4, <1>5

\* A spare is taken from the buffers kept while there is one, and it leaves one
\* less.
LEMMA SpareFound ==
  ASSUME NEW bs \in Seq(Contents), Len(bs) > 0, NEW p \in Pointers
  PROVE  /\ Spare(p, bs) \in Pointers /\ Spare(p, bs) # Null
         /\ Left(p, bs) \in Seq(Contents)
         /\ Len(Left(p, bs)) >= Len(bs) - 1
<1>1. CASE p # Null
  BY <1>1 DEF Spare, Left
<1>2. CASE p = Null
  <2>1. bs # <<>> /\ Last(bs) \in Contents
    BY DEF Last
  <2>2. Bzero(Last(bs)) \in Contents
    BY <2>1 DEF Bzero, Zero, Contents
  <2>3. Front(bs) \in Seq(Contents) /\ Len(Front(bs)) = Len(bs) - 1
    <3>. DEFINE n == Len(bs) - 1
    <3>1. /\ n \in Nat /\ \A i \in 1..n : bs[i] \in Contents
          /\ n = 0 \/ 1 =< n
      <4>1. Len(bs) \in Nat
        OBVIOUS
      <4>2. \A i \in 1..(Len(bs) - 1) : bs[i] \in Contents
        OBVIOUS
      <4>3. \A m \in Nat : m > 0 => m - 1 \in Nat /\ (m - 1 = 0 \/ 1 =< m - 1)
        OBVIOUS
      <4>4. n \in Nat /\ (n = 0 \/ 1 =< n)
        BY <4>1, <4>3, Zenon
      <4>. QED BY <4>2, <4>4, Zenon
    <3>. HIDE DEF n
    <3>2. SubSeq(bs, 1, n) \in Seq(Contents) /\ Len(SubSeq(bs, 1, n)) = n
      <4>1. CASE n = 0
        BY <3>1, <4>1, SubSeqProperties
      <4>2. CASE 1 =< n
        BY <3>1, <4>2, SubSeqProperties
      <4>. QED BY <3>1, <4>1, <4>2
    <3>. QED BY <3>2 DEF n, Front
  <2>. QED BY <1>2, <2>1, <2>2, <2>3, PointerFacts DEF Spare, Left
<1>. QED BY <1>1, <1>2

\* All starts with two buffers in place.
LEMMA BuffersInit == Init => BuffersInv
<1> NewBuffer \in Contents
  BY DEF NewBuffer, Contents
<1>. QED BY PointerFacts DEF Init, BuffersInv, NeverNull, Pointers

LEMMA AppendLineStep ==
  ASSUME BuffersInv, AppendLine
  PROVE  BuffersInv'
<1>1. /\ Pointee(currentBuffer_) \in Contents /\ appended + 1 \in Nat
      /\ UNCHANGED <<newBuffer1, newBuffer2, buffersToWrite, pc>>
      /\ appended' = appended + 1
  BY PointerFacts DEF BuffersInv, NeverNull, AppendLine, localVars
<1>2. CASE Fits(Pointee(currentBuffer_))
  <2>1. Append(Pointee(currentBuffer_), appended + 1) \in Contents
    BY <1>1 DEF Contents
  <2>2. /\ currentBuffer_' = Ptr(Append(Pointee(currentBuffer_), appended + 1))
        /\ UNCHANGED <<nextBuffer_, buffers_>>
    BY <1>2 DEF AppendLine
  <2>. QED BY <1>1, <2>1, <2>2, PointerFacts DEF BuffersInv, NeverNull
<1>3. CASE ~Fits(Pointee(currentBuffer_))
  <2> DEFINE b == IF nextBuffer_ = Null THEN NewBuffer ELSE Pointee(nextBuffer_)
  <2>1. b \in Contents
    BY PointerFacts DEF BuffersInv, NewBuffer, Contents
  <2>2. AppendTo(b, appended + 1) \in Contents
    BY <1>1, <2>1 DEF AppendTo, Contents
  <2>3. /\ buffers_' = Append(buffers_, Pointee(currentBuffer_))
        /\ currentBuffer_' = Ptr(AppendTo(b, appended + 1))
        /\ nextBuffer_' = Null
    BY <1>3 DEF AppendLine
  <2>4. buffers_' \in Seq(Contents)
    BY <1>1, <2>3 DEF BuffersInv
  <2>. QED BY <1>1, <2>2, <2>3, <2>4, PointerFacts
       DEF BuffersInv, NeverNull, Pointers
<1>. QED BY <1>2, <1>3

LEMMA CollectStep ==
  ASSUME BuffersInv, Collect
  PROVE  BuffersInv'
<1>1. buffersToWrite' \in Seq(Contents) /\ buffers_' \in Seq(Contents)
  BY PointerFacts DEF BuffersInv, NeverNull, Collect
<1>2. /\ currentBuffer_' = newBuffer1 /\ newBuffer1 # Null
      /\ newBuffer1' = Null /\ pc' = "write" /\ appended' = appended
      /\ nextBuffer_' \in {nextBuffer_, newBuffer2}
      /\ newBuffer2' \in {Null, newBuffer2}
  BY DEF BuffersInv, NeverNull, Collect
<1>. QED BY <1>1, <1>2 DEF BuffersInv, NeverNull, Pointers

LEMMA RecycleStep ==
  ASSUME BuffersInv, Recycle
  PROVE  BuffersInv'
<1> DEFINE kept == Kept(buffersToWrite)
<1>0. buffersToWrite \in Seq(Contents)
  BY DEF BuffersInv
<1>1. kept \in Seq(Contents) /\ Len(kept) > 0 /\ Len(kept) - 1 > 0
  <2>1. kept \in Seq(Contents) /\ Len(kept) = 2
    BY <1>0, KeptTwo
  <2>. HIDE DEF kept
  <2>. QED BY <2>1
<1>2. /\ newBuffer1' = Spare(newBuffer1, kept)
      /\ newBuffer2' = Spare(newBuffer2, Left(newBuffer1, kept))
      /\ buffersToWrite' = <<>> /\ pc' = "test"
      /\ UNCHANGED <<currentBuffer_, nextBuffer_, buffers_, appended>>
  BY DEF Recycle, sharedVars
<1> HIDE DEF kept
<1>3. newBuffer1' \in Pointers /\ newBuffer1' # Null
  BY <1>1, <1>2, SpareFound DEF BuffersInv
<1>4. Left(newBuffer1, kept) \in Seq(Contents) /\ Len(Left(newBuffer1, kept)) > 0
  <2>1. /\ Left(newBuffer1, kept) \in Seq(Contents)
        /\ Len(Left(newBuffer1, kept)) >= Len(kept) - 1
    BY <1>1, SpareFound DEF BuffersInv
  <2>. QED BY <1>1, <2>1
<1>5. newBuffer2' \in Pointers /\ newBuffer2' # Null
  BY <1>2, <1>4, SpareFound DEF BuffersInv
<1>. QED BY <1>2, <1>3, <1>5 DEF BuffersInv, NeverNull

\* The steps that leave the buffers where they are, and start.
LEMMA OtherStep ==
  ASSUME BuffersInv,
         Start \/ Stop \/ TestRunning \/ WriteBuffer \/ TimePasses \/ UNCHANGED vars
  PROVE  BuffersInv'
<1>1. CASE Start
  <2>1. NewBuffer \in Contents
    BY DEF NewBuffer, Contents
  <2>. QED BY <1>1, <2>1, PointerFacts DEF Start, BuffersInv, NeverNull
<1>2. CASE TestRunning
  BY <1>2 DEF TestRunning, sharedVars, localVars, BuffersInv, NeverNull
<1>3. CASE Stop \/ WriteBuffer \/ TimePasses \/ UNCHANGED vars
  BY <1>3 DEF Stop, WriteBuffer, TimePasses, vars, sharedVars, localVars,
     BuffersInv, NeverNull
<1>. QED BY <1>1, <1>2, <1>3

\* append always finds a current buffer, and threadFunc both spares, whatever
\* the number of buffers that a pass finds and however it recycles them.
THEOREM PointersValid == Spec => []NeverNull
<1>1. BuffersInv /\ [Next]_vars => BuffersInv'
  BY AppendLineStep, CollectStep, RecycleStep, OtherStep DEF Next, ThreadFunc
<1>2. BuffersInv => NeverNull
  BY DEF BuffersInv
<1>. QED BY BuffersInit, <1>1, <1>2, PTL DEF Spec

------------------------------------------------------------------------------
\* The contents of buffers, one after the other.
LEMMA ContentsAssociative ==
  ASSUME NEW a \in Contents, NEW b \in Contents, NEW c \in Contents
  PROVE  (a \o b) \o c = a \o (b \o c)
BY ConcatAssociative DEF Contents

LEMMA ContentsJoin ==
  \A a, b, c \in Contents : /\ a \o b \in Contents
                            /\ (a \o b) \o c = a \o (b \o c)
                            /\ a \o <<>> = a /\ <<>> \o a = a
<1> SUFFICES ASSUME NEW a \in Seq(Nat), NEW b \in Seq(Nat), NEW c \in Seq(Nat)
             PROVE  /\ a \o b \in Seq(Nat)
                    /\ (a \o b) \o c = a \o (b \o c)
                    /\ a \o <<>> = a /\ <<>> \o a = a
  BY DEF Contents
<1>. QED BY ConcatAssociative

LEMMA FlattenType ==
  /\ FlattenSeq(<<>>) = <<>>
  /\ \A s \in Seq(Contents) : FlattenSeq(s) \in Contents
BY FlattenSeqType DEF Contents

\* A sequence behind the others, one alone, and one before the others.
LEMMA FlattenAppend ==
  ASSUME NEW s \in Seq(Contents), NEW x \in Contents
  PROVE  FlattenSeq(Append(s, x)) = FlattenSeq(s) \o x
BY FlattenSeqAppend DEF Contents

LEMMA FlattenOne ==
  ASSUME NEW x \in Contents
  PROVE  FlattenSeq(<<x>>) = x
BY FlattenSeqOne DEF Contents

LEMMA FlattenCons ==
  ASSUME NEW s \in Seq(Contents), NEW x \in Contents
  PROVE  FlattenSeq(<<x>> \o s) = x \o FlattenSeq(s)
BY FlattenSeqCons DEF Contents

------------------------------------------------------------------------------
\* What is left of a sequence, and what the files have.
Drop(s, k) == SubSeq(s, k + 1, Len(s))

LEMMA DropFacts ==
  ASSUME NEW s \in Contents, NEW k \in 0..Len(s)
  PROVE  /\ Drop(s, k) \in Contents
         /\ Len(Drop(s, k)) = Len(s) - k
         /\ \A i \in 1..(Len(s) - k) : Drop(s, k)[i] = s[k + i]
<1>1. s \in Seq(Nat) /\ Len(s) \in Nat /\ k \in Nat /\ k <= Len(s)
  BY DEF Contents
<1>2. k + 1 \in Int /\ Len(s) \in Int /\ \A i \in (k + 1)..Len(s) : s[i] \in Nat
  BY <1>1
<1> DEFINE t == SubSeq(s, k + 1, Len(s))
<1>3. /\ t \in Seq(Nat)
      /\ Len(t) = IF k + 1 <= Len(s) THEN Len(s) - (k + 1) + 1 ELSE 0
      /\ \A i \in 1..(Len(s) - (k + 1) + 1) : t[i] = s[(k + 1) + i - 1]
  BY <1>2, SubSeqProperties
<1> HIDE DEF t
<1>4. Len(t) = Len(s) - k
  <2>1. \A n \in Nat : k <= n => (IF k + 1 <= n THEN n - (k + 1) + 1 ELSE 0) = n - k
    BY <1>1
  <2>. QED BY <1>1, <1>3, <2>1
<1>5. \A i \in 1..(Len(s) - k) : t[i] = s[k + i]
  <2>1. ASSUME NEW i \in 1..(Len(s) - k)  PROVE t[i] = s[k + i]
    <3>1. (k + 1) + i - 1 = k + i /\ i \in 1..(Len(s) - (k + 1) + 1)
      BY <1>1
    <3>. QED BY <1>3, <3>1
  <2>. QED BY <2>1
<1>. QED BY <1>3, <1>4, <1>5 DEF t, Drop, Contents

LEMMA DropAll ==
  ASSUME NEW s \in Contents
  PROVE  Drop(s, 0) = s
BY SubSeqFull DEF Drop, Contents

LEMMA DropHead ==
  ASSUME NEW s \in Contents, NEW r \in Contents, NEW k \in 0..Len(s)
  PROVE  Drop(s \o r, k) = Drop(s, k) \o r
<1>1. s \in Seq(Nat) /\ r \in Seq(Nat) /\ Len(s) \in Nat /\ Len(r) \in Nat
      /\ k \in Nat /\ k <= Len(s)
  BY DEF Contents
<1> DEFINE t == s \o r
           d == Drop(s, k)
           e == Drop(t, k)
<1>2. /\ t \in Seq(Nat) /\ Len(t) = Len(s) + Len(r)
      /\ \A i \in 1..(Len(s) + Len(r)) :
           t[i] = IF i <= Len(s) THEN s[i] ELSE r[i - Len(s)]
  BY <1>1, ConcatProperties
<1>3. /\ d \in Seq(Nat) /\ Len(d) = Len(s) - k
      /\ \A i \in 1..(Len(s) - k) : d[i] = s[k + i]
  BY DropFacts DEF Contents
<1> HIDE DEF t, d
<1>4. /\ e \in Seq(Nat) /\ Len(e) = Len(t) - k
      /\ \A i \in 1..(Len(t) - k) : e[i] = t[k + i]
  <2>1. t \in Contents /\ k \in 0..Len(t)
    BY <1>1, <1>2 DEF Contents
  <2>. QED BY <2>1, DropFacts DEF Contents
<1> HIDE DEF e
<1> DEFINE u == d \o r
<1>5. /\ u \in Seq(Nat) /\ Len(u) = Len(d) + Len(r)
      /\ \A i \in 1..(Len(d) + Len(r)) :
           u[i] = IF i <= Len(d) THEN d[i] ELSE r[i - Len(d)]
  BY <1>1, <1>3, ConcatProperties
<1> HIDE DEF u
<1>6. Len(e) = Len(u)
  BY <1>1, <1>2, <1>3, <1>4, <1>5
<1>7. \A i \in 1..Len(e) : e[i] = u[i]
  <2>1. ASSUME NEW i \in 1..Len(e)  PROVE e[i] = u[i]
    <3>1. /\ i \in 1..(Len(t) - k) /\ k + i \in 1..(Len(s) + Len(r))
          /\ i \in 1..(Len(d) + Len(r))
      BY <1>1, <1>2, <1>3, <1>4
    <3>2. e[i] = t[k + i]
      BY <1>4, <3>1
    <3>3. CASE i <= Len(s) - k
      <4>1. k + i <= Len(s) /\ i \in 1..(Len(s) - k) /\ i <= Len(d)
        BY <1>1, <1>3, <3>1, <3>3
      <4>. QED BY <1>2, <1>3, <1>5, <3>1, <3>2, <4>1
    <3>4. CASE ~(i <= Len(s) - k)
      <4>1. ~(k + i <= Len(s)) /\ ~(i <= Len(d)) /\ (k + i) - Len(s) = i - Len(d)
        BY <1>1, <1>3, <3>1, <3>4
      <4>. QED BY <1>2, <1>5, <3>1, <3>2, <4>1
    <3>. QED BY <3>3, <3>4
  <2>. QED BY <2>1
<1>8. e = u
  BY <1>4, <1>5, <1>6, <1>7, SeqEqual
<1>. QED BY <1>8 DEF e, u, d, t

\* A part taken from what is left leaves the rest of it.
LEMMA DropPart ==
  ASSUME NEW s \in Contents, NEW k \in 0..Len(s), NEW n \in 0..(Len(s) - k)
  PROVE  /\ SubSeq(Drop(s, k), 1, n) \in Contents
         /\ Drop(s, k) = SubSeq(Drop(s, k), 1, n) \o Drop(s, k + n)
<1> DEFINE d == Drop(s, k)
           p == SubSeq(d, 1, n)
           r == Drop(s, k + n)
<1>1. Len(s) \in Nat /\ k \in Nat /\ n \in Nat /\ k + n \in 0..Len(s)
  BY DEF Contents
<1>2. /\ d \in Seq(Nat) /\ Len(d) = Len(s) - k
      /\ \A i \in 1..(Len(s) - k) : d[i] = s[k + i]
  BY DropFacts DEF Contents
<1>3. /\ r \in Seq(Nat) /\ Len(r) = Len(s) - (k + n)
      /\ \A i \in 1..(Len(s) - (k + n)) : r[i] = s[(k + n) + i]
  BY <1>1, DropFacts DEF Contents
<1> HIDE DEF d, r
<1>4. p \in Seq(Nat) /\ Len(p) = n /\ \A i \in 1..n : p[i] = d[i]
  <2>1. \A i \in 1..n : d[i] \in Nat
    BY <1>1, <1>2
  <2>2. /\ p \in Seq(Nat) /\ Len(p) = IF 1 <= n THEN n - 1 + 1 ELSE 0
        /\ \A i \in 1..(n - 1 + 1) : p[i] = d[1 + i - 1]
    BY <1>1, <2>1, SubSeqProperties
  <2> HIDE DEF p
  <2>3. n - 1 + 1 = n /\ \A i \in 1..n : 1 + i - 1 = i
    BY <1>1
  <2>4. \A i \in 1..n : p[i] = d[i]
    BY <2>2, <2>3
  <2>. QED BY <1>1, <2>2, <2>4
<1> HIDE DEF p
<1> DEFINE u == p \o r
<1>5. /\ u \in Seq(Nat) /\ Len(u) = Len(p) + Len(r)
      /\ \A i \in 1..(Len(p) + Len(r)) :
           u[i] = IF i <= Len(p) THEN p[i] ELSE r[i - Len(p)]
  BY <1>3, <1>4, ConcatProperties
<1> HIDE DEF u
<1>6. Len(d) = Len(u)
  BY <1>1, <1>2, <1>3, <1>4, <1>5
<1>7. \A i \in 1..Len(d) : d[i] = u[i]
  <2>1. ASSUME NEW i \in 1..Len(d)  PROVE d[i] = u[i]
    <3>1. i \in 1..(Len(s) - k) /\ i \in 1..(Len(p) + Len(r))
      BY <1>1, <1>2, <1>3, <1>4
    <3>2. CASE i <= n
      BY <1>4, <1>5, <3>1, <3>2
    <3>3. CASE ~(i <= n)
      <4>1. ~(i <= Len(p)) /\ i - Len(p) \in 1..(Len(s) - (k + n))
            /\ (k + n) + (i - Len(p)) = k + i
        BY <1>1, <1>4, <3>1, <3>3
      <4>2. u[i] = r[i - Len(p)] /\ r[i - Len(p)] = s[k + i]
        BY <1>3, <1>5, <3>1, <4>1
      <4>. QED BY <1>2, <3>1, <4>2
    <3>. QED BY <3>2, <3>3
  <2>. QED BY <2>1
<1>8. d = u
  BY <1>2, <1>5, <1>6, <1>7, SeqEqual
<1>. QED BY <1>4, <1>8 DEF u, p, d, r, Contents

\* The buffers from one on.
LEMMA FlattenFrom ==
  ASSUME NEW bs \in Seq(Contents), NEW n \in 1..Len(bs)
  PROVE  /\ bs[n] \in Contents
         /\ FlattenSeq(SubSeq(bs, n + 1, Len(bs))) \in Contents
         /\ FlattenSeq(SubSeq(bs, n, Len(bs)))
              = bs[n] \o FlattenSeq(SubSeq(bs, n + 1, Len(bs)))
<1> DEFINE r == SubSeq(bs, n + 1, Len(bs))
<1>1. Len(bs) \in Nat /\ n \in Nat /\ n <= Len(bs) /\ bs[n] \in Contents
  OBVIOUS
<1>2. SubSeq(bs, n, Len(bs)) = <<bs[n]>> \o r
  <2>1. n \in 1..Len(bs) /\ Len(bs) \in n..Len(bs)
    BY <1>1
  <2>. QED BY <2>1, SubSeqRecursiveFirst
<1>3. r \in Seq(Contents)
  <2>1. n + 1 \in Int /\ Len(bs) \in Int
        /\ \A i \in (n + 1)..Len(bs) : bs[i] \in Contents
    BY <1>1
  <2>. QED BY <2>1, SubSeqProperties
<1> HIDE DEF r
<1>4. FlattenSeq(<<bs[n]>> \o r) = bs[n] \o FlattenSeq(r)
  BY <1>1, <1>3, FlattenCons
<1>5. FlattenSeq(r) \in Contents
  BY <1>3, FlattenType
<1>. QED BY <1>1, <1>2, <1>4, <1>5 DEF r

------------------------------------------------------------------------------
\* The files, and what all of them have.
File == [units : Contents, flushed : Nat]
UnitsOf(fs) == [i \in DOMAIN fs |-> fs[i].units]
All(fs) == FlattenSeq(UnitsOf(fs))

LEMMA UnitsType ==
  ASSUME NEW fs \in Seq(File)
  PROVE  /\ UnitsOf(fs) \in Seq(Contents)
         /\ Len(UnitsOf(fs)) = Len(fs)
         /\ \A i \in 1..Len(fs) : UnitsOf(fs)[i] = fs[i].units
         /\ All(fs) \in Contents
<1>1. DOMAIN fs = 1..Len(fs) /\ Len(fs) \in Nat /\ \A i \in 1..Len(fs) : fs[i] \in File
  OBVIOUS
<1>2. UnitsOf(fs) \in [1..Len(fs) -> Contents]
  BY <1>1 DEF UnitsOf, File
<1>3. UnitsOf(fs) \in Seq(Contents) /\ Len(UnitsOf(fs)) = Len(fs)
  BY <1>1, <1>2
<1>4. \A i \in 1..Len(fs) : UnitsOf(fs)[i] = fs[i].units
  BY <1>1 DEF UnitsOf
<1>5. All(fs) \in Contents
  BY <1>3, FlattenType DEF All
<1>. QED BY <1>3, <1>4, <1>5

LEMMA FlushedFile ==
  ASSUME NEW f \in File
  PROVE  Flushed(f) \in File /\ Flushed(f).units = f.units
<1>1. f.units \in Seq(Nat)
  BY DEF File, Contents
<1>2. Len(f.units) \in Nat
  BY <1>1
<1> DEFINE n == Len(f.units)
<1> HIDE DEF n
<1>3. n \in Nat
  BY <1>2 DEF n
<1>4. [f EXCEPT !.flushed = n] \in File /\ [f EXCEPT !.flushed = n].units = f.units
  BY <1>3 DEF File
<1>. QED BY <1>4 DEF n, Flushed

\* A file closed and another opened: nothing more, nothing less.
LEMMA FilesRolled ==
  ASSUME NEW fs \in Seq(File), NEW gs,
         gs = Append([i \in DOMAIN fs |-> Flushed(fs[i])], NewFile)
  PROVE  gs \in Seq(File) /\ gs # <<>> /\ All(gs) = All(fs)
<1> DEFINE hs == [i \in DOMAIN fs |-> Flushed(fs[i])]
<1>1. DOMAIN fs = 1..Len(fs) /\ Len(fs) \in Nat /\ \A i \in 1..Len(fs) : fs[i] \in File
  OBVIOUS
<1>2. \A i \in 1..Len(fs) : Flushed(fs[i]) \in File /\ Flushed(fs[i]).units = fs[i].units
  BY <1>1, FlushedFile
<1>3. hs \in [1..Len(fs) -> File]
  BY <1>1, <1>2
<1>4. hs \in Seq(File) /\ Len(hs) = Len(fs)
      /\ \A i \in 1..Len(fs) : hs[i].units = fs[i].units
  BY <1>1, <1>2, <1>3
<1>5. NewFile \in File /\ NewFile.units = <<>>
  BY DEF NewFile, File, Contents
<1>10. gs = Append(hs, NewFile)
  OBVIOUS
<1> HIDE DEF hs
<1>6. /\ gs \in Seq(File) /\ Len(gs) = Len(fs) + 1 /\ gs # <<>>
      /\ \A i \in 1..Len(fs) : gs[i] = hs[i]
      /\ gs[Len(fs) + 1] = NewFile
  BY <1>4, <1>5, <1>10
<1>7. UnitsOf(gs) = Append(UnitsOf(fs), <<>>)
  <2> DEFINE u == UnitsOf(gs)
             v == Append(UnitsOf(fs), <<>>)
             w == UnitsOf(fs)
  <2>1. /\ u \in Seq(Contents) /\ Len(u) = Len(fs) + 1
        /\ \A i \in 1..(Len(fs) + 1) : u[i] = gs[i].units
    BY <1>6, UnitsType
  <2>2. /\ w \in Seq(Contents) /\ Len(w) = Len(fs)
        /\ \A i \in 1..Len(fs) : w[i] = fs[i].units
    BY UnitsType
  <2> HIDE DEF u, w
  <2>3. <<>> \in Contents
    BY DEF Contents
  <2>4. /\ v \in Seq(Contents) /\ Len(v) = Len(fs) + 1
        /\ \A i \in 1..Len(fs) : v[i] = w[i]
        /\ v[Len(fs) + 1] = <<>>
    BY <2>2, <2>3 DEF w
  <2> HIDE DEF v
  <2>5. \A i \in 1..(Len(fs) + 1) : u[i] = v[i]
    <3>1. ASSUME NEW i \in 1..(Len(fs) + 1)  PROVE u[i] = v[i]
      <4>1. CASE i = Len(fs) + 1
        BY <1>5, <1>6, <2>1, <2>4, <4>1
      <4>2. CASE i # Len(fs) + 1
        <5>1. i \in 1..Len(fs)
          BY <1>1, <4>2
        <5>. QED BY <1>4, <1>6, <2>1, <2>2, <2>4, <5>1
      <4>. QED BY <4>1, <4>2
    <3>. QED BY <3>1
  <2>6. u = v
    BY <2>1, <2>4, <2>5, SeqEqual
  <2>. QED BY <2>6 DEF u, v
<1>8. FlattenSeq(Append(UnitsOf(fs), <<>>)) = All(fs)
  <2> DEFINE w == UnitsOf(fs)
  <2>1. w \in Seq(Contents) /\ <<>> \in Contents /\ FlattenSeq(w) \in Contents
    BY UnitsType DEF All, Contents
  <2> HIDE DEF w
  <2>2. FlattenSeq(Append(w, <<>>)) = FlattenSeq(w) \o <<>>
    BY <2>1, FlattenAppend
  <2>3. FlattenSeq(w) \o <<>> = FlattenSeq(w)
    BY <2>1, ContentsJoin
  <2>. QED BY <2>2, <2>3 DEF w, All
<1>. QED BY <1>6, <1>7, <1>8 DEF All

LEMMA FilesFlushed ==
  ASSUME NEW fs \in Seq(File), fs # <<>>
  PROVE  /\ FlushLast(fs) \in Seq(File) /\ FlushLast(fs) # <<>>
         /\ All(FlushLast(fs)) = All(fs)
<1> DEFINE gs == FlushLast(fs)
<1>1. DOMAIN fs = 1..Len(fs) /\ Len(fs) \in 1..Len(fs) /\ Len(fs) \in Nat
      /\ \A i \in 1..Len(fs) : fs[i] \in File
  OBVIOUS
<1>2. Flushed(fs[Len(fs)]) \in File
      /\ Flushed(fs[Len(fs)]).units = fs[Len(fs)].units
  BY <1>1, FlushedFile
<1>3. gs = [fs EXCEPT ![Len(fs)] = Flushed(fs[Len(fs)])]
  BY <1>1 DEF FlushLast
<1>4. gs \in [1..Len(fs) -> File]
      /\ \A i \in 1..Len(fs) : gs[i].units = fs[i].units
  BY <1>1, <1>2, <1>3
<1> HIDE DEF gs
<1>5. gs \in Seq(File) /\ Len(gs) = Len(fs) /\ gs # <<>>
  BY <1>1, <1>4
<1>6. UnitsOf(gs) = UnitsOf(fs)
  <2>1. DOMAIN gs = DOMAIN fs
    BY <1>1, <1>4
  <2>. QED BY <1>1, <1>4, <2>1 DEF UnitsOf
<1>. QED BY <1>5, <1>6 DEF gs, All

\* What is written goes behind what the files have.
LEMMA FilesWritten ==
  ASSUME NEW fs \in Seq(File), fs # <<>>, NEW x \in Contents, NEW gs,
         gs = [fs EXCEPT ![Len(fs)].units = @ \o x]
  PROVE  gs \in Seq(File) /\ gs # <<>> /\ All(gs) = All(fs) \o x
<1> DEFINE n == Len(fs)
<1>1. DOMAIN fs = 1..n /\ n \in 1..n /\ n \in Nat
      /\ \A i \in 1..n : fs[i] \in File
  OBVIOUS
<1>2. fs[n].units \in Contents /\ fs[n].units \o x \in Contents
  BY <1>1, ContentsJoin DEF File
<1> HIDE DEF n
<1>3. /\ gs \in [1..n -> File]
      /\ \A i \in 1..n : i # n => gs[i] = fs[i]
      /\ gs[n].units = fs[n].units \o x
  <2>1. gs = [fs EXCEPT ![n] = [fs[n] EXCEPT !.units = fs[n].units \o x]]
    BY <1>1 DEF n
  <2>2. [fs[n] EXCEPT !.units = fs[n].units \o x] \in File
    BY <1>1, <1>2 DEF File
  <2>3. [fs[n] EXCEPT !.units = fs[n].units \o x].units = fs[n].units \o x
    BY <1>1 DEF File
  <2>. QED BY <1>1, <2>1, <2>2, <2>3
<1>4. gs \in Seq(File) /\ Len(gs) = n /\ gs # <<>>
  BY <1>1, <1>3
<1> DEFINE m == n - 1
           u == UnitsOf(fs)
           v == UnitsOf(gs)
           p == SubSeq(u, 1, m)
           a == fs[n].units
<1>5. /\ u \in Seq(Contents) /\ Len(u) = n /\ \A i \in 1..n : u[i] = fs[i].units
      /\ v \in Seq(Contents) /\ Len(v) = n /\ \A i \in 1..n : v[i] = gs[i].units
  BY <1>4, UnitsType DEF n
<1>6. m \in Nat /\ m + 1 = n /\ a \in Contents
  BY <1>1, <1>2
<1> HIDE DEF m, u, v, a
<1>7. /\ p \in Seq(Contents) /\ Len(p) = m /\ \A i \in 1..m : p[i] = u[i]
  <2>1. \A i \in 1..m : u[i] \in Contents
    BY <1>5, <1>6
  <2>2. /\ p \in Seq(Contents) /\ Len(p) = IF 1 <= m THEN m - 1 + 1 ELSE 0
        /\ \A i \in 1..(m - 1 + 1) : p[i] = u[1 + i - 1]
    BY <1>6, <2>1, SubSeqProperties
  <2> HIDE DEF p
  <2>3. m - 1 + 1 = m /\ \A i \in 1..m : 1 + i - 1 = i
    BY <1>6
  <2>4. \A i \in 1..m : p[i] = u[i]
    BY <2>2, <2>3
  <2>. QED BY <1>6, <2>2, <2>4
<1> HIDE DEF p
<1>8. u = Append(p, a)
  <2> DEFINE q == Append(p, a)
  <2>1. /\ q \in Seq(Contents) /\ Len(q) = n
        /\ \A i \in 1..m : q[i] = p[i]
        /\ q[m + 1] = a
    BY <1>6, <1>7
  <2> HIDE DEF q
  <2>2. \A i \in 1..n : u[i] = q[i]
    <3>1. ASSUME NEW i \in 1..n  PROVE u[i] = q[i]
      <4>1. CASE i = n
        BY <1>5, <1>6, <2>1, <4>1 DEF a
      <4>2. CASE i # n
        <5>1. i \in 1..m
          BY <1>6, <4>2
        <5>. QED BY <1>7, <2>1, <5>1
      <4>. QED BY <4>1, <4>2
    <3>. QED BY <3>1
  <2>3. u = q
    BY <1>5, <2>1, <2>2, SeqEqual
  <2>. QED BY <2>3 DEF q
<1>9. v = Append(p, a \o x) /\ a \o x \in Contents
  <2> DEFINE b == a \o x
             q == Append(p, b)
  <2>0. b \in Contents
    BY <1>6, ContentsJoin
  <2>4. v[n] = b
    BY <1>1, <1>3, <1>5 DEF a
  <2> HIDE DEF b
  <2>1. /\ q \in Seq(Contents) /\ Len(q) = n
        /\ \A i \in 1..m : q[i] = p[i]
        /\ q[m + 1] = b
    BY <1>6, <1>7, <2>0
  <2> HIDE DEF q
  <2>2. \A i \in 1..n : v[i] = q[i]
    <3>1. ASSUME NEW i \in 1..n  PROVE v[i] = q[i]
      <4>1. CASE i = n
        BY <1>6, <2>1, <2>4, <4>1
      <4>2. CASE i # n
        <5>1. i \in 1..m
          BY <1>6, <4>2
        <5>. QED BY <1>3, <1>5, <1>7, <2>1, <4>2, <5>1
      <4>. QED BY <4>1, <4>2
    <3>. QED BY <3>1
  <2>3. v = q
    BY <1>5, <2>1, <2>2, SeqEqual
  <2>. QED BY <2>0, <2>3 DEF q, b
<1>10. FlattenSeq(u) = FlattenSeq(p) \o a
  BY <1>6, <1>7, <1>8, FlattenAppend
<1>11. FlattenSeq(v) = FlattenSeq(p) \o (a \o x)
  <2> DEFINE b == a \o x
  <2>1. b \in Contents /\ v = Append(p, b)
    BY <1>9
  <2> HIDE DEF b
  <2>2. FlattenSeq(v) = FlattenSeq(p) \o b
    BY <1>7, <2>1, FlattenAppend
  <2>. QED BY <2>2 DEF b
<1>12. (FlattenSeq(p) \o a) \o x = FlattenSeq(p) \o (a \o x)
  <2> DEFINE b == FlattenSeq(p)
  <2>1. b \in Contents
    BY <1>7, FlattenType
  <2> HIDE DEF b
  <2>2. (b \o a) \o x = b \o (a \o x)
    BY <1>6, <2>1, ContentsAssociative
  <2>. QED BY <2>2 DEF b
<1>. QED BY <1>4, <1>10, <1>11, <1>12 DEF All, u, v

------------------------------------------------------------------------------
\* The stream, by its parts: what the files have, what is left of the buffers
\* being written, the full buffers and the current one.
Ahead(bs, t, w) == Drop(FlattenSeq(SubSeq(bs, t, Len(bs))), w)
Whole(a, b, c, d) == ((a \o b) \o c) \o d

LEMMA StreamIs ==
  /\ Stream = Whole(All(files), Ahead(buffersToWrite, turn, written),
                    FlattenSeq(buffers_), FlattenSeq(currentBuffer_))
  /\ Stream' = Whole(All(files'), Ahead(buffersToWrite', turn', written'),
                     FlattenSeq(buffers_'), FlattenSeq(currentBuffer_'))
<1>1. Stream = Whole(All(files), Ahead(buffersToWrite, turn, written),
                     FlattenSeq(buffers_), FlattenSeq(currentBuffer_))
  BY DEF Stream, InFiles, Unwritten, Whole, All, UnitsOf, Ahead, Drop
<1>2. Stream' = Whole(All(files'), Ahead(buffersToWrite', turn', written'),
                      FlattenSeq(buffers_'), FlattenSeq(currentBuffer_'))
  BY DEF Stream, InFiles, Unwritten, Whole, All, UnitsOf, Ahead, Drop
<1>. QED BY <1>1, <1>2

LEMMA WholeType ==
  ASSUME NEW a \in Contents, NEW b \in Contents, NEW c \in Contents,
         NEW d \in Contents
  PROVE  Whole(a, b, c, d) \in Contents
<1> DEFINE f == a \o b
           g == f \o c
<1>1. f \in Contents
  BY ContentsJoin
<1> HIDE DEF f
<1>2. g \in Contents
  BY <1>1, ContentsJoin
<1> HIDE DEF g
<1>3. g \o d \in Contents
  BY <1>2, ContentsJoin
<1>. QED BY <1>3 DEF Whole, f, g

\* Five parts; packed, for one instance of a lemma to be enough.
Parts5(a, b, c, d, e) ==
  a \in Contents /\ b \in Contents /\ c \in Contents /\ d \in Contents
  /\ e \in Contents

LEMMA WholeGrown ==
  ASSUME NEW a, NEW b, NEW c, NEW d, NEW e, Parts5(a, b, c, d, e)
  PROVE  Whole(a, b, c, d \o e) = Whole(a, b, c, d) \o e
<1>0. a \in Contents /\ b \in Contents /\ c \in Contents /\ d \in Contents
      /\ e \in Contents
  BY DEF Parts5
<1> DEFINE f == a \o b
           g == f \o c
<1>1. f \in Contents
  BY <1>0, ContentsJoin
<1> HIDE DEF f
<1>2. g \in Contents
  BY <1>0, <1>1, ContentsJoin
<1> HIDE DEF g
<1>3. (g \o d) \o e = g \o (d \o e)
  BY <1>0, <1>2, ContentsAssociative
<1>. QED BY <1>3 DEF Whole, f, g

LEMMA WholeFilled ==
  ASSUME NEW a, NEW b, NEW c, NEW d, NEW e, Parts5(a, b, c, d, e)
  PROVE  Whole(a, b, c \o d, e) = Whole(a, b, c, d) \o e
<1>0. a \in Contents /\ b \in Contents /\ c \in Contents /\ d \in Contents
  BY DEF Parts5
<1> DEFINE f == a \o b
<1>1. f \in Contents
  BY <1>0, ContentsJoin
<1> HIDE DEF f
<1>2. (f \o c) \o d = f \o (c \o d)
  BY <1>0, <1>1, ContentsAssociative
<1>. QED BY <1>2 DEF Whole, f

LEMMA WholeTaken ==
  ASSUME NEW a, NEW c, NEW d, NEW e, Parts5(a, <<>>, c, d, e)
  PROVE  Whole(a, c \o d, <<>>, e) = Whole(a, <<>>, c, d) \o e
<1>0. a \in Contents /\ c \in Contents /\ d \in Contents
  BY DEF Parts5
<1> DEFINE f == c \o d
           g == a \o f
<1>1. a \o <<>> = a
  BY <1>0, ContentsJoin
<1>2. (a \o c) \o d = a \o (c \o d)
  BY <1>0, ContentsAssociative
<1>3. f \in Contents
  BY <1>0, ContentsJoin
<1> HIDE DEF f
<1>4. g \in Contents
  BY <1>0, <1>3, ContentsJoin
<1> HIDE DEF g
<1>5. g \o <<>> = g
  BY <1>4, ContentsJoin
<1>. QED BY <1>1, <1>2, <1>5 DEF Whole, f, g

LEMMA WholeWritten ==
  ASSUME NEW a, NEW b, NEW c, NEW d, NEW e, Parts5(a, b, c, d, e)
  PROVE  Whole(a \o e, b, c, d) = Whole(a, e \o b, c, d)
<1>0. a \in Contents /\ b \in Contents /\ e \in Contents
  BY DEF Parts5
<1>1. (a \o e) \o b = a \o (e \o b)
  BY <1>0, ContentsAssociative
<1>. QED BY <1>1 DEF Whole

\* A pass that has not begun, or that is at its end, has nothing ahead.
LEMMA AheadAtEnd ==
  ASSUME NEW bs \in Seq(Contents)
  PROVE  /\ Ahead(bs, Len(bs) + 1, 0) = <<>>
         /\ Ahead(bs, 1, 0) = FlattenSeq(bs)
         /\ FlattenSeq(bs) \in Contents
<1>0. Len(bs) \in Nat /\ <<>> \in Contents
  BY DEF Contents
<1>1. SubSeq(bs, Len(bs) + 1, Len(bs)) = <<>>
  BY <1>0, SubSeqEmpty
<1>2. SubSeq(bs, 1, Len(bs)) = bs
  BY SubSeqFull
<1>3. FlattenSeq(<<>>) = <<>> /\ FlattenSeq(bs) \in Contents
  BY FlattenType
<1>4. Drop(<<>>, 0) = <<>>
  BY <1>0, DropAll
<1> DEFINE f == FlattenSeq(bs)
<1>5. f \in Contents
  BY <1>3
<1> HIDE DEF f
<1>6. Drop(f, 0) = f
  BY <1>5, DropAll
<1>. QED BY <1>1, <1>2, <1>3, <1>4, <1>6 DEF Ahead, f

\* What is ahead begins with what is left of the buffer at hand.
LEMMA AheadNow ==
  ASSUME NEW bs \in Seq(Contents), NEW t \in 1..Len(bs), NEW w \in 0..Len(bs[t])
  PROVE  /\ Ahead(bs, t, w) = Drop(bs[t], w) \o Ahead(bs, t + 1, 0)
         /\ Ahead(bs, t, w) \in Contents
         /\ Ahead(bs, t + 1, 0) \in Contents
<1> DEFINE r == FlattenSeq(SubSeq(bs, t + 1, Len(bs)))
           b == bs[t]
<1>1. b \in Contents /\ r \in Contents
      /\ FlattenSeq(SubSeq(bs, t, Len(bs))) = b \o r
  BY FlattenFrom
<1>2. w \in 0..Len(b)
  OBVIOUS
<1>3. Ahead(bs, t + 1, 0) = Drop(r, 0)
  BY DEF Ahead
<1>4. Ahead(bs, t, w) = Drop(b \o r, w)
  BY <1>1 DEF Ahead
<1> HIDE DEF b, r
<1>5. Drop(r, 0) = r
  BY <1>1, DropAll
<1>6. Drop(b \o r, w) = Drop(b, w) \o r
  BY <1>1, <1>2, DropHead
<1>7. Drop(b, w) \in Contents
  BY <1>1, <1>2, DropFacts
<1>8. Drop(b, w) \o r \in Contents
  BY <1>1, <1>7, ContentsJoin
<1>. QED BY <1>1, <1>3, <1>4, <1>5, <1>6, <1>8 DEF b

------------------------------------------------------------------------------
\* The files and the spares.
Spares == {Null} \cup {Ptr(b) : b \in Seq({Zero})}

FilesInv ==
  /\ files \in Seq(File)
  /\ pc = "none" <=> own = "new"
  /\ pc = "none" => newSecond
  /\ pc # "none" => files # <<>>

WriteInv ==
  /\ written \in Nat
  /\ turn \in 1..(Len(buffersToWrite) + 1)
  /\ pc # "write" => buffersToWrite = <<>> /\ turn = 1 /\ written = 0
  /\ turn <= Len(buffersToWrite) => written <= Len(buffersToWrite[turn])
  /\ turn > Len(buffersToWrite) => written = 0

SparesInv == nextBuffer_ \in Spares /\ newBuffer1 \in Spares /\ newBuffer2 \in Spares

PassInv == BuffersInv /\ FilesInv /\ WriteInv /\ SparesInv

\* y is what a step may add to the stream: cleared units, and behind them the
\* line of the call, if it is one.
Adds(y, n, m) ==
  /\ y \in Contents
  /\ m \in {n, n + 1}
  /\ \A i \in 1..Len(y) :
       \/ y[i] = Zero
       \/ y[i] = n + 1 /\ m = n + 1 /\ i = Len(y)

Grown(s, t, n, m) == \E y : t = s \o y /\ Adds(y, n, m)

InOrder(s, n) ==
  /\ s \in Contents
  /\ \A i \in 1..Len(s) : s[i] <= n
  /\ \A i, j \in 1..Len(s) :
       i < j /\ IsLine(s[i]) /\ IsLine(s[j]) => s[i] < s[j]

LEMMA OrderKept ==
  ASSUME NEW s, NEW t, NEW n \in Nat, NEW m, InOrder(s, n), Grown(s, t, n, m)
  PROVE  InOrder(t, m)
<1>1. PICK y : t = s \o y /\ Adds(y, n, m)
  BY DEF Grown
<1>2. s \in Seq(Nat) /\ y \in Seq(Nat) /\ Len(s) \in Nat /\ Len(y) \in Nat
      /\ m \in Nat /\ n <= m
  BY <1>1 DEF InOrder, Adds, Contents
<1>3. /\ t \in Seq(Nat) /\ Len(t) = Len(s) + Len(y)
      /\ \A i \in 1..(Len(s) + Len(y)) :
           t[i] = IF i <= Len(s) THEN s[i] ELSE y[i - Len(s)]
  BY <1>1, <1>2, ConcatProperties
<1>4. \A i \in 1..Len(t) :
        \/ i <= Len(s) /\ i \in 1..Len(s) /\ t[i] = s[i]
        \/ t[i] = Zero
        \/ t[i] = n + 1 /\ m = n + 1 /\ i = Len(t)
  <2>1. ASSUME NEW i \in 1..Len(t), ~(i <= Len(s))
        PROVE  t[i] = Zero \/ (t[i] = n + 1 /\ m = n + 1 /\ i = Len(t))
    <3>1. i - Len(s) \in 1..Len(y) /\ t[i] = y[i - Len(s)]
      BY <1>2, <1>3, <2>1
    <3>2. \/ y[i - Len(s)] = Zero
          \/ y[i - Len(s)] = n + 1 /\ m = n + 1 /\ i - Len(s) = Len(y)
      BY <1>1, <3>1 DEF Adds
    <3>3. CASE y[i - Len(s)] = Zero
      BY <3>1, <3>3
    <3>4. CASE y[i - Len(s)] = n + 1 /\ m = n + 1 /\ i - Len(s) = Len(y)
      <4>1. i = Len(t)
        BY <1>2, <1>3, <3>4
      <4>. QED BY <3>1, <3>4, <4>1
    <3>. QED BY <3>2, <3>3, <3>4
  <2>2. ASSUME NEW i \in 1..Len(t), i <= Len(s)
        PROVE  i \in 1..Len(s) /\ t[i] = s[i]
    BY <1>2, <1>3, <2>2
  <2>. QED BY <1>2, <1>3, <2>1, <2>2
<1>5. \A i \in 1..Len(s) : s[i] <= n /\ s[i] \in Nat
  BY <1>2 DEF InOrder
<1>6. ASSUME NEW i \in 1..Len(t)  PROVE t[i] <= m
  <2>1. CASE i \in 1..Len(s) /\ t[i] = s[i]
    <3>1. s[i] <= n /\ s[i] \in Nat
      BY <1>5, <2>1
    <3>2. \A k \in Nat : k <= n => k <= m
      BY <1>2
    <3>. QED BY <2>1, <3>1, <3>2
  <2>2. CASE t[i] = Zero
    BY <1>2, <2>2 DEF Zero
  <2>3. CASE t[i] = n + 1 /\ m = n + 1
    BY <1>2, <2>3
  <2>. QED BY <1>4, <2>1, <2>2, <2>3
<1>7. ASSUME NEW i \in 1..Len(t), NEW j \in 1..Len(t), i < j,
             IsLine(t[i]), IsLine(t[j])
      PROVE  t[i] < t[j]
  <2>1. t[i] # Zero /\ t[j] # Zero
    BY <1>7 DEF IsLine
  <2>2. i <= Len(s) /\ i \in 1..Len(s) /\ t[i] = s[i]
    <3>1. i # Len(t)
      BY <1>2, <1>3, <1>7
    <3>. QED BY <1>4, <2>1, <3>1
  <2>3. CASE j <= Len(s) /\ j \in 1..Len(s) /\ t[j] = s[j]
    BY <1>7, <2>2, <2>3 DEF InOrder
  <2>4. CASE t[j] = n + 1
    BY <1>2, <1>5, <2>2, <2>4
  <2>. QED BY <1>4, <2>1, <2>3, <2>4
<1>. QED BY <1>3, <1>6, <1>7 DEF InOrder, Contents

LEMMA AddsFacts ==
  ASSUME NEW n \in Nat
  PROVE  /\ Adds(<<>>, n, n)
         /\ Adds(<<n + 1>>, n, n + 1)
         /\ \A y \in Seq({Zero}) :
              /\ y \in Contents
              /\ Adds(y, n, n) /\ Adds(y, n, n + 1)
              /\ Adds(Append(y, n + 1), n, n + 1)
<1>1. <<>> \in Contents /\ Len(<<>>) = 0
  BY DEF Contents
<1>2. <<n + 1>> \in Contents /\ Len(<<n + 1>>) = 1 /\ <<n + 1>>[1] = n + 1
  BY DEF Contents
<1>3. ASSUME NEW y \in Seq({Zero})
      PROVE  /\ y \in Contents
             /\ Adds(y, n, n) /\ Adds(y, n, n + 1)
             /\ Adds(Append(y, n + 1), n, n + 1)
  <2>1. Len(y) \in Nat /\ \A i \in 1..Len(y) : y[i] = Zero
    OBVIOUS
  <2>2. y \in Contents
    BY DEF Contents, Zero
  <2>3. /\ Append(y, n + 1) \in Contents
        /\ Len(Append(y, n + 1)) = Len(y) + 1
        /\ \A i \in 1..Len(y) : Append(y, n + 1)[i] = y[i]
        /\ Append(y, n + 1)[Len(y) + 1] = n + 1
    BY <2>2 DEF Contents
  <2> DEFINE z == Append(y, n + 1)
  <2> HIDE DEF z
  <2>4. \A i \in 1..Len(z) : z[i] = Zero \/ (z[i] = n + 1 /\ i = Len(z))
    <3>1. ASSUME NEW i \in 1..Len(z)
          PROVE  z[i] = Zero \/ (z[i] = n + 1 /\ i = Len(z))
      <4>1. i \in 1..Len(y) \/ i = Len(y) + 1
        BY <2>1, <2>3 DEF z
      <4>2. CASE i \in 1..Len(y)
        BY <2>1, <2>3, <4>2 DEF z
      <4>3. CASE i = Len(y) + 1
        BY <2>3, <4>3 DEF z
      <4>. QED BY <4>1, <4>2, <4>3
    <3>. QED BY <3>1
  <2>5. Adds(z, n, n + 1)
    BY <2>3, <2>4 DEF Adds, z
  <2>. QED BY <2>1, <2>2, <2>5 DEF Adds, z
<1>4. Adds(<<n + 1>>, n, n + 1)
  <2> DEFINE z == <<n + 1>>
  <2>1. z \in Contents /\ Len(z) = 1 /\ z[1] = n + 1
    BY <1>2
  <2> HIDE DEF z
  <2>2. \A i \in 1..Len(z) : z[i] = n + 1 /\ i = Len(z)
    BY <2>1
  <2>3. Adds(z, n, n + 1)
    BY <2>1, <2>2 DEF Adds
  <2>. QED BY <2>3 DEF z
<1>5. Adds(<<>>, n, n)
  BY <1>1 DEF Adds
<1>. QED BY <1>3, <1>4, <1>5

\* A spare is a buffer that has only cleared units, if any.
LEMMA SpareFacts ==
  /\ Null \in Spares /\ Ptr(NewBuffer) \in Spares /\ NewBuffer \in Seq({Zero})
  /\ \A p \in Spares : p # Null => p = Ptr(Pointee(p)) /\ Pointee(p) \in Seq({Zero})
  /\ \A p \in Spares, bs \in Seq(Contents) : Spare(p, bs) \in Spares
<1>1. NewBuffer \in Seq({Zero})
  BY DEF NewBuffer
<1>2. Null \in Spares /\ Ptr(NewBuffer) \in Spares
  BY <1>1 DEF Spares
<1>3. \A p \in Spares : p # Null => p = Ptr(Pointee(p)) /\ Pointee(p) \in Seq({Zero})
  BY DEF Spares, Ptr, Pointee, Null
<1>4. ASSUME NEW p \in Spares, NEW bs \in Seq(Contents)
      PROVE  Spare(p, bs) \in Spares
  <2>1. CASE p # Null \/ bs = <<>>
    BY <2>1 DEF Spare
  <2>2. CASE ~(p # Null \/ bs = <<>>)
    <3>1. Last(bs) \in Contents
      BY <2>2 DEF Last
    <3>2. Bzero(Last(bs)) \in Seq({Zero})
      BY <3>1 DEF Bzero, Contents
    <3>3. Spare(p, bs) = Ptr(Bzero(Last(bs)))
      BY <2>2 DEF Spare
    <3>. QED BY <3>2, <3>3 DEF Spares
  <2>. QED BY <2>1, <2>2
<1>. QED BY <1>1, <1>2, <1>3, <1>4

LEMMA Parts ==
  ASSUME PassInv
  PROVE  /\ All(files) \in Contents
         /\ Ahead(buffersToWrite, turn, written) \in Contents
         /\ FlattenSeq(buffers_) \in Contents
         /\ Pointee(currentBuffer_) \in Contents
         /\ FlattenSeq(currentBuffer_) = Pointee(currentBuffer_)
         /\ Stream \in Contents
         /\ appended \in Nat
<1>1. All(files) \in Contents
  BY UnitsType DEF PassInv, FilesInv
<1>2. Ahead(buffersToWrite, turn, written) \in Contents
  <2>0. buffersToWrite \in Seq(Contents) /\ written \in Nat
        /\ turn \in 1..(Len(buffersToWrite) + 1) /\ Len(buffersToWrite) \in Nat
    BY DEF PassInv, BuffersInv, WriteInv
  <2>1. CASE turn <= Len(buffersToWrite)
    <3>1. turn \in 1..Len(buffersToWrite)
          /\ written \in 0..Len(buffersToWrite[turn])
      <4>1. turn \in 1..Len(buffersToWrite) /\ written <= Len(buffersToWrite[turn])
        BY <2>0, <2>1 DEF PassInv, WriteInv
      <4>2. buffersToWrite[turn] \in Contents
        BY <2>0, <4>1
      <4>3. Len(buffersToWrite[turn]) \in Nat
        BY <4>2 DEF Contents
      <4>. QED BY <2>0, <4>1, <4>3
    <3>. QED BY <2>0, <3>1, AheadNow
  <2>2. CASE ~(turn <= Len(buffersToWrite))
    <3>1. turn = Len(buffersToWrite) + 1 /\ written = 0
      BY <2>0, <2>2 DEF PassInv, WriteInv
    <3>2. <<>> \in Contents
      BY DEF Contents
    <3>. QED BY <2>0, <3>1, <3>2, AheadAtEnd
  <2>. QED BY <2>1, <2>2
<1>3. FlattenSeq(buffers_) \in Contents
  BY FlattenType DEF PassInv, BuffersInv
<1>4. Pointee(currentBuffer_) \in Contents
      /\ currentBuffer_ = <<Pointee(currentBuffer_)>>
  BY PointerFacts DEF PassInv, BuffersInv, NeverNull, Ptr
<1>5. FlattenSeq(currentBuffer_) = Pointee(currentBuffer_)
  BY <1>4, FlattenOne
<1>6. Stream \in Contents
  <2> DEFINE a == All(files)
             b == Ahead(buffersToWrite, turn, written)
             c == FlattenSeq(buffers_)
             d == FlattenSeq(currentBuffer_)
  <2>1. a \in Contents /\ b \in Contents /\ c \in Contents /\ d \in Contents
    BY <1>1, <1>2, <1>3, <1>4, <1>5
  <2>2. Stream = Whole(a, b, c, d)
    BY StreamIs
  <2> HIDE DEF a, b, c, d
  <2>3. Whole(a, b, c, d) \in Contents
    BY <2>1, WholeType
  <2>. QED BY <2>2, <2>3
<1>. QED BY <1>1, <1>2, <1>3, <1>4, <1>5, <1>6 DEF PassInv, BuffersInv

\* A step that leaves the stream as it was.
LEMMA NotGrown ==
  ASSUME PassInv, Stream' = Stream, appended' = appended
  PROVE  Grown(Stream, Stream', appended, appended')
<1>1. Stream \in Contents /\ appended \in Nat
  BY Parts
<1>2. Stream \o <<>> = Stream
  BY <1>1, ContentsJoin
<1>3. Adds(<<>>, appended, appended)
  BY <1>1, AddsFacts
<1>. QED BY <1>2, <1>3 DEF Grown

LEMMA AppendLineGrows ==
  ASSUME PassInv, AppendLine
  PROVE  PassInv' /\ Grown(Stream, Stream', appended, appended')
<1> DEFINE a == All(files)
           b == Ahead(buffersToWrite, turn, written)
           c == FlattenSeq(buffers_)
           d == Pointee(currentBuffer_)
           n == appended
<1>1. /\ a \in Contents /\ b \in Contents /\ c \in Contents /\ d \in Contents
      /\ n \in Nat /\ Stream = Whole(a, b, c, d)
  BY Parts, StreamIs
<1>2. /\ appended' = n + 1
      /\ UNCHANGED <<own, pc, turn, written, files, newSecond, buffersToWrite,
                     newBuffer1, newBuffer2>>
  BY DEF AppendLine, localVars, logVars
<1>3. Stream' = Whole(a, b, FlattenSeq(buffers_'), FlattenSeq(currentBuffer_'))
  BY <1>2, StreamIs
<1>4. BuffersInv'
  BY AppendLineStep DEF PassInv
<1>5. FilesInv' /\ WriteInv'
  BY <1>2 DEF PassInv, FilesInv, WriteInv
<1>6. SparesInv'
  BY <1>2, SpareFacts DEF PassInv, SparesInv, AppendLine
<1>7. Grown(Stream, Stream', n, n + 1)
  <2>1. CASE Fits(Pointee(currentBuffer_))
    <3>1. buffers_' = buffers_ /\ currentBuffer_' = <<Append(d, n + 1)>>
      BY <2>1 DEF AppendLine, Ptr
    <3> HIDE DEF a, b, c, d, n
    <3>2. Append(d, n + 1) \in Contents /\ Append(d, n + 1) = d \o <<n + 1>>
          /\ <<n + 1>> \in Contents
      <4>1. d \in Seq(Nat) /\ n + 1 \in Nat
        BY <1>1 DEF Contents
      <4>2. Append(d, n + 1) = d \o <<n + 1>>
        BY <4>1, AppendIsConcat
      <4>. QED BY <4>1, <4>2 DEF Contents
    <3>3. FlattenSeq(currentBuffer_') = d \o <<n + 1>>
      BY <3>1, <3>2, FlattenOne
    <3>4. Stream' = Whole(a, b, c, d \o <<n + 1>>)
      BY <1>3, <3>1, <3>3 DEF c
    <3> DEFINE y == <<n + 1>>
    <3>5. y \in Contents /\ Adds(y, n, n + 1)
      BY <1>1, <3>2, AddsFacts
    <3>6. Stream' = Whole(a, b, c, d \o y)
      BY <3>4
    <3> HIDE DEF y
    <3>7. Whole(a, b, c, d \o y) = Whole(a, b, c, d) \o y
      <4>1. Parts5(a, b, c, d, y)
        BY <1>1, <3>5 DEF Parts5
      <4>. QED BY <4>1, WholeGrown
    <3>. QED BY <1>1, <3>5, <3>6, <3>7 DEF Grown
  <2>2. CASE ~Fits(Pointee(currentBuffer_))
    <3> DEFINE z == IF nextBuffer_ = Null THEN NewBuffer ELSE Pointee(nextBuffer_)
               y == AppendTo(z, n + 1)
    <3>1. /\ buffers_' = Append(buffers_, d) /\ buffers_ \in Seq(Contents)
          /\ currentBuffer_' = <<y>>
      BY <2>2 DEF AppendLine, Ptr, PassInv, BuffersInv
    <3>2. z \in Seq({Zero})
      BY SpareFacts DEF PassInv, SparesInv
    <3> HIDE DEF a, b, c, d, n, z
    <3>3. y \in Contents /\ Adds(y, n, n + 1)
      <4>1. Adds(z, n, n + 1) /\ Adds(Append(z, n + 1), n, n + 1)
        BY <1>1, <3>2, AddsFacts
      <4>2. Adds(y, n, n + 1)
        BY <4>1 DEF AppendTo
      <4>. QED BY <4>2 DEF Adds
    <3> HIDE DEF y
    <3>4. FlattenSeq(currentBuffer_') = y
      BY <3>1, <3>3, FlattenOne
    <3>5. FlattenSeq(buffers_') = c \o d
      BY <1>1, <3>1, FlattenAppend DEF c
    <3>6. Stream' = Whole(a, b, c \o d, y)
      BY <1>3, <3>4, <3>5
    <3>7. Whole(a, b, c \o d, y) = Whole(a, b, c, d) \o y
      <4>1. Parts5(a, b, c, d, y)
        BY <1>1, <3>3 DEF Parts5
      <4>. QED BY <4>1, WholeFilled
    <3>. QED BY <1>1, <3>3, <3>6, <3>7 DEF Grown
  <2>. QED BY <2>1, <2>2
<1>. QED BY <1>2, <1>4, <1>5, <1>6, <1>7 DEF PassInv

LEMMA NothingAhead == Ahead(<<>>, 1, 0) = <<>>
<1> DEFINE e == <<>>
<1>1. e \in Seq(Contents) /\ FlattenSeq(e) = <<>>
  BY FlattenType
<1> HIDE DEF e
<1>2. Ahead(e, 1, 0) = FlattenSeq(e)
  BY <1>1, AheadAtEnd
<1>. QED BY <1>1, <1>2 DEF e

LEMMA CollectGrows ==
  ASSUME PassInv, Collect
  PROVE  PassInv' /\ Grown(Stream, Stream', appended, appended')
<1> DEFINE a == All(files)
           c == FlattenSeq(buffers_)
           d == Pointee(currentBuffer_)
           n == appended
<1>1. /\ a \in Contents /\ c \in Contents /\ d \in Contents /\ n \in Nat
      /\ buffers_ \in Seq(Contents)
  BY Parts DEF PassInv, BuffersInv
<1>2. /\ appended' = n /\ pc' = "write" /\ turn' = 1 /\ buffers_' = <<>>
      /\ currentBuffer_' = newBuffer1
      /\ newBuffer1' = Null /\ newBuffer2' \in {Null, newBuffer2}
      /\ nextBuffer_' \in {newBuffer2, nextBuffer_}
      /\ UNCHANGED <<own, written, files, newSecond>>
      /\ pc = "collect"
  BY DEF Collect, logVars
<1>3. buffersToWrite = <<>> /\ turn = 1 /\ written = 0
  BY <1>2 DEF PassInv, WriteInv
<1>4. BuffersInv'
  BY CollectStep DEF PassInv
<1>5. FilesInv' /\ SparesInv'
  BY <1>2, SpareFacts DEF PassInv, FilesInv, SparesInv
<1>6. buffersToWrite' \in Seq(Contents) /\ FlattenSeq(buffersToWrite') = c \o d
  <2>1. CASE d = <<>>
    <3>1. buffersToWrite' = buffers_
      BY <2>1 DEF Collect
    <3>2. c \o <<>> = c
      BY <1>1, ContentsJoin
    <3>. QED BY <1>1, <2>1, <3>1, <3>2
  <2>2. CASE d # <<>>
    <3>1. buffersToWrite' = Append(buffers_, d)
      BY <2>2 DEF Collect
    <3> HIDE DEF d
    <3>2. Append(buffers_, d) \in Seq(Contents)
      BY <1>1
    <3>. QED BY <1>1, <3>1, <3>2, FlattenAppend
  <2>. QED BY <2>1, <2>2
<1>7. WriteInv'
  <2>1. written' = 0 /\ turn' = 1 /\ pc' = "write"
    BY <1>2, <1>3
  <2>2. /\ Len(buffersToWrite') \in Nat
        /\ 1 <= Len(buffersToWrite') => Len(buffersToWrite'[1]) \in Nat
    <3>1. Len(buffersToWrite') \in Nat
      BY <1>6
    <3>2. ASSUME 1 <= Len(buffersToWrite')  PROVE Len(buffersToWrite'[1]) \in Nat
      <4>1. buffersToWrite'[1] \in Contents
        BY <1>6, <3>1, <3>2
      <4>. QED BY <4>1 DEF Contents
    <3>. QED BY <3>1, <3>2
  <2>. QED BY <2>1, <2>2 DEF WriteInv
<1>8. Grown(Stream, Stream', n, n)
  <2> DEFINE e == Pointee(newBuffer1)
  <2>1. newBuffer1 # Null /\ newBuffer1 \in Spares
    BY <1>2 DEF PassInv, BuffersInv, NeverNull, SparesInv
  <2>2. newBuffer1 = <<e>> /\ e \in Seq({Zero})
    BY <2>1, SpareFacts DEF Ptr
  <2> HIDE DEF e
  <2>3. e \in Contents /\ Adds(e, n, n)
    BY <1>1, <2>2, AddsFacts
  <2>4. FlattenSeq(currentBuffer_') = e
    BY <1>2, <2>2, <2>3, FlattenOne
  <2>5. Ahead(buffersToWrite', turn', written') = c \o d
    <3>1. Ahead(buffersToWrite', 1, 0) = FlattenSeq(buffersToWrite')
      BY <1>6, AheadAtEnd
    <3>. QED BY <1>2, <1>3, <1>6, <3>1
  <2>6. Ahead(buffersToWrite, turn, written) = <<>>
    BY <1>3, NothingAhead
  <2>7. Stream' = Whole(a, c \o d, <<>>, e)
    BY <1>2, <2>4, <2>5, StreamIs, FlattenType
  <2>8. Stream = Whole(a, <<>>, c, d)
    BY <2>6, StreamIs, Parts
  <2>9. Parts5(a, <<>>, c, d, e)
    <3>1. <<>> \in Contents
      BY DEF Contents
    <3>. QED BY <1>1, <2>3, <3>1 DEF Parts5
  <2> HIDE DEF a, c, d, n
  <2>10. Whole(a, c \o d, <<>>, e) = Whole(a, <<>>, c, d) \o e
    BY <2>9, WholeTaken
  <2>. QED BY <2>3, <2>7, <2>8, <2>10 DEF Grown
<1>. QED BY <1>2, <1>4, <1>5, <1>7, <1>8 DEF PassInv

\* What appendInLock makes of the files after a write.
LEMMA RolledOrFlushed ==
  ASSUME NEW fs \in Seq(File), fs # <<>>, RollOrFlush(fs)
  PROVE  files' \in Seq(File) /\ files' # <<>> /\ All(files') = All(fs)
<1>1. ASSUME RollFile(fs)
      PROVE  files' \in Seq(File) /\ files' # <<>> /\ All(files') = All(fs)
  <2>1. CASE newSecond
    <3>1. files' = Append([i \in DOMAIN fs |-> Flushed(fs[i])], NewFile)
      BY <1>1, <2>1 DEF RollFile
    <3>. QED BY <3>1, FilesRolled
  <2>2. CASE ~newSecond
    BY <1>1, <2>2 DEF RollFile
  <2>. QED BY <2>1, <2>2
<1>2. CASE files' = fs
  BY <1>2
<1>3. CASE files' = FlushLast(fs)
  BY <1>3, FilesFlushed
<1>4. RollFile(fs) \/ files' = fs \/ files' = FlushLast(fs)
  BY DEF RollOrFlush
<1>. QED BY <1>1, <1>2, <1>3, <1>4

LEMMA WriteBufferGrows ==
  ASSUME PassInv, WriteBuffer
  PROVE  PassInv' /\ Grown(Stream, Stream', appended, appended')
<1> DEFINE a == All(files)
           data == buffersToWrite[turn]
           k == Len(data)
           ahead == Ahead(buffersToWrite, turn + 1, 0)
           c == FlattenSeq(buffers_)
           d == FlattenSeq(currentBuffer_)
<1>1. /\ pc = "write" /\ turn <= Len(buffersToWrite)
      /\ UNCHANGED <<own, pc, buffersToWrite, newBuffer1, newBuffer2, appended,
                     buffers_, currentBuffer_, nextBuffer_>>
  BY DEF WriteBuffer, sharedVars
<1>2. BuffersInv' /\ SparesInv'
  BY <1>1, OtherStep DEF PassInv, SparesInv
<1>3. /\ buffersToWrite \in Seq(Contents) /\ Len(buffersToWrite) \in Nat
      /\ turn \in 1..Len(buffersToWrite)
      /\ files \in Seq(File) /\ files # <<>> /\ own # "new"
      /\ written \in Nat /\ written <= k
  BY <1>1 DEF PassInv, BuffersInv, FilesInv, WriteInv
<1>4. data \in Contents /\ k \in Nat /\ written \in 0..k
  <2>1. data \in Contents
    BY <1>3
  <2>2. k \in Nat
    BY <2>1 DEF Contents
  <2>. QED BY <1>3, <2>1, <2>2
<1>5. ahead \in Contents
      /\ \A w \in 0..k : Ahead(buffersToWrite, turn, w) = Drop(data, w) \o ahead
  BY <1>3, AheadNow
<1>6. /\ a \in Contents /\ c \in Contents /\ d \in Contents
  BY Parts
<1>7. ASSUME NEW x \in Contents, All(files') = a \o x,
             Ahead(buffersToWrite, turn, written)
               = x \o Ahead(buffersToWrite', turn', written'),
             Ahead(buffersToWrite', turn', written') \in Contents
      PROVE  Stream' = Stream
  <2> DEFINE b == Ahead(buffersToWrite', turn', written')
  <2>1. Parts5(a, b, c, d, x)
    BY <1>6, <1>7 DEF Parts5
  <2>2. Stream' = Whole(a \o x, b, c, d)
    BY <1>1, <1>7, StreamIs
  <2>3. Stream = Whole(a, x \o b, c, d)
    BY <1>7, StreamIs
  <2> HIDE DEF a, b, c, d
  <2>4. Whole(a \o x, b, c, d) = Whole(a, x \o b, c, d)
    BY <2>1, WholeWritten
  <2>. QED BY <2>2, <2>3, <2>4
<1>8. ASSUME NEW n \in 0..(k - written)
      PROVE  /\ SubSeq(Drop(data, written), 1, n) \in Contents
             /\ Drop(data, written)
                  = SubSeq(Drop(data, written), 1, n) \o Drop(data, written + n)
             /\ Written(data, n) \in Seq(File) /\ Written(data, n) # <<>>
             /\ All(Written(data, n)) = a \o SubSeq(Drop(data, written), 1, n)
  <2> DEFINE x == SubSeq(Drop(data, written), 1, n)
  <2>1. x \in Contents
        /\ Drop(data, written) = x \o Drop(data, written + n)
    <3> HIDE DEF data
    <3>1. data \in Contents /\ written \in 0..Len(data) /\ n \in 0..(Len(data) - written)
      BY <1>4, <1>8
    <3>. QED BY <3>1, DropPart
  <2>2. Written(data, n) = [files EXCEPT ![Len(files)].units = @ \o x]
    BY DEF Written, Remaining, Drop
  <2> HIDE DEF x, data
  <2>3. /\ Written(data, n) \in Seq(File) /\ Written(data, n) # <<>>
        /\ All(Written(data, n)) = All(files) \o x
    BY <1>3, <2>1, <2>2, FilesWritten
  <2>. QED BY <2>1, <2>3 DEF x
<1>9. CASE WritePart(data) /\ UNCHANGED turn
  <2>1. PICK n \in 1..(k - written - 1) :
          /\ files' = Written(data, n)
          /\ written' = written + n
    BY <1>9 DEF WritePart
  <2>2. n \in 0..(k - written) /\ written + n \in 0..k
    BY <1>4, <2>1
  <2>3. files' \in Seq(File) /\ files' # <<>>
    BY <1>8, <2>1, <2>2
  <2>4. FilesInv'
    BY <1>1, <1>3, <2>3 DEF FilesInv
  <2>5. WriteInv'
    <3>1. written' \in 0..k
      BY <2>1, <2>2
    <3>2. /\ turn' = turn /\ buffersToWrite' = buffersToWrite /\ pc' = "write"
      BY <1>1, <1>9
    <3>. QED BY <1>3, <1>4, <3>1, <3>2 DEF WriteInv
  <2>6. Stream' = Stream
    <3> DEFINE x == SubSeq(Drop(data, written), 1, n)
               e == Drop(data, written + n)
    <3>1. /\ x \in Contents /\ e \in Contents
          /\ Drop(data, written) = x \o e
          /\ All(files') = a \o x
      <4>1. x \in Contents /\ Drop(data, written) = x \o e /\ All(files') = a \o x
        BY <1>8, <2>1, <2>2
      <4>2. e \in Contents
        <5> HIDE DEF data
        <5>1. data \in Contents /\ written + n \in 0..Len(data)
          BY <1>4, <2>2
        <5>. QED BY <5>1, DropFacts
      <4>. QED BY <4>1, <4>2
    <3>2. Ahead(buffersToWrite', turn', written') = e \o ahead
      BY <1>1, <1>5, <1>9, <2>1, <2>2
    <3>3. Ahead(buffersToWrite, turn, written) = (x \o e) \o ahead
      BY <1>4, <1>5, <3>1
    <3> HIDE DEF x, e, ahead, a
    <3>4. (x \o e) \o ahead = x \o (e \o ahead)
      BY <1>5, <3>1, ContentsAssociative
    <3>5. e \o ahead \in Contents
      BY <1>5, <3>1, ContentsJoin
    <3>. QED BY <1>7, <3>1, <3>2, <3>3, <3>4, <3>5
  <2>7. appended' = appended
    BY <1>1
  <2>. QED BY <1>2, <2>4, <2>5, <2>6, <2>7, NotGrown DEF PassInv
<1>10. CASE WriteRest(data) /\ turn' = turn + 1
  <2> DEFINE n == k - written
  <2>1. n \in 0..(k - written) /\ written + n = k
    BY <1>4
  <2>2. written' = 0 /\ RollOrFlush(Written(data, n))
    BY <1>10 DEF WriteRest
  <2> HIDE DEF n
  <2> DEFINE x == SubSeq(Drop(data, written), 1, n)
  <2>3. /\ x \in Contents /\ Drop(data, written) = x \o Drop(data, k)
        /\ Written(data, n) \in Seq(File) /\ Written(data, n) # <<>>
        /\ All(Written(data, n)) = a \o x
    BY <1>8, <2>1
  <2>4. files' \in Seq(File) /\ files' # <<>> /\ All(files') = a \o x
    <3> DEFINE fs == Written(data, n)
    <3>1. fs \in Seq(File) /\ fs # <<>> /\ RollOrFlush(fs) /\ All(fs) = a \o x
      BY <2>2, <2>3
    <3> HIDE DEF fs
    <3>2. files' \in Seq(File) /\ files' # <<>> /\ All(files') = All(fs)
      BY <3>1, RolledOrFlushed
    <3>. QED BY <3>1, <3>2
  <2>5. FilesInv'
    BY <1>1, <1>3, <2>4 DEF FilesInv
  <2>6. WriteInv'
    <3>1. turn' \in 1..(Len(buffersToWrite) + 1) /\ buffersToWrite' = buffersToWrite
          /\ pc' = "write"
      BY <1>1, <1>3, <1>10
    <3>2. ASSUME turn' <= Len(buffersToWrite)
          PROVE  Len(buffersToWrite[turn']) \in Nat
      <4>1. buffersToWrite[turn'] \in Contents
        BY <1>3, <3>1, <3>2
      <4>. QED BY <4>1 DEF Contents
    <3>. QED BY <2>2, <3>1, <3>2 DEF WriteInv
  <2>7. Stream' = Stream
    <3>1. Ahead(buffersToWrite', turn', written') = ahead
      BY <1>1, <1>10, <2>2
    <3>2. Drop(data, k) = <<>>
      <4> HIDE DEF data
      <4> DEFINE e == Drop(data, Len(data))
      <4>1. data \in Contents /\ Len(data) \in 0..Len(data) /\ Len(data) - Len(data) = 0
        BY <1>4
      <4>2. e \in Contents /\ Len(e) = 0
        BY <4>1, DropFacts
      <4> HIDE DEF e
      <4>3. e = <<>>
        BY <4>2 DEF Contents
      <4>. QED BY <4>3 DEF e
    <3>3. x \o <<>> = x
      BY <2>3, ContentsJoin
    <3>4. Ahead(buffersToWrite, turn, written) = x \o ahead
      BY <1>4, <1>5, <2>3, <3>2, <3>3
    <3> HIDE DEF x, ahead, a
    <3>. QED BY <1>5, <1>7, <2>3, <2>4, <3>1, <3>4
  <2>8. appended' = appended
    BY <1>1
  <2>. QED BY <1>2, <2>5, <2>6, <2>7, <2>8, NotGrown DEF PassInv
<1>. QED BY <1>9, <1>10 DEF WriteBuffer

LEMMA RecycleGrows ==
  ASSUME PassInv, Recycle
  PROVE  PassInv' /\ Grown(Stream, Stream', appended, appended')
<1> DEFINE kept == Kept(buffersToWrite)
<1>1. /\ pc = "write" /\ turn > Len(buffersToWrite)
      /\ newBuffer1' = Spare(newBuffer1, kept)
      /\ newBuffer2' = Spare(newBuffer2, Left(newBuffer1, kept))
      /\ buffersToWrite' = <<>> /\ turn' = 1 /\ pc' = "test"
      /\ files' = IF Overdue THEN FlushLast(files) ELSE files
      /\ UNCHANGED <<own, currentBuffer_, nextBuffer_, buffers_, appended,
                     written, newSecond>>
  BY DEF Recycle, sharedVars, clockVars
<1>2. BuffersInv'
  BY RecycleStep DEF PassInv
<1>3. /\ buffersToWrite \in Seq(Contents) /\ Len(buffersToWrite) \in Nat
      /\ turn = Len(buffersToWrite) + 1 /\ written = 0
  <2>1. buffersToWrite \in Seq(Contents) /\ Len(buffersToWrite) \in Nat
    BY DEF PassInv, BuffersInv
  <2>. QED BY <1>1, <2>1 DEF PassInv, WriteInv
<1>4. kept \in Seq(Contents) /\ Len(kept) = 2
  BY <1>3, KeptTwo
<1> HIDE DEF kept
<1>5. SparesInv'
  <2>1. newBuffer1 \in Spares /\ newBuffer2 \in Spares /\ newBuffer1 \in Pointers
        /\ nextBuffer_ \in Spares
    BY DEF PassInv, BuffersInv, SparesInv
  <2>2. Left(newBuffer1, kept) \in Seq(Contents)
    <3>1. Len(kept) > 0
      BY <1>4
    <3>. QED BY <1>4, <2>1, <3>1, SpareFound
  <2>. QED BY <1>1, <1>4, <2>1, <2>2, SpareFacts DEF SparesInv
<1>6. files' \in Seq(File) /\ files' # <<>> /\ All(files') = All(files)
  <2>1. files \in Seq(File) /\ files # <<>>
    BY <1>1 DEF PassInv, FilesInv
  <2>. QED BY <1>1, <2>1, FilesFlushed
<1>7. FilesInv'
  BY <1>1, <1>6 DEF PassInv, FilesInv
<1>8. WriteInv'
  BY <1>1, <1>3 DEF WriteInv
<1>9. Stream' = Stream
  <2>1. Ahead(buffersToWrite, turn, written) = <<>>
    BY <1>3, AheadAtEnd
  <2>2. Ahead(buffersToWrite', turn', written') = <<>>
    BY <1>1, <1>3, NothingAhead
  <2>. QED BY <1>1, <1>6, <2>1, <2>2, StreamIs
<1>10. appended' = appended
  BY <1>1
<1>. QED BY <1>2, <1>5, <1>7, <1>8, <1>9, <1>10, NotGrown DEF PassInv

LEMMA StartGrows ==
  ASSUME PassInv, Start
  PROVE  PassInv' /\ Grown(Stream, Stream', appended, appended')
<1>1. /\ own = "new" /\ own' = "started" /\ pc' = "test"
      /\ newBuffer1' = Ptr(NewBuffer) /\ newBuffer2' = Ptr(NewBuffer)
      /\ RollFile(files)
      /\ UNCHANGED <<currentBuffer_, nextBuffer_, buffers_, buffersToWrite, turn,
                     appended, written>>
  BY DEF Start, OpenLog
<1>2. BuffersInv'
  BY OtherStep DEF PassInv
<1>3. SparesInv'
  BY <1>1, SpareFacts DEF PassInv, SparesInv
<1>4. pc = "none" /\ newSecond /\ files \in Seq(File)
  BY <1>1 DEF PassInv, FilesInv
<1>5. files' \in Seq(File) /\ files' # <<>> /\ All(files') = All(files)
  <2>1. files' = Append([i \in DOMAIN files |-> Flushed(files[i])], NewFile)
    BY <1>1, <1>4 DEF RollFile
  <2>. QED BY <1>4, <2>1, FilesRolled
<1>6. FilesInv'
  BY <1>1, <1>5 DEF FilesInv
<1>7. WriteInv'
  BY <1>1, <1>4 DEF PassInv, WriteInv
<1>8. Stream' = Stream
  BY <1>1, <1>5, StreamIs
<1>9. appended' = appended
  BY <1>1
<1>. QED BY <1>2, <1>3, <1>6, <1>7, <1>8, <1>9, NotGrown DEF PassInv

LEMMA OtherGrows ==
  ASSUME PassInv, Stop \/ TestRunning \/ TimePasses \/ UNCHANGED vars
  PROVE  PassInv' /\ Grown(Stream, Stream', appended, appended')
<1>1. /\ UNCHANGED <<currentBuffer_, nextBuffer_, buffers_, newBuffer1, newBuffer2,
                     buffersToWrite, turn, written, appended>>
      /\ \/ UNCHANGED <<own, pc>>
         \/ own = "started" /\ own' = "stopped" /\ UNCHANGED pc
         \/ pc = "test" /\ pc' \in {"collect", "ended"} /\ UNCHANGED own
      /\ newSecond => newSecond'
      /\ files' = files \/ (pc = "test" /\ files' = FlushLast(files))
  <2>1. CASE Stop
    BY <2>1 DEF Stop, localVars, logVars
  <2>2. CASE TestRunning
    BY <2>2 DEF TestRunning, CloseLog, sharedVars, localVars, logVars
  <2>3. CASE TimePasses
    BY <2>3 DEF TimePasses, Tick, sharedVars, localVars
  <2>4. CASE UNCHANGED vars
    BY <2>4 DEF vars, logVars
  <2>. QED BY <2>1, <2>2, <2>3, <2>4
<1>2. BuffersInv'
  BY OtherStep DEF PassInv
<1>3. SparesInv'
  BY <1>1 DEF PassInv, SparesInv
<1>4. files' \in Seq(File) /\ (files # <<>> => files' # <<>>)
      /\ All(files') = All(files)
  <2>1. files \in Seq(File) /\ (pc = "test" => files # <<>>)
    BY DEF PassInv, FilesInv
  <2>. QED BY <1>1, <2>1, FilesFlushed
<1>5. FilesInv'
  BY <1>1, <1>4 DEF PassInv, FilesInv
<1>6. WriteInv'
  BY <1>1 DEF PassInv, WriteInv
<1>7. Stream' = Stream
  BY <1>1, <1>4, StreamIs
<1>8. appended' = appended
  BY <1>1
<1>. QED BY <1>2, <1>3, <1>5, <1>6, <1>7, <1>8, NotGrown DEF PassInv

------------------------------------------------------------------------------
\* Every step keeps the order of the buffers and adds to the stream at its end.
LEMMA StepGrows ==
  ASSUME PassInv, [Next]_vars
  PROVE  PassInv' /\ Grown(Stream, Stream', appended, appended')
BY AppendLineGrows, CollectGrows, WriteBufferGrows, RecycleGrows, StartGrows,
   OtherGrows DEF Next, ThreadFunc

LinesInv == PassInv /\ InOrder(Stream, appended)

LEMMA LinesInit == Init => LinesInv
<1> SUFFICES ASSUME Init  PROVE LinesInv
  OBVIOUS
<1>1. /\ own = "new" /\ currentBuffer_ = Ptr(NewBuffer)
      /\ nextBuffer_ = Ptr(NewBuffer) /\ buffers_ = <<>>
      /\ newBuffer1 = Null /\ newBuffer2 = Null /\ buffersToWrite = <<>>
      /\ pc = "none" /\ turn = 1 /\ appended = 0
      /\ files = <<>> /\ written = 0 /\ newSecond
  BY DEF Init, LogInit
<1>2. BuffersInv
  BY BuffersInit
<1>3. FilesInv /\ WriteInv /\ SparesInv
  BY <1>1, SpareFacts DEF FilesInv, WriteInv, SparesInv
<1>4. PassInv
  BY <1>2, <1>3 DEF PassInv
<1>5. Stream = <<>>
  <2>1. All(files) = <<>>
    <3>1. UnitsOf(<<>>) = <<>>
      BY DEF UnitsOf
    <3>. QED BY <1>1, <3>1, FlattenType DEF All
  <2>2. FlattenSeq(currentBuffer_) = <<>>
    BY <1>1, <1>4, Parts DEF Ptr, NewBuffer, Pointee
  <2>3. Stream = Whole(<<>>, <<>>, <<>>, <<>>)
    BY <1>1, <2>1, <2>2, NothingAhead, FlattenType, StreamIs
  <2>4. <<>> \o <<>> = <<>>
    OBVIOUS
  <2>. QED BY <2>3, <2>4 DEF Whole
<1>6. InOrder(Stream, appended)
  <2>1. <<>> \in Contents
    BY DEF Contents
  <2>. QED BY <1>1, <1>5, <2>1 DEF InOrder
<1>. QED BY <1>4, <1>6 DEF LinesInv

LEMMA LinesNext == LinesInv /\ [Next]_vars => LinesInv'
<1> SUFFICES ASSUME LinesInv, [Next]_vars  PROVE LinesInv'
  OBVIOUS
<1>1. PassInv /\ InOrder(Stream, appended) /\ appended \in Nat
  BY DEF LinesInv, PassInv, BuffersInv
<1>2. PassInv' /\ Grown(Stream, Stream', appended, appended')
  BY <1>1, StepGrows
<1>3. InOrder(Stream', appended')
  BY <1>1, <1>2, OrderKept
<1>. QED BY <1>2, <1>3 DEF LinesInv, InOrder

\* The lines in the files and on their way there are in the order of the calls
\* of append, each at most once, however full the buffers are, however the
\* spares are recycled, in whatever parts fwrite takes the data and whenever
\* the file is rolled.
THEOREM LinesOrdered == Spec => []LinesInOrder
<1>1. LinesInv => LinesInOrder
  <2> SUFFICES ASSUME LinesInv  PROVE LinesInOrder
    OBVIOUS
  <2>1. DOMAIN Stream = 1..Len(Stream)
    BY DEF LinesInv, InOrder, Contents
  <2>. QED BY <2>1 DEF LinesInv, InOrder, LinesInOrder
<1>. QED BY LinesInit, LinesNext, <1>1, PTL DEF Spec

\* What a buffer has accepted stays on its way to the file, or in it: no step
\* drops it, neither that of a full buffer, nor the collection, nor a partial
\* write, nor the recycling of the buffers written, nor a roll.
THEOREM LinesKept == Spec => NoneDropped
<1>1. LinesInv /\ [Next]_vars =>
        [\A n \in 1..MaxLines : Underway(n) => Underway(n)']_vars
  <2> SUFFICES ASSUME LinesInv, [Next]_vars, NEW n \in 1..MaxLines, Underway(n)
               PROVE  Underway(n)'
    OBVIOUS
  <2>1. Stream \in Contents /\ Grown(Stream, Stream', appended, appended')
    BY StepGrows DEF LinesInv, InOrder
  <2>2. PICK y : Stream' = Stream \o y /\ y \in Contents
    BY <2>1 DEF Grown, Adds
  <2>3. PICK i \in 1..Len(Stream) : Stream[i] = n
    BY DEF Underway, Contains
  <2>4. \A s, t \in Contents :
          \A j \in 1..Len(s) : j \in 1..Len(s \o t) /\ (s \o t)[j] = s[j]
    BY DEF Contents
  <2>5. i \in 1..Len(Stream') /\ Stream'[i] = n
    BY <2>1, <2>2, <2>3, <2>4
  <2>. QED BY <2>5 DEF Underway, Contains
<1>. QED BY LinesInit, LinesNext, <1>1, PTL DEF Spec, NoneDropped

==============================================================================
