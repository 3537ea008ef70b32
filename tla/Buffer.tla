------------------------------- MODULE Buffer --------------------------------
(***************************************************************************)
(* The byte buffer of a connection (src/src/Net/Buffer.h, Buffer.cpp): one *)
(* vector with a free prefix, a readable part from readerIndex_ up to      *)
(* writerIndex_ and a writable rest.  Reading moves readerIndex_; a write  *)
(* that does not fit either moves the readable part back to the start or   *)
(* makes the vector longer; readFd writes behind the writable part into a  *)
(* second buffer on the stack and appends that afterwards.                 *)
(*                                                                         *)
(* A buffer is a record and every member function an operator on it.  The  *)
(* bytes put into it are numbered 1, 2, 3, ..., and a cell that was never  *)
(* written holds 0.  Lengths are those an int can hold, since makeSpace    *)
(* takes one.  writeFd and the functions that look at the readable part    *)
(* and leave it alone change nothing.                                      *)
(***************************************************************************)
EXTENDS Naturals

CONSTANTS
  kCheapPrepend,
  kInitialSize,
  ExtraSize,    \* sizeof(extrabuf) in readFd
  MaxLen,       \* bound: bytes appended or retrieved by one call
  MaxBytes      \* bound: bytes put into the buffer

ASSUME BufferAssumption ==
  /\ kCheapPrepend \in Nat
  /\ kInitialSize \in Nat
  /\ ExtraSize \in Nat
  /\ MaxLen \in Nat
  /\ MaxBytes \in Nat

VARIABLES
  buf,        \* the Buffer
  appended,   \* history: the bytes put into it
  taken       \* history: the bytes retrieved from it

vars == <<buf, appended, taken>>

NewBuffer ==
  [data |-> [i \in 0..(kCheapPrepend + kInitialSize - 1) |-> 0],
   size |-> kCheapPrepend + kInitialSize,
   reader |-> kCheapPrepend,
   writer |-> kCheapPrepend]

ReadableBytes(b) == b.writer - b.reader
WritableBytes(b) == b.size - b.writer
PrependableBytes(b) == b.reader

------------------------------------------------------------------------------
\* makeSpace, when the whole vector is too short ...
Resized(b, len) ==
  [b EXCEPT !.data = [i \in 0..(b.writer + len - 1) |->
                        IF i < b.size THEN b.data[i] ELSE 0],
            !.size = b.writer + len]

\* ... and when moving the readable part back is enough.
MovedBack(b) ==
  [b EXCEPT !.data = [i \in 0..(b.size - 1) |->
                        IF i \in kCheapPrepend..(kCheapPrepend + ReadableBytes(b) - 1)
                        THEN b.data[i - kCheapPrepend + b.reader] ELSE b.data[i]],
            !.reader = kCheapPrepend,
            !.writer = kCheapPrepend + ReadableBytes(b)]

\* Mutant: the prefix that must stay free is not counted.
MakeSpace_NoPrepend(b, len) ==
  IF WritableBytes(b) + PrependableBytes(b) < len THEN Resized(b, len)
                                                  ELSE MovedBack(b)

MakeSpace(b, len) ==
  IF WritableBytes(b) + PrependableBytes(b) < len + kCheapPrepend
  THEN Resized(b, len) ELSE MovedBack(b)

EnsureWritableBytes(b, len) ==
  IF WritableBytes(b) < len THEN MakeSpace(b, len) ELSE b

\* Bytes first, first + 1, ... are copied to beginWrite().
Copied(b, len, first) ==
  [b EXCEPT !.data = [i \in 0..(b.size - 1) |->
                        IF i \in b.writer..(b.writer + len - 1)
                        THEN i - b.writer + first ELSE b.data[i]],
            !.writer = b.writer + len]

AppendBytes(b, len, first) == Copied(EnsureWritableBytes(b, len), len, first)

\* Mutant: the part of a read that went to extrabuf is appended as if it
\* began where the read did.
ReadBytes_Restarts(b, n, first) ==
  IF n <= WritableBytes(b) THEN Copied(b, n, first)
  ELSE AppendBytes(Copied(b, WritableBytes(b), first),
                   n - WritableBytes(b), first)

\* readFd, when readv delivers n bytes.
ReadBytes(b, n, first) ==
  IF n <= WritableBytes(b) THEN Copied(b, n, first)
  ELSE AppendBytes(Copied(b, WritableBytes(b), first),
                   n - WritableBytes(b), first + WritableBytes(b))

\* What readv has room for.
ReadRoom(b) ==
  IF WritableBytes(b) < ExtraSize THEN WritableBytes(b) + ExtraSize
                                  ELSE WritableBytes(b)

RetrieveAll(b) == [b EXCEPT !.reader = kCheapPrepend, !.writer = kCheapPrepend]

Retrieve(b, len) ==
  IF len < ReadableBytes(b) THEN [b EXCEPT !.reader = b.reader + len]
                            ELSE RetrieveAll(b)

------------------------------------------------------------------------------
Init ==
  /\ buf = NewBuffer
  /\ appended = 0
  /\ taken = 0

\* append
AppendData(len) ==
  /\ appended + len <= MaxBytes
  /\ buf' = AppendBytes(buf, len, appended + 1)
  /\ appended' = appended + len
  /\ UNCHANGED taken

\* readFd
ReadFd(n) ==
  /\ appended + n <= MaxBytes
  /\ n <= ReadRoom(buf)
  /\ buf' = ReadBytes(buf, n, appended + 1)
  /\ appended' = appended + n
  /\ UNCHANGED taken

\* retrieve, retrieveUntil, retrieveAll and the two that return a string.
Take(len) ==
  /\ buf' = Retrieve(buf, len)
  /\ taken' = IF len < ReadableBytes(buf) THEN taken + len ELSE appended
  /\ UNCHANGED appended

Next ==
  \E len \in 0..MaxLen : AppendData(len) \/ ReadFd(len) \/ Take(len)

Spec == Init /\ [][Next]_vars

------------------------------------------------------------------------------
\* The buffer has its type, and its indices are in order: the prefix of
\* kCheapPrepend bytes stays free and nothing is read or written outside the
\* vector.
IsBuffer(b) ==
  /\ b.size \in Nat /\ b.reader \in Nat /\ b.writer \in Nat
  /\ b.data \in [0..(b.size - 1) -> Nat]
  /\ b = [data |-> b.data, size |-> b.size, reader |-> b.reader,
          writer |-> b.writer]
  /\ kCheapPrepend <= b.reader
  /\ b.reader <= b.writer
  /\ b.writer <= b.size

TypeOK ==
  /\ IsBuffer(buf)
  /\ appended \in Nat
  /\ taken \in Nat

\* The readable part of b holds the bytes first, first + 1, ..., last.
Holds(b, first, last) ==
  /\ last = first + ReadableBytes(b) - 1
  /\ \A i \in 0..(ReadableBytes(b) - 1) : b.data[b.reader + i] = first + i

\* What is readable is exactly what was put in and not taken out, in order,
\* however the two indices have been moved, the vector made longer and a read
\* split over two buffers.
BytesInOrder == Holds(buf, taken + 1, appended)
==============================================================================
