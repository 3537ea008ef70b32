------------------------------- MODULE LogFile -------------------------------
(***************************************************************************)
(* The log file of the background thread (src/src/Logger/LogFile.cpp) on   *)
(* stdio (src/src/Logger/FileUtil.cpp): a file is rolled when it is large  *)
(* or when a new day has begun, and flushed every so often.                *)
(*                                                                         *)
(* Abstractions.  A file is the sequence of the units that fwrite has      *)
(* taken and the number of them that are on the disk; stdio keeps the      *)
(* others until fflush or fclose, the longest it may.  Of the clock, which *)
(* goes forward, the code sees only what it compares with lastRoll_,       *)
(* startOfPeriod_ and lastFlush_: newSecond, newPeriod and sinceFlush.     *)
(* fwrite may take a part of what it is given, as on a full disk; fopen    *)
(* succeeds.  LogFile's mutex_ has one user and does not appear.           *)
(***************************************************************************)
EXTENDS Naturals, SequencesExt

CONSTANTS
  RollSize,       \* rollSize_, in units
  CheckEveryN,    \* checkEveryN_ (1024)
  FlushInterval,  \* flushInterval_: AsyncLogging passes false for it
  FlushAfter      \* the seconds after which AsyncLogging flushes (3)

ASSUME LogFileAssumption ==
  /\ RollSize \in Nat /\ CheckEveryN \in Nat
  /\ FlushInterval \in Nat /\ FlushAfter \in Nat /\ FlushInterval <= FlushAfter

VARIABLES
  files,        \* those written so far, the last is file_
  count_,       \* appends since the clock was looked at
  written,      \* FileUtil::append's local: units of its data written
  newSecond,    \* now > lastRoll_
  newPeriod,    \* now is on another day than startOfPeriod_
  sinceFlush    \* now - lastFlush_, at most FlushAfter + 1

logVars == <<files, count_, written, newSecond, newPeriod, sinceFlush>>
clockVars == <<newSecond, newPeriod, sinceFlush>>

NewFile == [units |-> <<>>, flushed |-> 0]
Flushed(f) == [f EXCEPT !.flushed = Len(f.units)]

LogInit ==
  /\ files = <<>>
  /\ count_ = 0
  /\ written = 0
  /\ newSecond = TRUE
  /\ newPeriod = TRUE
  /\ sinceFlush = FlushAfter + 1

\* A second goes by, and perhaps midnight.
Tick ==
  /\ newSecond' = TRUE
  /\ newPeriod' \in {newPeriod, TRUE}
  /\ sinceFlush' = IF sinceFlush > FlushAfter THEN sinceFlush ELSE sinceFlush + 1
  /\ UNCHANGED <<files, count_, written>>

\* rollFile, once fs are the files: at most one file a second, since the name
\* is made of the time.  The old file is closed, which flushes it.
RollFile(fs) ==
  IF newSecond
  THEN /\ files' = Append([i \in DOMAIN fs |-> Flushed(fs[i])], NewFile)
       /\ newSecond' = FALSE
       /\ newPeriod' = FALSE
       /\ sinceFlush' = 0
  ELSE files' = fs /\ UNCHANGED clockVars

\* The constructor.
OpenLog == RollFile(files) /\ UNCHANGED <<count_, written>>

FlushLast(fs) == [fs EXCEPT ![Len(fs)] = Flushed(@)]

\* The destructor closes the last file.
CloseLog ==
  /\ files' = FlushLast(files)
  /\ UNCHANGED <<count_, written, newSecond, newPeriod, sinceFlush>>

\* appendInLock after the write, which made the files fs.
RollOrFlush(fs) ==
  IF Len(Last(fs).units) > RollSize THEN RollFile(fs) /\ UNCHANGED count_
  ELSE IF count_ < CheckEveryN
  THEN files' = fs /\ count_' = count_ + 1 /\ UNCHANGED clockVars
  ELSE /\ count_' = 0
       /\ CASE newPeriod -> RollFile(fs)
            [] ~newPeriod /\ sinceFlush > FlushInterval ->
                 /\ files' = FlushLast(fs)
                 /\ sinceFlush' = 0
                 /\ UNCHANGED <<newSecond, newPeriod>>
            [] OTHER -> files' = fs /\ UNCHANGED clockVars

\* Mutant: the retry starts from the beginning of the data.
Remaining_FromStart(data) == data

\* What FileUtil::append has still to write.
Remaining(data) == SubSeq(data, written + 1, Len(data))

\* One fwrite, which takes n units.
Written(data, n) ==
  [files EXCEPT ![Len(files)].units = @ \o SubSeq(Remaining(data), 1, n)]

\* append: fwrite is called until it has taken everything.
WritePart(data) ==
  \E n \in 1..(Len(data) - written - 1) :
    /\ files' = Written(data, n)
    /\ written' = written + n
    /\ UNCHANGED <<count_, newSecond, newPeriod, sinceFlush>>

WriteRest(data) ==
  /\ RollOrFlush(Written(data, Len(data) - written))
  /\ written' = 0

\* Mutant: the clock has to show the very second.
Overdue_Exact == sinceFlush = FlushAfter

\* What AsyncLogging reads with getLastFlush; its flush then leaves lastFlush_
\* alone, so that from then on it flushes in every pass.
Overdue == sinceFlush > FlushAfter

OnDisk(f) == SubSeq(f.units, 1, f.flushed)
==============================================================================
