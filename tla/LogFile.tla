------------------------------ MODULE LogFile ------------------------------
(***************************************************************************)
(* LogFile with threadSafe: threads append lines to a file that is rolled  *)
(* when it is too long or a new period begins, and flushed now and then,   *)
(* on a wall clock in seconds, which runs on, and is sometimes set back,   *)
(* between any two times that it is read.  stdio has a buffer between the  *)
(* File and the disk.  A line is the time of its append and its length.    *)
(***************************************************************************)
EXTENDS Integers, Sequences, SequencesExt, FiniteSets

CONSTANTS
  Threads,
  rollSize_, flushInterval_,
  kCheckTimeRoll_, kRollPerSeconds_,
  BufferSize,     \* of stdio
  MaxTime,        \* bound: the clock
  MaxLines,       \* bound: the lines
  MaxSetBacks     \* bound: how often the clock is set back

ASSUME LogFileAssumption ==
  /\ {rollSize_, flushInterval_, kCheckTimeRoll_, BufferSize} \subseteq Nat
  /\ kRollPerSeconds_ \in Nat \ {0}
  /\ "none" \notin Threads

VARIABLES
  now,       \* the clock
  setBacks,  \* how often it was set back
  count_, startOfPeriod_, lastRoll_, lastFlush_,
  files,     \* every File there was, the last is file_: the second in its name, the
             \* lines on the disk, the lines in stdio's buffer
  rolling    \* the thread that has mutex_ and is about to call rollFile(), or "none"

clock == <<now, setBacks>>
period == <<startOfPeriod_, lastRoll_, lastFlush_>>
fileVars == <<clock, count_, period, files, rolling>>

File(name) == [name |-> name, disk |-> <<>>, buf |-> <<>>]
Content(f) == f.disk \o f.buf
Line(len) == [time |-> now, len |-> len]

Bytes(lines) == FoldLeft(LAMBDA n, l : n + l.len, 0, lines)
writtenBytes(f) == Bytes(Content(f))

StartOfPeriod(time) == (time \div kRollPerSeconds_) * kRollPerSeconds_

(* The constructor calls rollFile().                                         *)
FileInit ==
  /\ now = 1 /\ setBacks = 0
  /\ count_ = 0
  /\ startOfPeriod_ = StartOfPeriod(now)
  /\ lastRoll_ = now /\ lastFlush_ = now
  /\ files = <<File(now)>>
  /\ rolling = "none"

-----------------------------------------------------------------------------
Flushed(f) == [f EXCEPT !.disk = @ \o f.buf, !.buf = <<>>]

(* File::append: fwrite puts the line into the buffer; if it does not fit,   *)
(* what was there goes to the disk, with some of the line.                   *)
Written(f, l) ==
  IF Bytes(Append(f.buf, l)) <= BufferSize THEN [f EXCEPT !.buf = Append(@, l)]
  ELSE [Flushed(f) EXCEPT !.buf = <<l>>]

TooLong(f) == writtenBytes(f) > rollSize_
CheckTime == count_ > kCheckTimeRoll_

(* Fault: a period that is over is noticed when the next one is, too.        *)
NewPeriod_Late == now - startOfPeriod_ > 2 * kRollPerSeconds_

NewPeriod == StartOfPeriod(now) # startOfPeriod_

(* Fault: the wrong one of the two intervals.                                *)
FlushDue_Interval == now - lastFlush_ > kRollPerSeconds_

FlushDue == now - lastFlush_ > flushInterval_

(* append_unlocked, up to the call of rollFile() if there is one.            *)
append_unlocked(t, len) ==
  LET f == Written(Last(files), Line(len))
      roll == TooLong(f) \/ (CheckTime /\ NewPeriod)
      flushes == ~roll /\ CheckTime /\ FlushDue
  IN  /\ files' = [files EXCEPT ![Len(files)] = IF flushes THEN Flushed(f) ELSE f]
      /\ lastFlush_' = IF flushes THEN now ELSE lastFlush_
      /\ count_' = IF TooLong(f) THEN count_ ELSE IF CheckTime THEN 0 ELSE count_ + 1
      /\ rolling' = IF roll THEN t ELSE "none"

(* LogFile::append, once mutex_ is locked; it stays locked for rollFile().   *)
AppendLine(t, len) ==
  /\ rolling = "none"
  /\ append_unlocked(t, len)
  /\ UNCHANGED <<clock, startOfPeriod_, lastRoll_>>

(* Fault: a file may be rolled in the second it was opened in.               *)
MayRoll_SameSecond == now >= lastRoll_

MayRoll == now > lastRoll_

(* rollFile reads the clock again; when it opens a file, the old one is      *)
(* closed, which flushes it.                                                 *)
rollFile(t) ==
  /\ rolling = t
  /\ IF MayRoll
       THEN /\ lastRoll_' = now /\ lastFlush_' = now
            /\ startOfPeriod_' = StartOfPeriod(now)
            /\ files' = Append([files EXCEPT ![Len(files)] = Flushed(@)], File(now))
       ELSE UNCHANGED <<period, files>>
  /\ rolling' = "none"
  /\ UNCHANGED <<clock, count_>>

flush ==
  /\ rolling = "none"
  /\ files' = [files EXCEPT ![Len(files)] = Flushed(@)]
  /\ UNCHANGED <<clock, count_, period, rolling>>

Tick ==
  /\ now < MaxTime
  /\ now' = now + 1
  /\ UNCHANGED <<setBacks, count_, period, files, rolling>>

SetBack ==
  /\ setBacks < MaxSetBacks
  /\ now' \in 1 .. now - 1
  /\ setBacks' = setBacks + 1
  /\ UNCHANGED <<count_, period, files, rolling>>
=============================================================================
