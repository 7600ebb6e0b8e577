---------------------------- MODULE LoggerProofs ----------------------------
(***************************************************************************)
(* Proofs about Logger for any number of threads, lines and files, and all *)
(* sizes and intervals: the inductive invariant IInv, and from it that the *)
(* log reads in order, is rolled and flushed in time, and has the line of  *)
(* a FATAL statement on the disk.  Then, for any number of bits and size   *)
(* of the buffer, what is in a line.                                       *)
(***************************************************************************)
EXTENDS Logger, FiniteSetTheorems, SequenceTheorems, WellFoundedInduction, TLAPS

-----------------------------------------------------------------------------
(* The inductive invariant.                                                  *)

Lens == {Message(s).length : s \in Statements}
LineSet == [time : Nat, len : Lens]
FileSet == [name : Nat, disk : Seq(LineSet), buf : Seq(LineSet)]

Types ==
  /\ now \in Nat /\ setBacks \in Nat
  /\ lastRoll_ \in Nat /\ lastFlush_ \in Nat
  /\ count_ \in 0 .. kCheckTimeRoll_ + 1
  /\ rolling \in Threads \cup {"none"}
  /\ files \in Seq(FileSet) /\ files # <<>>

(* What the name of a file says, and where the lines that are not on the     *)
(* disk are, however the clock is set.                                       *)
Names ==
  /\ lastRoll_ = Last(files).name
  /\ startOfPeriod_ = StartOfPeriod(lastRoll_)
  /\ \A i, j \in DOMAIN files : i < j => files[i].name < files[j].name
  /\ \A i \in DOMAIN files : i < Len(files) => files[i].buf = <<>>

(* The lines of another period than that of the name of their file, and      *)
(* those for which a flush was due when they were appended.                  *)
Foreign(name, lines) ==
  {i \in DOMAIN lines : StartOfPeriod(lines[i].time) # StartOfPeriod(name)}
Late(flushed, lines) == {i \in DOMAIN lines : lines[i].time - flushed > flushInterval_}

(* RolledInTime, of one file.                                                *)
Rolled(name, lines) ==
  /\ \A i \in 2 .. Len(lines) :
       Bytes(SubSeq(lines, 1, i - 1)) > rollSize_ => lines[i - 1].time = name
  /\ Cardinality(Foreign(name, lines)) <= kCheckTimeRoll_ + 2

(* While nobody is about to roll, count_ has counted all lines of the file   *)
(* for which it should be rolled or flushed.                                 *)
Counted(name, flushed, lines, count) ==
  /\ Cardinality(Foreign(name, lines)) <= count
  /\ Cardinality(Late(flushed, lines)) <= count
  /\ lines # <<>> /\ Bytes(lines) > rollSize_ => lines[Len(lines)].time = name

Within(lines, from, to) == \A i \in DOMAIN lines : from <= lines[i].time /\ lines[i].time <= to

(* Unless the clock was set back.                                            *)
Timely ==
  /\ lastRoll_ <= lastFlush_ /\ lastFlush_ <= now
  /\ Within(Content(Last(files)), lastRoll_, now)
  /\ Within(Last(files).buf, lastFlush_, now)
  /\ \A n \in DOMAIN files : Rolled(files[n].name, Content(files[n]))
  /\ rolling = "none" => Counted(lastRoll_, lastFlush_, Content(Last(files)), count_)

IInv == Types /\ Names /\ (setBacks = 0 => Timely)

-----------------------------------------------------------------------------
(* Periods.                                                                  *)

(* Multiples of P that are not the same are at least P apart.                *)
LEMMA NextMultiple ==
  ASSUME NEW P \in Nat, NEW x \in Int, NEW y \in Int, x > y
  PROVE  x * P >= y * P + P
<1>1. PICK d \in Nat : x = y + 1 + d
  <2>1. x - y - 1 \in Nat /\ x = y + 1 + (x - y - 1)
    OBVIOUS
  <2> QED BY <2>1
<1>2. d * P \in Nat
  OBVIOUS
<1>3. x * P = y * P + P + d * P
  BY <1>1
<1>4. y * P \in Int
  OBVIOUS
<1> QED BY <1>2, <1>3, <1>4

(* What lies between two times of one period is in it, too.                  *)
LEMMA PeriodBetween ==
  ASSUME NEW a \in Nat, NEW b \in Nat, NEW c \in Nat, a <= b, b <= c,
         StartOfPeriod(a) = StartOfPeriod(c)
  PROVE  StartOfPeriod(b) = StartOfPeriod(a)
<1> DEFINE P == kRollPerSeconds_
           A == a \div P
           B == b \div P
           C == c \div P
<1>1. P \in Nat /\ P > 0
  BY LogFileAssumption
<1>2. A \in Int /\ A * P <= a /\ a < A * P + P
  BY <1>1
<1>3. B \in Int /\ B * P <= b /\ b < B * P + P
  BY <1>1
<1>4. C \in Int /\ C * P <= c /\ c < C * P + P
  BY <1>1
<1>5. A * P = C * P /\ A * P \in Int /\ B * P \in Int
  BY <1>1, <1>2, <1>3 DEF StartOfPeriod
<1> HIDE DEF P, A, B, C
<1>6. ~(B > A)
  <2>1. B > A => B * P >= A * P + P
    BY <1>1, <1>2, <1>3, NextMultiple
  <2> QED BY <1>1, <1>3, <1>4, <1>5, <2>1
<1>7. ~(A > B)
  <2>1. A > B => A * P >= B * P + P
    BY <1>1, <1>2, <1>3, NextMultiple
  <2> QED BY <1>1, <1>2, <1>3, <1>5, <2>1
<1>8. A = B
  BY <1>2, <1>3, <1>6, <1>7
<1> QED BY <1>8 DEF StartOfPeriod, A, B, P

-----------------------------------------------------------------------------
(* Lines that are appended.                                                  *)

(* What is counted of n elements grows by at most one with element n + 1.    *)
LEMMA CountAppend ==
  ASSUME NEW n \in Nat, NEW A \in SUBSET (1 .. n), NEW B \in SUBSET (1 .. n + 1),
         \A i \in 1 .. n : i \in A <=> i \in B
  PROVE  /\ Cardinality(A) \in Nat /\ Cardinality(B) \in Nat
         /\ Cardinality(B) <= Cardinality(A) + 1
<1>1. IsFiniteSet(1 .. n)
  BY FS_Interval
<1>2. IsFiniteSet(A) /\ Cardinality(A) \in Nat
  BY <1>1, FS_Subset, FS_CardinalityType
<1>3. B = A \/ B = A \cup {n + 1}
  <2>1. \A i \in B : i \in A \/ i = n + 1
    OBVIOUS
  <2>2. A \subseteq B
    OBVIOUS
  <2> QED BY <2>1, <2>2
<1> QED BY <1>2, <1>3, FS_AddElement

(* What is counted of the lines, with one more.                              *)
LEMMA LinesAppend ==
  ASSUME NEW lines \in Seq(LineSet), NEW l \in LineSet, NEW name \in Nat, NEW flushed \in Nat
  PROVE  LET r == Append(lines, l)
         IN  /\ Cardinality(Foreign(name, lines)) \in Nat
             /\ Cardinality(Late(flushed, lines)) \in Nat
             /\ Cardinality(Foreign(name, r)) \in Nat
             /\ Cardinality(Late(flushed, r)) \in Nat
             /\ Cardinality(Foreign(name, r)) <= Cardinality(Foreign(name, lines)) + 1
             /\ Cardinality(Late(flushed, r)) <= Cardinality(Late(flushed, lines)) + 1
<1> DEFINE r == Append(lines, l)
           n == Len(lines)
<1>1. n \in Nat /\ DOMAIN lines = 1 .. n /\ DOMAIN r = 1 .. n + 1
      /\ \A i \in 1 .. n : r[i] = lines[i]
  OBVIOUS
<1> HIDE DEF r, n
<1>2. /\ Foreign(name, lines) \in SUBSET (1 .. n) /\ Foreign(name, r) \in SUBSET (1 .. n + 1)
      /\ \A i \in 1 .. n : i \in Foreign(name, lines) <=> i \in Foreign(name, r)
  BY <1>1 DEF Foreign
<1>3. /\ Late(flushed, lines) \in SUBSET (1 .. n) /\ Late(flushed, r) \in SUBSET (1 .. n + 1)
      /\ \A i \in 1 .. n : i \in Late(flushed, lines) <=> i \in Late(flushed, r)
  BY <1>1 DEF Late
<1>4. /\ Cardinality(Foreign(name, lines)) \in Nat /\ Cardinality(Foreign(name, r)) \in Nat
      /\ Cardinality(Foreign(name, r)) <= Cardinality(Foreign(name, lines)) + 1
  BY <1>1, <1>2, CountAppend
<1>5. /\ Cardinality(Late(flushed, lines)) \in Nat /\ Cardinality(Late(flushed, r)) \in Nat
      /\ Cardinality(Late(flushed, r)) <= Cardinality(Late(flushed, lines)) + 1
  BY <1>1, <1>3, CountAppend
<1> QED BY <1>4, <1>5 DEF r

(* Nothing is counted when it is early, or the period has not changed.       *)
LEMMA NothingLate ==
  ASSUME NEW lines \in Seq(LineSet), NEW from \in Nat, NEW to \in Nat, NEW flushed \in Nat,
         Within(lines, from, to), to - flushed <= flushInterval_
  PROVE  Cardinality(Late(flushed, lines)) = 0
<1>1. flushInterval_ \in Nat
  BY LogFileAssumption
<1>2. \A i \in DOMAIN lines : lines[i].time \in Nat
  <2>1. \A i \in DOMAIN lines : lines[i] \in LineSet
    BY ElementOfSeq
  <2> QED BY <2>1 DEF LineSet
<1>3. ASSUME NEW i \in DOMAIN lines PROVE ~(lines[i].time - flushed > flushInterval_)
  <2>1. PICK m \in Nat : m = lines[i].time
    BY <1>2
  <2>2. m <= to
    BY <2>1 DEF Within
  <2> QED BY <1>1, <2>1, <2>2
<1>4. Late(flushed, lines) = {}
  BY <1>3 DEF Late
<1> QED BY <1>4, FS_EmptySet

(* The late lines of a file can be counted.                                  *)
LEMMA LateFinite ==
  ASSUME NEW lines \in Seq(LineSet), NEW flushed \in Nat
  PROVE  IsFiniteSet(Late(flushed, lines)) /\ Cardinality(Late(flushed, lines)) \in Nat
<1>1. PICK n \in Nat : n = Len(lines) /\ DOMAIN lines = 1 .. n
  OBVIOUS
<1>2. IsFiniteSet(1 .. n)
  BY FS_Interval
<1>3. Late(flushed, lines) \in SUBSET (1 .. n)
  BY <1>1 DEF Late
<1>4. IsFiniteSet(Late(flushed, lines))
  BY <1>2, <1>3, FS_Subset
<1> QED BY <1>4, FS_CardinalityType

(* No line is foreign while the period of the name lasts.                    *)
LEMMA NothingForeign ==
  ASSUME NEW lines \in Seq(LineSet), NEW name \in Nat, NEW to \in Nat, name <= to,
         Within(lines, name, to), StartOfPeriod(name) = StartOfPeriod(to)
  PROVE  Cardinality(Foreign(name, lines)) = 0
<1>1. \A i \in DOMAIN lines : lines[i].time \in Nat
  <2>1. \A i \in DOMAIN lines : lines[i] \in LineSet
    BY ElementOfSeq
  <2> QED BY <2>1 DEF LineSet
<1>2. ASSUME NEW i \in DOMAIN lines
      PROVE  StartOfPeriod(lines[i].time) = StartOfPeriod(name)
  <2>1. PICK m \in Nat : m = lines[i].time
    BY <1>1
  <2>2. name <= m /\ m <= to
    BY <2>1 DEF Within
  <2> QED BY <2>1, <2>2, PeriodBetween
<1>3. Foreign(name, lines) = {}
  BY <1>2 DEF Foreign
<1> QED BY <1>3, FS_EmptySet

(* A line of a time between two keeps all lines between them.                *)
LEMMA WithinAppend ==
  ASSUME NEW lines \in Seq(LineSet), NEW l \in LineSet, NEW from, NEW to,
         Within(lines, from, to), from <= l.time, l.time <= to
  PROVE  Within(Append(lines, l), from, to)
BY DEF Within

(* Time may go on.                                                           *)
LEMMA WithinLater ==
  ASSUME NEW lines \in Seq(LineSet), NEW from \in Nat, NEW to \in Nat, NEW t \in Nat,
         Within(lines, from, to), to <= t
  PROVE  Within(lines, from, t)
<1>1. ASSUME NEW i \in DOMAIN lines PROVE from <= lines[i].time /\ lines[i].time <= t
  <2>1. lines[i] \in LineSet
    BY ElementOfSeq
  <2>2. PICK m \in Nat : m = lines[i].time
    BY <2>1 DEF LineSet
  <2>3. from <= m /\ m <= to
    BY <2>2 DEF Within
  <2> QED BY <2>2, <2>3
<1> QED BY <1>1 DEF Within

-----------------------------------------------------------------------------
(* Files.                                                                    *)

(* A flush moves lines to the disk and changes nothing of the log.           *)
LEMMA FlushedFacts ==
  ASSUME NEW f \in FileSet
  PROVE  /\ Flushed(f) \in FileSet /\ Flushed(f).name = f.name
         /\ Flushed(f).buf = <<>> /\ Content(Flushed(f)) = Content(f)
         /\ Content(f) \in Seq(LineSet)
<1>1. PICK d \in Seq(LineSet), b \in Seq(LineSet) : d = f.disk /\ b = f.buf
  BY DEF FileSet
<1>2. d \o b \in Seq(LineSet) /\ (d \o b) \o <<>> = d \o b
  OBVIOUS
<1>3. PICK c \in Seq(LineSet) : c = d \o b
  BY <1>2
<1>4. Flushed(f) = [f EXCEPT !.disk = c, !.buf = <<>>]
  BY <1>1, <1>3 DEF Flushed
<1>5. <<>> \in Seq(LineSet)
  OBVIOUS
<1>6. /\ Flushed(f) \in FileSet /\ Flushed(f).name = f.name
      /\ Flushed(f).buf = <<>> /\ Flushed(f).disk = c
  BY <1>3, <1>4, <1>5, Zenon DEF FileSet
<1> QED BY <1>1, <1>2, <1>3, <1>6 DEF Content

(* A write appends the line to the log, whether or not stdio's buffer has    *)
(* room.                                                                     *)
LEMMA WrittenFacts ==
  ASSUME NEW f \in FileSet, NEW l \in LineSet
  PROVE  /\ Written(f, l) \in FileSet /\ Written(f, l).name = f.name
         /\ Content(Written(f, l)) = Append(Content(f), l)
         /\ Written(f, l).buf = Append(f.buf, l) \/ Written(f, l).buf = <<l>>
<1>1. PICK d \in Seq(LineSet), b \in Seq(LineSet) : d = f.disk /\ b = f.buf
  BY DEF FileSet
<1>2. /\ d \o Append(b, l) = Append(d \o b, l)
      /\ (d \o b) \o <<l>> = Append(d \o b, l)
  OBVIOUS
<1>5. Append(b, l) \in Seq(LineSet) /\ d \o b \in Seq(LineSet) /\ <<l>> \in Seq(LineSet)
  BY <1>1
<1>3. CASE Bytes(Append(f.buf, l)) <= BufferSize
  <2>1. PICK c \in Seq(LineSet) : c = Append(b, l)
    BY <1>5, Zenon
  <2>2. Written(f, l) = [f EXCEPT !.buf = c]
    BY <1>1, <1>3, <2>1 DEF Written
  <2>3. /\ Written(f, l) \in FileSet /\ Written(f, l).name = f.name
        /\ Written(f, l).buf = c /\ Written(f, l).disk = f.disk
    BY <2>1, <2>2, Zenon DEF FileSet
  <2> QED BY <1>1, <1>2, <2>1, <2>3 DEF Content
<1>4. CASE ~(Bytes(Append(f.buf, l)) <= BufferSize)
  <2>1. PICK c \in Seq(LineSet), e \in Seq(LineSet) : c = d \o b /\ e = <<l>>
    BY <1>5, Zenon
  <2>2. Written(f, l) = [[f EXCEPT !.disk = c, !.buf = <<>>] EXCEPT !.buf = e]
    BY <1>1, <1>4, <2>1 DEF Written, Flushed
  <2>3. /\ Written(f, l) \in FileSet /\ Written(f, l).name = f.name
        /\ Written(f, l).buf = e /\ Written(f, l).disk = c
    BY <2>1, <2>2, Zenon DEF FileSet
  <2> QED BY <1>1, <1>2, <2>1, <2>3 DEF Content
<1> QED BY <1>3, <1>4

-----------------------------------------------------------------------------
(* One file and its lines.                                                   *)

(* One more line, while a roll is not yet overdue, keeps a file rolled in    *)
(* time.                                                                     *)
LEMMA RolledAppend ==
  ASSUME NEW lines \in Seq(LineSet), NEW l \in LineSet, NEW name \in Nat,
         Rolled(name, lines), Cardinality(Foreign(name, lines)) <= kCheckTimeRoll_ + 1,
         lines # <<>> /\ Bytes(lines) > rollSize_ => lines[Len(lines)].time = name
  PROVE  Rolled(name, Append(lines, l))
<1> DEFINE r == Append(lines, l)
           n == Len(lines)
<1>1. n \in Nat /\ Len(r) = n + 1 /\ \A i \in 1 .. n : r[i] = lines[i]
  OBVIOUS
<1>2. ASSUME NEW i \in 2 .. n PROVE SubSeq(r, 1, i - 1) = SubSeq(lines, 1, i - 1)
  OBVIOUS
<1>3. SubSeq(r, 1, n) = lines
  OBVIOUS
<1>4. n >= 1 => lines # <<>>
  OBVIOUS
<1> HIDE DEF r
<1>5. ASSUME NEW i \in 2 .. Len(r), Bytes(SubSeq(r, 1, i - 1)) > rollSize_
      PROVE  r[i - 1].time = name
  <2>1. CASE i <= n
    <3>1. i \in 2 .. n /\ i - 1 \in 1 .. n
      BY <1>1, <2>1
    <3>2. Bytes(SubSeq(lines, 1, i - 1)) > rollSize_
      BY <1>2, <1>5, <3>1
    <3>3. lines[i - 1].time = name
      BY <3>1, <3>2 DEF Rolled
    <3> QED BY <1>1, <3>1, <3>3
  <2>2. CASE i = n + 1
    <3>1. i - 1 = n /\ n >= 1
      BY <1>1, <2>2
    <3>2. Bytes(lines) > rollSize_
      BY <1>3, <1>5, <3>1
    <3>3. lines[n].time = name
      BY <1>4, <3>1, <3>2
    <3> QED BY <1>1, <3>1, <3>3
  <2> QED BY <1>1, <2>1, <2>2
<1>6. Cardinality(Foreign(name, r)) <= kCheckTimeRoll_ + 2
  <2>1. kCheckTimeRoll_ \in Nat
    BY LogFileAssumption
  <2>2. PICK a \in Nat, b \in Nat :
          a = Cardinality(Foreign(name, lines)) /\ b = Cardinality(Foreign(name, r)) /\ b <= a + 1
    BY LinesAppend DEF r
  <2> QED BY <2>1, <2>2
<1> QED BY <1>5, <1>6 DEF Rolled, r

(* A line is appended now: it is counted, or there was nothing to count.     *)
LEMMA CountedAppend ==
  ASSUME NEW lines \in Seq(LineSet), NEW l \in LineSet, NEW name \in Nat, NEW flushed \in Nat,
         NEW t \in Nat, NEW count \in Nat, l.time = t, name <= t, flushed <= t,
         Within(lines, name, t), Counted(name, flushed, lines, count),
         ~(Bytes(Append(lines, l)) > rollSize_)
  PROVE  /\ Counted(name, flushed, Append(lines, l), count + 1)
         /\ StartOfPeriod(name) = StartOfPeriod(t) =>
              /\ t - flushed <= flushInterval_ => Counted(name, flushed, Append(lines, l), 0)
              /\ Counted(name, t, Append(lines, l), 0)
<1> DEFINE r == Append(lines, l)
<1>1. r \in Seq(LineSet)
  OBVIOUS
<1>2. Within(r, name, t)
  BY WithinAppend
<1>3. ~(Bytes(r) > rollSize_)
  OBVIOUS
<1>4. Counted(name, flushed, r, count + 1)
  <2>1. PICK a \in Nat, b \in Nat :
          a = Cardinality(Foreign(name, lines)) /\ b = Cardinality(Foreign(name, r)) /\ b <= a + 1
    BY LinesAppend
  <2>2. PICK c \in Nat, d \in Nat :
          c = Cardinality(Late(flushed, lines)) /\ d = Cardinality(Late(flushed, r)) /\ d <= c + 1
    BY LinesAppend
  <2> HIDE DEF r
  <2>3. a <= count /\ c <= count
    BY <2>1, <2>2 DEF Counted
  <2>4. b <= count + 1 /\ d <= count + 1
    BY <2>1, <2>2, <2>3
  <2> QED BY <1>3, <2>1, <2>2, <2>4 DEF Counted
<1> HIDE DEF r
<1>5. ASSUME StartOfPeriod(name) = StartOfPeriod(t)
      PROVE  /\ t - flushed <= flushInterval_ => Counted(name, flushed, r, 0)
             /\ Counted(name, t, r, 0)
  <2>1. Cardinality(Foreign(name, r)) = 0
    BY <1>1, <1>2, <1>5, NothingForeign
  <2>2. t - flushed <= flushInterval_ => Cardinality(Late(flushed, r)) = 0
    BY <1>1, <1>2, NothingLate
  <2>3. t - t <= flushInterval_
    BY LogFileAssumption
  <2>4. Cardinality(Late(t, r)) = 0
    BY <1>1, <1>2, <2>3, NothingLate
  <2> QED BY <1>3, <2>1, <2>2, <2>4 DEF Counted
<1> QED BY <1>4, <1>5 DEF r

(* In the second in which the file was opened there is nothing to count.     *)
LEMMA CountedAtOnce ==
  ASSUME NEW lines \in Seq(LineSet), NEW name \in Nat, NEW count \in Nat,
         Within(lines, name, name)
  PROVE  Counted(name, name, lines, count)
<1>1. Cardinality(Foreign(name, lines)) = 0
  BY NothingForeign
<1>2. name - name <= flushInterval_
  BY LogFileAssumption
<1>3. Cardinality(Late(name, lines)) = 0
  BY <1>2, NothingLate
<1>4. lines # <<>> => lines[Len(lines)].time = name
  <2> SUFFICES ASSUME lines # <<>> PROVE lines[Len(lines)].time = name
    OBVIOUS
  <2>1. Len(lines) \in DOMAIN lines /\ lines[Len(lines)] \in LineSet
    OBVIOUS
  <2>2. PICK m \in Nat : m = lines[Len(lines)].time
    BY <2>1 DEF LineSet
  <2>3. name <= m /\ m <= name
    BY <2>1, <2>2 DEF Within
  <2> QED BY <2>2, <2>3
<1> QED BY <1>1, <1>3, <1>4 DEF Counted

(* A file just opened has nothing that is due.                               *)
LEMMA EmptyFacts ==
  ASSUME NEW name \in Nat, NEW from \in Nat, NEW to \in Nat, NEW count \in Nat
  PROVE  /\ File(name) \in FileSet /\ File(name).name = name /\ File(name).buf = <<>>
         /\ Content(File(name)) = <<>>
         /\ Within(<<>>, from, to)
         /\ Rolled(name, <<>>)
         /\ Counted(name, name, <<>>, count)
<1>1. <<>> \in Seq(LineSet) /\ <<>> \o <<>> = <<>>
  OBVIOUS
<1>2. /\ File(name) \in FileSet /\ File(name).name = name /\ File(name).buf = <<>>
      /\ Content(File(name)) = <<>>
  BY <1>1 DEF File, FileSet, Content
<1>3. \A a, b \in Nat : Within(<<>>, a, b)
  BY DEF Within
<1>4. Counted(name, name, <<>>, count)
  BY <1>1, <1>3, CountedAtOnce
<1>5. Rolled(name, <<>>)
  <2>0. Foreign(name, <<>>) = {}
    BY DEF Foreign
  <2>1. Cardinality(Foreign(name, <<>>)) = 0
    BY <2>0, FS_EmptySet
  <2>2. 2 .. Len(<<>>) = {}
    OBVIOUS
  <2>3. kCheckTimeRoll_ \in Nat
    BY LogFileAssumption
  <2>4. 0 <= kCheckTimeRoll_ + 2
    BY <2>3
  <2> QED BY <2>1, <2>2, <2>4 DEF Rolled
<1> QED BY <1>2, <1>3, <1>4, <1>5

-----------------------------------------------------------------------------
(* The files.                                                                *)

(* The file that is written to is one of the files.                          *)
LEMMA LastFacts ==
  ASSUME NEW fs \in Seq(FileSet), fs # <<>>
  PROVE  /\ Len(fs) \in Nat \ {0} /\ DOMAIN fs = 1 .. Len(fs) /\ Len(fs) \in DOMAIN fs
         /\ Last(fs) = fs[Len(fs)] /\ Last(fs) \in FileSet
BY DEF Last

(* The last file is replaced by one of the same name.                        *)
LEMMA ReplaceFacts ==
  ASSUME NEW fs \in Seq(FileSet), fs # <<>>, NEW g \in FileSet,
         NEW r, r = [fs EXCEPT ![Len(fs)] = g]
  PROVE  /\ r \in Seq(FileSet) /\ r # <<>> /\ Len(r) = Len(fs)
         /\ DOMAIN r = 1 .. Len(fs)
         /\ Last(r) = g /\ r[Len(fs)] = g
         /\ \A i \in 1 .. Len(fs) : i # Len(fs) => r[i] = fs[i]
<1>1. PICK n \in Nat \ {0} : n = Len(fs)
  BY LastFacts
<1>2. n \in DOMAIN fs /\ DOMAIN fs = 1 .. n
  BY <1>1, LastFacts
<1>3. r = [fs EXCEPT ![n] = g]
  BY <1>1
<1>4. r[n] = g /\ DOMAIN r = 1 .. n /\ \A i \in 1 .. n : i # n => r[i] = fs[i]
  BY <1>2, <1>3
<1>5. r \in Seq(FileSet) /\ Len(r) = n
  BY <1>1, <1>2, <1>3
<1>6. r # <<>> /\ Last(r) = g
  BY <1>4, <1>5 DEF Last
<1> QED BY <1>1, <1>4, <1>5, <1>6

(* The names and the buffers of the files before the last one stay.          *)
LEMMA ReplaceNames ==
  ASSUME Types, Names, NEW g \in FileSet, g.name = Last(files).name,
         files' = [files EXCEPT ![Len(files)] = g], UNCHANGED <<lastRoll_, startOfPeriod_>>
  PROVE  Names' /\ files' \in Seq(FileSet) /\ files' # <<>> /\ Last(files') = g
<1>1. PICK fs \in Seq(FileSet) : fs = files /\ fs # <<>>
  BY DEF Types
<1>2. PICK n \in Nat \ {0} : n = Len(fs) /\ DOMAIN fs = 1 .. n /\ Last(fs) = fs[n]
  BY <1>1, LastFacts
<1>3. /\ files' \in Seq(FileSet) /\ files' # <<>> /\ Len(files') = n
      /\ DOMAIN fs = 1 .. n /\ DOMAIN files' = 1 .. n
      /\ files'[n] = g /\ \A i \in 1 .. n : i # n => files'[i] = fs[i]
      /\ Last(files') = g /\ Last(fs) = fs[n]
  <2>1. PICK r : r = files' /\ r = [fs EXCEPT ![Len(fs)] = g]
    BY <1>1
  <2>2. DOMAIN r = 1 .. n /\ r[n] = g /\ \A i \in 1 .. n : i # n => r[i] = fs[i]
    BY <1>1, <1>2, <2>1, ReplaceFacts
  <2>3. r \in Seq(FileSet)
    BY <1>1, <2>1, ReplaceFacts
  <2>4. r # <<>> /\ Len(r) = n
    BY <1>2, <2>2, <2>3
  <2>5. Last(r) = g
    BY <2>2, <2>4 DEF Last
  <2> QED BY <1>2, <2>1, <2>2, <2>5, <2>3, <2>4, Zenon
<1>4. \A i \in 1 .. n : files'[i].name = fs[i].name
  BY <1>1, <1>3
<1>5. (\A i, j \in DOMAIN files : i < j => files[i].name < files[j].name)'
  BY <1>1, <1>3, <1>4 DEF Names
<1>6. (\A i \in DOMAIN files : i < Len(files) => files[i].buf = <<>>)'
  BY <1>1, <1>2, <1>3 DEF Names
<1>7. (lastRoll_ = Last(files).name /\ startOfPeriod_ = StartOfPeriod(lastRoll_))'
  BY <1>1, <1>3 DEF Names
<1> QED BY <1>3, <1>5, <1>6, <1>7 DEF Names

(* The other files are still rolled in time.                                 *)
LEMMA ReplaceRolled ==
  ASSUME Types, Timely, NEW g \in FileSet, Rolled(g.name, Content(g)),
         files' = [files EXCEPT ![Len(files)] = g]
  PROVE  (\A n \in DOMAIN files : Rolled(files[n].name, Content(files[n])))'
<1>1. PICK fs \in Seq(FileSet) : fs = files /\ fs # <<>>
  BY DEF Types
<1>2. PICK n \in Nat \ {0} : n = Len(fs) /\ DOMAIN fs = 1 .. n
  BY <1>1, LastFacts
<1>3. /\ DOMAIN fs = 1 .. n /\ DOMAIN files' = 1 .. n
      /\ files'[n] = g /\ \A i \in 1 .. n : i # n => files'[i] = fs[i]
  <2>1. PICK r : r = files' /\ r = [fs EXCEPT ![Len(fs)] = g]
    BY <1>1
  <2> QED BY <1>1, <1>2, <2>1, ReplaceFacts
<1>4. \A i \in 1 .. n : Rolled(fs[i].name, Content(fs[i]))
  BY <1>1, <1>3 DEF Timely
<1>5. \A i \in 1 .. n : Rolled(files'[i].name, Content(files'[i]))
  BY <1>3, <1>4
<1> QED BY <1>3, <1>5

-----------------------------------------------------------------------------
(* Every step keeps the invariant.                                           *)

(* The first file, opened by the constructor (LogFile.cc:69-82).             *)
LEMMA InitHolds == Init => IInv
<1> SUFFICES ASSUME Init PROVE IInv
  OBVIOUS
<1> USE DEF Init, FileInit
<1>1. File(1) \in FileSet /\ files = <<File(1)>>
  BY EmptyFacts
<1>2. /\ files \in Seq(FileSet) /\ files # <<>> /\ Len(files) = 1 /\ DOMAIN files = {1}
      /\ files[1] = File(1) /\ Last(files) = File(1)
  BY <1>1 DEF Last
<1>3. Types
  <2>1. kCheckTimeRoll_ \in Nat
    BY LogFileAssumption
  <2>2. count_ \in 0 .. kCheckTimeRoll_ + 1
    BY <2>1
  <2> QED BY <1>2, <2>2 DEF Types
<1>4. Names
  BY <1>2, EmptyFacts DEF Names
<1>5. Timely
  BY <1>2, EmptyFacts DEF Timely
<1> QED BY <1>3, <1>4, <1>5 DEF IInv

(* The clock ticks.                                                          *)
LEMMA TickKeeps ==
  ASSUME IInv, Tick
  PROVE  IInv'
<1>1. Types'
  BY DEF IInv, Types, Tick, period
<1>2. Names'
  BY DEF IInv, Names, Tick, period
<1>3. ASSUME setBacks' = 0 PROVE Timely'
  <2>1. Timely /\ Types
    BY <1>3 DEF IInv, Tick
  <2>2. PICK f \in FileSet : f = Last(files)
    <3>1. PICK fs \in Seq(FileSet) : fs = files /\ fs # <<>>
      BY <2>1 DEF Types
    <3> QED BY <3>1, LastFacts
  <2>3. Content(f) \in Seq(LineSet) /\ f.buf \in Seq(LineSet)
    BY FlushedFacts DEF FileSet
  <2>4. now \in Nat /\ now' \in Nat /\ now <= now' /\ lastRoll_ \in Nat /\ lastFlush_ \in Nat
    BY <2>1 DEF Types, Tick
  <2>5. Within(Content(f), lastRoll_, now') /\ Within(f.buf, lastFlush_, now')
    BY <2>1, <2>2, <2>3, <2>4, WithinLater DEF Timely
  <2>6. lastRoll_ <= lastFlush_ /\ lastFlush_ <= now'
    BY <2>1, <2>4 DEF Timely
  <2> QED BY <2>1, <2>2, <2>5, <2>6 DEF Timely, Tick, period
<1> QED BY <1>1, <1>2, <1>3 DEF IInv

(* The clock is set back: nothing is claimed of the times from then on.      *)
LEMMA SetBackKeeps ==
  ASSUME IInv, SetBack
  PROVE  IInv'
<1>1. Types'
  <2>1. now' \in Nat /\ setBacks' \in Nat
    BY DEF IInv, Types, SetBack
  <2> QED BY <2>1 DEF IInv, Types, SetBack, period
<1>2. Names'
  BY DEF IInv, Names, SetBack, period
<1>3. setBacks' # 0
  BY DEF IInv, Types, SetBack
<1> QED BY <1>1, <1>2, <1>3 DEF IInv

(* LogFile::flush, of a FATAL statement (LogFile.cc:91-98).                  *)
LEMMA FlushKeeps ==
  ASSUME IInv, flush
  PROVE  IInv'
<1> USE DEF clock, period
<1>0. Types /\ Names
  BY DEF IInv
<1>1. PICK fs \in Seq(FileSet) : fs = files /\ fs # <<>>
  BY <1>0 DEF Types
<1>2. PICK f \in FileSet : f = Last(files) /\ f = files[Len(files)]
  BY <1>1, LastFacts
<1>3. PICK g \in FileSet : g = Flushed(f)
  BY FlushedFacts
<1>4. g.name = f.name /\ g.buf = <<>> /\ Content(g) = Content(f)
  BY <1>3, FlushedFacts
<1>5. files' = [files EXCEPT ![Len(files)] = g]
  BY <1>2, <1>3 DEF flush
<1>6. /\ now' = now /\ setBacks' = setBacks /\ lastRoll_' = lastRoll_ /\ lastFlush_' = lastFlush_
      /\ startOfPeriod_' = startOfPeriod_ /\ count_' = count_ /\ rolling' = rolling
  BY DEF flush
<1>7. Names' /\ files' \in Seq(FileSet) /\ files' # <<>> /\ Last(files') = g
  BY <1>0, <1>2, <1>4, <1>5, <1>6, ReplaceNames
<1>8. Types'
  BY <1>0, <1>6, <1>7 DEF Types
<1>9. ASSUME setBacks' = 0 PROVE Timely'
  <2>1. Timely
    BY <1>6, <1>9 DEF IInv
  <2>2. Rolled(f.name, Content(f))
    BY <1>1, <1>2, <2>1, LastFacts DEF Timely
  <2>3. (\A n \in DOMAIN files : Rolled(files[n].name, Content(files[n])))'
    BY <1>0, <1>4, <1>5, <2>1, <2>2, ReplaceRolled
  <2>4. Within(g.buf, lastFlush_, now)
    BY <1>0, <1>4, EmptyFacts DEF Types
  <2> QED BY <1>2, <1>4, <1>6, <1>7, <2>1, <2>3, <2>4 DEF Timely
<1> QED BY <1>7, <1>8, <1>9 DEF IInv

(* append_unlocked (LogFile.cc:100-120), up to where it may call rollFile.   *)
LEMMA AppendKeeps ==
  ASSUME IInv, NEW t \in Threads, NEW len \in Lens, AppendLine(t, len)
  PROVE  IInv'
<1> USE DEF clock
<1>0. Types /\ Names /\ rolling = "none"
  BY DEF IInv, AppendLine
<1>1. PICK fs \in Seq(FileSet) : fs = files /\ fs # <<>>
  BY <1>0 DEF Types
<1>2. PICK f \in FileSet : f = Last(files)
  BY <1>1, LastFacts
<1>3. PICK l \in LineSet : l = Line(len) /\ l.time = now
  <2>1. now \in Nat
    BY <1>0 DEF Types
  <2>2. Line(len) \in LineSet /\ Line(len).time = now
    BY <2>1 DEF Line, LineSet
  <2> QED BY <2>2
<1>4. PICK w \in FileSet : w = Written(f, l)
  BY WrittenFacts
<1>5. /\ w.name = f.name /\ Content(w) = Append(Content(f), l)
      /\ w.buf = Append(f.buf, l) \/ w.buf = <<l>>
  BY <1>4, WrittenFacts
<1> DEFINE long == TooLong(w)
           roll == long \/ (CheckTime /\ NewPeriod)
           flushes == ~roll /\ CheckTime /\ FlushDue
<1>6. PICK g \in FileSet : g = IF flushes THEN Flushed(w) ELSE w
  BY FlushedFacts
<1>7. /\ g.name = f.name /\ Content(g) = Append(Content(f), l)
      /\ flushes => g.buf = <<>>
      /\ ~flushes => g.buf = w.buf
  BY <1>5, <1>6, FlushedFacts
<1>8. /\ files' = [files EXCEPT ![Len(files)] = g]
      /\ lastFlush_' = IF flushes THEN now ELSE lastFlush_
      /\ count_' = IF long THEN count_ ELSE IF CheckTime THEN 0 ELSE count_ + 1
      /\ rolling' = IF roll THEN t ELSE "none"
  BY <1>2, <1>3, <1>4, <1>6 DEF AppendLine, append_unlocked
<1>9. /\ now' = now /\ setBacks' = setBacks /\ lastRoll_' = lastRoll_
      /\ startOfPeriod_' = startOfPeriod_
  BY DEF AppendLine
<1> HIDE DEF long, roll, flushes
<1>10. Names' /\ files' \in Seq(FileSet) /\ files' # <<>> /\ Last(files') = g
  BY <1>0, <1>2, <1>7, <1>8, <1>9, ReplaceNames
<1>11. count_ \in Nat /\ count_ <= kCheckTimeRoll_ + 1 /\ kCheckTimeRoll_ \in Nat
  BY <1>0, LogFileAssumption DEF Types
<1>12. Types'
  <2>1. count_' \in 0 .. kCheckTimeRoll_ + 1
    BY <1>8, <1>11 DEF CheckTime
  <2>2. lastFlush_' \in Nat /\ rolling' \in Threads \cup {"none"}
    BY <1>0, <1>8 DEF Types
  <2> QED BY <1>0, <1>9, <1>10, <2>1, <2>2 DEF Types
<1>13. ASSUME setBacks' = 0 PROVE Timely'
  <2>1. Timely
    BY <1>9, <1>13 DEF IInv
  <2>2. PICK lines \in Seq(LineSet) : lines = Content(f)
    BY FlushedFacts
  <2>3. PICK name \in Nat, fl \in Nat, time \in Nat, count \in Nat :
          name = lastRoll_ /\ fl = lastFlush_ /\ time = now /\ count = count_
    BY <1>0, <1>11 DEF Types
  <2>4. name = f.name /\ name <= fl /\ fl <= time /\ name <= time
    BY <1>0, <1>2, <2>1, <2>3 DEF Names, Timely
  <2>5. Within(lines, name, time) /\ Counted(name, fl, lines, count)
    BY <1>0, <1>2, <2>1, <2>2, <2>3 DEF Timely
  <2>6. Rolled(name, lines)
    BY <1>1, <1>2, <2>1, <2>2, <2>4, LastFacts DEF Timely
  <2>7. Rolled(name, Append(lines, l))
    <3>1. PICK a \in Nat : a = Cardinality(Foreign(name, lines))
      BY LinesAppend
    <3>2. a <= count
      BY <2>5, <3>1 DEF Counted
    <3>3. a <= kCheckTimeRoll_ + 1
      BY <1>11, <2>3, <3>2
    <3> QED BY <2>5, <2>6, <3>1, <3>3, RolledAppend DEF Counted
  <2>8. (\A n \in DOMAIN files : Rolled(files[n].name, Content(files[n])))'
    BY <1>0, <1>7, <1>8, <2>1, <2>2, <2>4, <2>7, ReplaceRolled
  <2>9. Within(Append(lines, l), name, time)
    BY <1>3, <2>3, <2>4, <2>5, WithinAppend
  <2>10. Within(g.buf, lastFlush_', now)
    <3>1. PICK b \in Seq(LineSet) : b = f.buf /\ Within(b, fl, time)
      BY <1>2, <2>1, <2>3 DEF FileSet, Timely
    <3>2. Within(Append(b, l), fl, time)
      BY <1>3, <2>3, <2>4, <3>1, WithinAppend
    <3>3. Within(<<l>>, fl, time)
      BY <1>3, <2>3, <2>4 DEF Within
    <3>4. Within(<<>>, time, time)
      BY EmptyFacts
    <3>5. CASE flushes
      BY <1>7, <1>8, <2>3, <3>4, <3>5
    <3>6. CASE ~flushes
      BY <1>5, <1>7, <1>8, <2>3, <3>1, <3>2, <3>3, <3>6
    <3> QED BY <3>5, <3>6
  <2>11. ASSUME rolling' = "none" PROVE Counted(name, lastFlush_', Append(lines, l), count_')
    <3>1. ~roll
      BY <1>8, <2>11, LogFileAssumption
    <3>2. ~long /\ (CheckTime => ~NewPeriod)
      BY <3>1 DEF roll
    <3>3. ~(Bytes(Append(lines, l)) > rollSize_)
      BY <1>5, <2>2, <3>2 DEF long, TooLong, writtenBytes
    <3>4. /\ Counted(name, fl, Append(lines, l), count + 1)
          /\ StartOfPeriod(name) = StartOfPeriod(time) =>
               /\ time - fl <= flushInterval_ => Counted(name, fl, Append(lines, l), 0)
               /\ Counted(name, time, Append(lines, l), 0)
      BY <1>3, <2>3, <2>4, <2>5, <3>3, CountedAppend
    <3>5. CASE ~CheckTime
      <4>1. ~flushes
        BY <3>5 DEF flushes
      <4> QED BY <1>8, <2>3, <3>2, <3>4, <3>5, <4>1
    <3>6. CASE CheckTime
      <4>1. StartOfPeriod(name) = StartOfPeriod(time) /\ count_' = 0
        BY <1>0, <1>8, <2>3, <3>2, <3>6 DEF NewPeriod, Names
      <4>2. CASE flushes
        BY <1>8, <2>3, <3>4, <4>1, <4>2
      <4>3. CASE ~flushes
        <5>1. ~FlushDue
          BY <3>1, <3>6, <4>3 DEF flushes
        <5>2. time - fl <= flushInterval_
          <6>1. flushInterval_ \in Nat
            BY LogFileAssumption
          <6>2. ~(time - fl > flushInterval_)
            BY <2>3, <5>1 DEF FlushDue
          <6> QED BY <6>1, <6>2
        <5> QED BY <1>8, <2>3, <3>4, <4>1, <4>3, <5>2
      <4> QED BY <4>2, <4>3
    <3> QED BY <3>5, <3>6
  <2>12. lastRoll_ <= lastFlush_' /\ lastFlush_' <= now
    BY <1>8, <2>3, <2>4
  <2> QED BY <1>7, <1>9, <1>10, <2>2, <2>3, <2>8, <2>9, <2>10, <2>11, <2>12 DEF Timely
<1> QED BY <1>10, <1>12, <1>13 DEF IInv

(* rollFile (LogFile.cc:122-133), whether or not it opens a file.            *)
LEMMA RollKeeps ==
  ASSUME IInv, NEW t \in Threads, rollFile(t)
  PROVE  IInv'
<1> USE DEF clock, period
<1>0. Types /\ Names
  BY DEF IInv
<1>1. PICK fs \in Seq(FileSet) : fs = files /\ fs # <<>>
  BY <1>0 DEF Types
<1>2. PICK n \in Nat \ {0}, f \in FileSet :
        n = Len(fs) /\ f = fs[n] /\ f = Last(fs) /\ DOMAIN fs = 1 .. n
  BY <1>1, LastFacts
<1>3. PICK name \in Nat, fl \in Nat, time \in Nat, count \in Nat :
        name = lastRoll_ /\ fl = lastFlush_ /\ time = now /\ count = count_
  BY <1>0 DEF Types
<1>4. now' = now /\ setBacks' = setBacks /\ count_' = count_ /\ rolling' = "none"
  BY DEF rollFile
<1>5. CASE MayRoll
  <2>1. PICK g \in FileSet : g = Flushed(f)
    BY FlushedFacts
  <2>2. g.name = f.name /\ g.buf = <<>> /\ Content(g) = Content(f)
    BY <2>1, FlushedFacts
  <2>3. PICK h \in FileSet : h = File(time)
    BY EmptyFacts
  <2>4. h.name = time /\ h.buf = <<>> /\ Content(h) = <<>>
    BY <2>3, EmptyFacts
  <2>5. PICK r : r = [fs EXCEPT ![Len(fs)] = g]
    OBVIOUS
  <2>6. /\ r \in Seq(FileSet) /\ DOMAIN r = 1 .. n /\ r[n] = g /\ Len(r) = n
        /\ \A i \in 1 .. n : i # n => r[i] = fs[i]
    BY <1>1, <1>2, <2>5, ReplaceFacts
  <2>7. PICK q : q = Append(r, h)
    OBVIOUS
  <2>8. /\ q \in Seq(FileSet) /\ Len(q) = n + 1 /\ DOMAIN q = 1 .. n + 1 /\ q[n + 1] = h
        /\ q # <<>> /\ \A i \in 1 .. n : q[i] = r[i]
    BY <2>6, <2>7
  <2>9. Last(q) = h
    BY <2>8 DEF Last
  <2>10. /\ files' = q /\ lastRoll_' = time /\ lastFlush_' = time
         /\ startOfPeriod_' = StartOfPeriod(time)
    BY <1>1, <1>2, <1>3, <1>5, <2>1, <2>3, <2>5, <2>7 DEF rollFile
  <2>11. Types'
    BY <1>0, <1>4, <2>8, <2>10 DEF Types
  <2>12. Names'
    <3>1. name < time /\ name = f.name
      BY <1>0, <1>1, <1>2, <1>3, <1>5 DEF MayRoll, Names
    <3>2. \A i \in 1 .. n : q[i].name = fs[i].name /\ fs[i].name \in Nat
      <4>1. \A i \in 1 .. n : fs[i] \in FileSet
        BY <1>2, ElementOfSeq
      <4>2. \A i \in 1 .. n : fs[i].name \in Nat
        BY <4>1 DEF FileSet
      <4> QED BY <1>2, <2>2, <2>6, <2>8, <4>2
    <3>3. \A i, j \in 1 .. n : i < j => fs[i].name < fs[j].name
      BY <1>0, <1>1, <1>2 DEF Names
    <3>4. \A i \in 1 .. n : fs[i].name <= name
      <4> SUFFICES ASSUME NEW i \in 1 .. n PROVE fs[i].name <= name
        OBVIOUS
      <4>1. PICK a \in Nat : a = fs[i].name
        BY <3>2
      <4>2. CASE i = n
        <5>1. a = name
          BY <1>2, <3>1, <4>1, <4>2
        <5> QED BY <4>1, <5>1
      <4>3. CASE i < n
        <5>1. fs[i].name < fs[n].name
          BY <3>3, <4>3
        <5>2. a < name
          BY <1>2, <3>1, <4>1, <5>1
        <5> QED BY <4>1, <5>2
      <4> QED BY <4>2, <4>3
    <3>5. ASSUME NEW i \in 1 .. n + 1, NEW j \in 1 .. n + 1, i < j
          PROVE  q[i].name < q[j].name
      <4>1. i \in 1 .. n
        BY <3>5
      <4>2. CASE j \in 1 .. n
        BY <3>2, <3>3, <3>5, <4>1, <4>2
      <4>3. CASE j = n + 1
        BY <2>4, <2>8, <3>1, <3>2, <3>4, <4>1, <4>3
      <4> QED BY <4>2, <4>3
    <3>6. ASSUME NEW i \in 1 .. n + 1, i < n + 1 PROVE q[i].buf = <<>>
      <4>1. i \in 1 .. n /\ (i # n => i < n)
        BY <3>6
      <4>2. i # n => fs[i].buf = <<>>
        BY <1>0, <1>1, <1>2, <4>1 DEF Names
      <4> QED BY <2>2, <2>6, <2>8, <4>1, <4>2
    <3> QED BY <2>4, <2>8, <2>9, <2>10, <3>5, <3>6 DEF Names
  <2>13. ASSUME setBacks' = 0 PROVE Timely'
    <3>1. Timely
      BY <1>4, <2>13 DEF IInv
    <3>2. \A i \in 1 .. n : Rolled(fs[i].name, Content(fs[i]))
      BY <1>1, <1>2, <3>1 DEF Timely
    <3>3. Rolled(h.name, Content(h))
      BY <2>4, EmptyFacts
    <3>4. \A i \in 1 .. n : Rolled(q[i].name, Content(q[i]))
      BY <1>2, <2>2, <2>6, <2>8, <3>2
    <3>5. \A i \in 1 .. n + 1 : Rolled(q[i].name, Content(q[i]))
      <4>1. \A i \in 1 .. n + 1 : i \in 1 .. n \/ i = n + 1
        OBVIOUS
      <4> QED BY <2>8, <3>3, <3>4, <4>1
    <3>6. /\ Within(Content(h), time, time) /\ Within(h.buf, time, time)
          /\ Counted(time, time, Content(h), count)
      BY <2>4, EmptyFacts
    <3> QED BY <1>3, <1>4, <2>8, <2>9, <2>10, <3>5, <3>6 DEF Timely
  <2> QED BY <2>11, <2>12, <2>13 DEF IInv
<1>6. CASE ~MayRoll
  <2>1. /\ files' = files /\ lastRoll_' = lastRoll_ /\ lastFlush_' = lastFlush_
        /\ startOfPeriod_' = startOfPeriod_
    BY <1>6 DEF rollFile
  <2>2. Types' /\ Names'
    BY <1>0, <1>4, <2>1 DEF Types, Names
  <2>3. ASSUME setBacks' = 0 PROVE Timely'
    <3>1. Timely
      BY <1>4, <2>3 DEF IInv
    <3>2. name <= fl /\ fl <= time /\ ~(time > name)
      BY <1>3, <1>6, <3>1 DEF Timely, MayRoll
    <3>3. fl = name /\ time = name
      BY <3>2
    <3>4. Content(f) \in Seq(LineSet) /\ Within(Content(f), name, name)
      BY <1>1, <1>2, <1>3, <3>1, <3>3, FlushedFacts DEF Timely
    <3>5. Counted(name, fl, Content(f), count)
      BY <3>3, <3>4, CountedAtOnce
    <3> QED BY <1>1, <1>2, <1>3, <1>4, <2>1, <3>1, <3>5 DEF Timely
  <2> QED BY <2>2, <2>3 DEF IInv
<1> QED BY <1>5, <1>6

(* A step that changes nothing.                                              *)
LEMMA StutterKeeps == IInv /\ UNCHANGED vars => IInv'
BY DEF IInv, Types, Names, Timely, vars, fileVars, clock, period

-----------------------------------------------------------------------------
(* The theorems.                                                             *)

(* Every step keeps the inductive invariant.                                 *)
LEMMA Consecution == IInv /\ [Next]_vars => IInv'
<1> SUFFICES ASSUME IInv, [Next]_vars PROVE IInv'
  OBVIOUS
<1>1. CASE UNCHANGED vars
  BY <1>1, StutterKeeps
<1>2. ASSUME NEW t \in Threads, Log(t) PROVE IInv'
  <2>1. PICK s \in Statements : AppendLine(t, Message(s).length)
    BY <1>2 DEF Log
  <2>2. Message(s).length \in Lens
    BY DEF Lens
  <2> QED BY <2>1, <2>2, AppendKeeps
<1>3. ASSUME NEW t \in Threads, Roll(t) PROVE IInv'
  BY <1>3, RollKeeps DEF Roll
<1>4. ASSUME NEW t \in Threads, Abort(t) PROVE IInv'
  BY <1>4, FlushKeeps DEF Abort
<1>5. CASE Tick
  BY <1>5, TickKeeps
<1>6. CASE SetBack
  BY <1>6, SetBackKeeps
<1> QED BY <1>1, <1>2, <1>3, <1>4, <1>5, <1>6 DEF Next

(* The inductive invariant holds in every state of every behaviour: the file *)
(* written to is the one named lastRoll_, and count_ has counted the lines   *)
(* for which a roll or a flush is due (LogFile.cc:100-133).                  *)
THEOREM Invariance == Spec => []IInv
<1>1. IInv /\ [Next]_vars => IInv'
  BY Consecution
<1> QED BY <1>1, InitHolds, PTL DEF Spec

(* The log reads in order, for any number of threads, rolls and set backs of *)
(* the clock: the names of the files increase, and no later file has a line  *)
(* on the disk while an earlier one has lines in its buffer                  *)
(* (LogFile.cc:13-22, 122-133).                                              *)
THEOREM ReadsInOrderCorrect == Spec => []LogReadsInOrder
<1>1. IInv => LogReadsInOrder
  <2> SUFFICES ASSUME IInv, NEW i \in DOMAIN files, NEW j \in DOMAIN files, i < j
               PROVE  files[i].name < files[j].name /\ files[i].buf = <<>>
    BY DEF LogReadsInOrder
  <2>1. i < Len(files)
    <3>1. PICK fs \in Seq(FileSet) : fs = files /\ fs # <<>>
      BY DEF IInv, Types
    <3> QED BY <3>1, LastFacts
  <2> QED BY <2>1 DEF IInv, Names
<1> QED BY <1>1, Invariance, PTL

(* Files are rolled in time, for all sizes, periods and values of            *)
(* kCheckTimeRoll_: past rollSize_ a file only has lines of the second it    *)
(* was opened in, and at most kCheckTimeRoll_ + 2 lines of another period    *)
(* (LogFile.cc:100-120, 127).                                                *)
THEOREM RolledCorrect == Spec => []RolledInTime
<1>1. IInv => RolledInTime
  <2> SUFFICES ASSUME IInv, setBacks = 0, NEW n \in DOMAIN files
               PROVE  LET f == files[n]
                          lines == Content(f)
                      IN  /\ \A i \in 2 .. Len(lines) :
                               Bytes(SubSeq(lines, 1, i - 1)) > rollSize_
                                 => lines[i - 1].time = f.name
                          /\ Cardinality({i \in DOMAIN lines :
                               StartOfPeriod(lines[i].time) # StartOfPeriod(f.name)})
                                 <= kCheckTimeRoll_ + 2
    BY DEF RolledInTime
  <2>1. Rolled(files[n].name, Content(files[n]))
    BY DEF IInv, Timely
  <2> QED BY <2>1 DEF Rolled, Foreign
<1> QED BY <1>1, Invariance, PTL

(* What a crash loses is bounded, for every flush interval and every value   *)
(* of kCheckTimeRoll_: a line still in the buffer has at most                *)
(* kCheckTimeRoll_ + 1 lines after it that are more than flushInterval_      *)
(* seconds younger (LogFile.cc:103-118).                                     *)
THEOREM FlushCorrect == Spec => []FlushLag
<1>1. IInv => FlushLag
  <2> SUFFICES ASSUME IInv, setBacks = 0, rolling = "none"
               PROVE  LET lines == Content(Last(files))
                      IN  \A i \in Len(Last(files).disk) + 1 .. Len(lines) :
                            Cardinality({j \in i .. Len(lines) :
                                           lines[j].time - lines[i].time > flushInterval_})
                              <= kCheckTimeRoll_ + 1
    BY DEF FlushLag
  <2>1. Types /\ Timely
    BY DEF IInv
  <2>2. PICK f \in FileSet : f = Last(files)
    <3>1. PICK fs \in Seq(FileSet) : fs = files /\ fs # <<>>
      BY <2>1 DEF Types
    <3> QED BY <3>1, LastFacts
  <2>3. PICK d \in Seq(LineSet), b \in Seq(LineSet) : d = f.disk /\ b = f.buf
    BY DEF FileSet
  <2>4. PICK lines \in Seq(LineSet) : lines = Content(f) /\ lines = d \o b
    BY <2>3, FlushedFacts DEF Content
  <2>5. PICK fl \in Nat : fl = lastFlush_
    BY <2>1 DEF Types
  <2>6. Within(b, fl, now) /\ Cardinality(Late(fl, lines)) <= kCheckTimeRoll_ + 1
    <3>1. Within(b, fl, now) /\ Cardinality(Late(fl, lines)) <= count_
      BY <2>1, <2>2, <2>3, <2>4, <2>5 DEF Timely, Counted
    <3>2. PICK a \in Nat : a = Cardinality(Late(fl, lines))
      BY LateFinite
    <3>3. count_ \in Nat /\ count_ <= kCheckTimeRoll_ + 1 /\ kCheckTimeRoll_ \in Nat
      BY <2>1, LogFileAssumption DEF Types
    <3> QED BY <3>1, <3>2, <3>3
  <2>7. ASSUME NEW i \in Len(d) + 1 .. Len(lines)
        PROVE  Cardinality({j \in i .. Len(lines) :
                              lines[j].time - lines[i].time > flushInterval_})
                 <= kCheckTimeRoll_ + 1
    <3> DEFINE late == {j \in i .. Len(lines) : lines[j].time - lines[i].time > flushInterval_}
    <3>1. /\ Len(d) \in Nat /\ Len(lines) \in Nat /\ Len(lines) = Len(d) + Len(b)
          /\ i - Len(d) \in DOMAIN b /\ lines[i] = b[i - Len(d)]
      <4>1. PICK p \in Nat, q \in Nat :
              /\ p = Len(d) /\ q = Len(b) /\ DOMAIN b = 1 .. q
              /\ Len(d \o b) = p + q
              /\ \A k \in p + 1 .. p + q : (d \o b)[k] = b[k - p]
        OBVIOUS
      <4>2. i \in p + 1 .. p + q
        BY <2>4, <4>1
      <4>3. i - p \in 1 .. q
        BY <4>1, <4>2
      <4>4. lines[i] = b[i - p]
        BY <2>4, <4>1, <4>2
      <4> QED BY <2>4, <4>1, <4>3, <4>4
    <3>2. PICK m \in Nat : m = lines[i].time
      <4>1. lines[i] \in LineSet
        BY <2>3, <3>1, ElementOfSeq
      <4> QED BY <4>1 DEF LineSet
    <3>3. fl <= m
      BY <2>6, <3>1, <3>2 DEF Within
    <3>4. late \subseteq Late(fl, lines)
      <4> SUFFICES ASSUME NEW j \in i .. Len(lines),
                          lines[j].time - lines[i].time > flushInterval_
                   PROVE  j \in DOMAIN lines /\ lines[j].time - fl > flushInterval_
        BY DEF Late
      <4>1. j \in DOMAIN lines
        BY <3>1
      <4>2. PICK k \in Nat : k = lines[j].time
        <5>1. lines[j] \in LineSet
          BY <4>1, ElementOfSeq
        <5> QED BY <5>1 DEF LineSet
      <4>3. flushInterval_ \in Nat
        BY LogFileAssumption
      <4>4. k - fl > flushInterval_
        BY <3>2, <3>3, <4>2, <4>3
      <4> QED BY <4>1, <4>2, <4>4
    <3>5. PICK x \in Nat, y \in Nat :
            x = Cardinality(late) /\ y = Cardinality(Late(fl, lines)) /\ x <= y
      <4>1. IsFiniteSet(Late(fl, lines))
        BY LateFinite
      <4> HIDE DEF late
      <4>2. IsFiniteSet(late) /\ Cardinality(late) <= Cardinality(Late(fl, lines))
        BY <3>4, <4>1, FS_Subset
      <4> QED BY <4>1, <4>2, FS_CardinalityType
    <3> HIDE DEF late
    <3>6. kCheckTimeRoll_ \in Nat
      BY LogFileAssumption
    <3>7. Cardinality(late) <= kCheckTimeRoll_ + 1
      BY <2>6, <3>5, <3>6
    <3> QED BY <3>7 DEF late
  <2> QED BY <2>2, <2>3, <2>4, <2>7
<1> QED BY <1>1, Invariance, PTL
-----------------------------------------------------------------------------
(* The line of a FATAL statement.                                            *)

Places == [file : Nat, line : Nat]

(* The line whose place a thread remembers is in the log, and when a thread  *)
(* has aborted nothing is left in the buffer.                                *)
Placed(place, fs) ==
  place.file \in DOMAIN fs /\ place.line <= Len(Content(fs[place.file]))

FatalInv ==
  /\ fatal \in [Threads -> Places]
  /\ \A t \in Threads : Placed(fatal[t], files)
  /\ Aborted => Last(files).buf = <<>>

(* No step takes a line out of the log.                                      *)
Grows(fs, gs) ==
  \A i \in DOMAIN fs : i \in DOMAIN gs /\ Len(Content(fs[i])) <= Len(Content(gs[i]))

(* The length of a file is a number.                                         *)
LEMMA LengthFacts ==
  ASSUME NEW fs \in Seq(FileSet), NEW i \in DOMAIN fs
  PROVE  Len(Content(fs[i])) \in Nat
<1>1. fs[i] \in FileSet
  BY ElementOfSeq
<1>2. Content(fs[i]) \in Seq(LineSet)
  BY <1>1, FlushedFacts
<1> QED BY <1>2

(* It does so when the last file is replaced by one that is not shorter.     *)
LEMMA ReplaceGrows ==
  ASSUME NEW fs \in Seq(FileSet), fs # <<>>, NEW g \in FileSet,
         Len(Content(Last(fs))) <= Len(Content(g)),
         NEW r, r = [fs EXCEPT ![Len(fs)] = g]
  PROVE  Grows(fs, r)
<1> SUFFICES ASSUME NEW i \in DOMAIN fs
             PROVE  i \in DOMAIN r /\ Len(Content(fs[i])) <= Len(Content(r[i]))
  BY DEF Grows
<1>1. DOMAIN fs = 1 .. Len(fs) /\ Last(fs) = fs[Len(fs)]
  BY LastFacts
<1>2. /\ DOMAIN r = 1 .. Len(fs) /\ r[Len(fs)] = g
      /\ \A k \in 1 .. Len(fs) : k # Len(fs) => r[k] = fs[k]
  BY ReplaceFacts
<1>3. CASE i = Len(fs)
  BY <1>1, <1>2, <1>3
<1>4. CASE i # Len(fs)
  <2>1. i \in DOMAIN r /\ r[i] = fs[i]
    BY <1>1, <1>2, <1>4
  <2>2. PICK a \in Nat : a = Len(Content(fs[i]))
    BY LengthFacts
  <2> QED BY <2>1, <2>2
<1> QED BY <1>3, <1>4

(* What a thread remembers stays in a log that grows.                        *)
LEMMA PlacedGrows ==
  ASSUME NEW fs \in Seq(FileSet), NEW gs \in Seq(FileSet), Grows(fs, gs),
         NEW place \in Places, Placed(place, fs)
  PROVE  Placed(place, gs)
<1>1. PICK k \in Nat, l \in Nat : k = place.file /\ l = place.line
  BY DEF Places
<1>2. k \in DOMAIN fs /\ k \in DOMAIN gs
  BY <1>1 DEF Placed, Grows
<1>3. PICK a \in Nat, b \in Nat : a = Len(Content(fs[k])) /\ b = Len(Content(gs[k]))
  BY <1>2, LengthFacts
<1>4. l <= a /\ a <= b
  BY <1>1, <1>2, <1>3 DEF Placed, Grows
<1>5. l <= b
  BY <1>3, <1>4
<1> QED BY <1>1, <1>2, <1>3, <1>5 DEF Placed

(* An append, with what is put in front of the roll.                         *)
LEMMA AppendGrows ==
  ASSUME IInv, NEW t \in Threads, NEW len \in Lens, AppendLine(t, len)
  PROVE  /\ Grows(files, files')
         /\ Len(files) \in DOMAIN files'
         /\ Len(Content(files'[Len(files)])) = Len(Content(Last(files))) + 1
<1>1. PICK fs \in Seq(FileSet) : fs = files /\ fs # <<>>
  BY DEF IInv, Types
<1>2. PICK f \in FileSet : f = Last(files)
  BY <1>1, LastFacts
<1>3. PICK l \in LineSet : l = Line(len)
  <2>1. Line(len) \in LineSet
    BY DEF Line, LineSet, IInv, Types
  <2> QED BY <2>1
<1>4. PICK w \in FileSet : w = Written(f, l) /\ Content(w) = Append(Content(f), l)
  BY WrittenFacts
<1>5. PICK g \in FileSet : (g = w \/ g = Flushed(w)) /\ files' = [files EXCEPT ![Len(files)] = g]
  <2>1. \/ files' = [files EXCEPT ![Len(files)] = w]
        \/ files' = [files EXCEPT ![Len(files)] = Flushed(w)]
    BY <1>2, <1>3, <1>4 DEF AppendLine, append_unlocked
  <2>2. Flushed(w) \in FileSet
    BY FlushedFacts
  <2> QED BY <2>1, <2>2
<1>6. Content(g) = Append(Content(f), l)
  BY <1>4, <1>5, FlushedFacts
<1>7. PICK c \in Seq(LineSet) : c = Content(f)
  BY FlushedFacts
<1>8. Len(c) \in Nat /\ Len(Append(c, l)) = Len(c) + 1
  OBVIOUS
<1>9. Len(Content(g)) = Len(Content(f)) + 1 /\ Len(Content(f)) <= Len(Content(g))
  BY <1>6, <1>7, <1>8
<1>10. Grows(files, files')
  BY <1>1, <1>2, <1>5, <1>9, ReplaceGrows
<1>11. PICK r : r = files' /\ r = [fs EXCEPT ![Len(fs)] = g]
  BY <1>1, <1>5
<1>12. Len(fs) \in DOMAIN r /\ r[Len(fs)] = g
  <2>1. Len(fs) \in 1 .. Len(fs)
    BY <1>1, LastFacts
  <2> QED BY <1>1, <1>11, <2>1, ReplaceFacts
<1> QED BY <1>1, <1>2, <1>9, <1>10, <1>11, <1>12

(* A flush.                                                                  *)
LEMMA FlushGrows ==
  ASSUME IInv, flush
  PROVE  Grows(files, files') /\ Last(files').buf = <<>>
<1>1. PICK fs \in Seq(FileSet) : fs = files /\ fs # <<>>
  BY DEF IInv, Types
<1>2. PICK f \in FileSet : f = Last(files) /\ f = fs[Len(fs)]
  BY <1>1, LastFacts
<1>3. PICK g \in FileSet : g = Flushed(f) /\ g.buf = <<>> /\ Content(g) = Content(f)
  BY FlushedFacts
<1>4. files' = [fs EXCEPT ![Len(fs)] = g]
  BY <1>1, <1>2, <1>3 DEF flush
<1>5. PICK c \in Seq(LineSet) : c = Content(f)
  BY FlushedFacts
<1>6. Len(Content(f)) <= Len(Content(g))
  BY <1>3, <1>5
<1>7. Grows(fs, files')
  BY <1>1, <1>2, <1>4, <1>6, ReplaceGrows
<1>8. PICK r : r = files' /\ r = [fs EXCEPT ![Len(fs)] = g]
  BY <1>4
<1>9. Last(r) = g
  BY <1>1, <1>8, ReplaceFacts
<1> QED BY <1>1, <1>3, <1>7, <1>8, <1>9

(* A roll, which flushes the file and begins another one.                    *)
LEMMA RollGrows ==
  ASSUME IInv, NEW t \in Threads, rollFile(t)
  PROVE  Grows(files, files')
<1>1. PICK fs \in Seq(FileSet) : fs = files /\ fs # <<>>
  BY DEF IInv, Types
<1>2. PICK f \in FileSet : f = Last(files) /\ f = fs[Len(fs)]
  BY <1>1, LastFacts
<1>3. CASE MayRoll
  <2>1. PICK g \in FileSet : g = Flushed(f) /\ Content(g) = Content(f)
    BY FlushedFacts
  <2>2. PICK c \in Seq(LineSet) : c = Content(f)
    BY FlushedFacts
  <2>3. Len(Content(f)) <= Len(Content(g))
    BY <2>1, <2>2
  <2>4. PICK r : r = [fs EXCEPT ![Len(fs)] = g]
    OBVIOUS
  <2>5. Grows(fs, r)
    BY <1>1, <1>2, <2>3, <2>4, ReplaceGrows
  <2>6. r \in Seq(FileSet)
    BY <1>1, <2>4, ReplaceFacts
  <2>7. PICK h \in FileSet : h = File(now)
    <3>1. now \in Nat
      BY DEF IInv, Types
    <3> QED BY <3>1, EmptyFacts
  <2>8. files' = Append(r, h)
    BY <1>1, <1>2, <1>3, <2>1, <2>4, <2>7 DEF rollFile
  <2>9. \A i \in DOMAIN r : i \in DOMAIN Append(r, h) /\ Append(r, h)[i] = r[i]
    BY <2>6
  <2> QED BY <1>1, <2>5, <2>8, <2>9 DEF Grows
<1>4. CASE ~MayRoll
  <2>1. files' = fs
    BY <1>1, <1>4 DEF rollFile
  <2>2. \A i \in DOMAIN fs : Len(Content(fs[i])) \in Nat
    BY LengthFacts
  <2>3. \A i \in DOMAIN fs : Len(Content(fs[i])) <= Len(Content(fs[i]))
    BY <2>2
  <2> QED BY <1>1, <2>1, <2>3 DEF Grows
<1> QED BY <1>3, <1>4

(* Every thread remembers a place in the log, after a step of one that       *)
(* remembers nothing new.                                                    *)
LEMMA PlacesKept ==
  ASSUME IInv, IInv', FatalInv, Grows(files, files')
  PROVE  \A t \in Threads : Placed(fatal[t], files')
<1> SUFFICES ASSUME NEW t \in Threads PROVE Placed(fatal[t], files')
  OBVIOUS
<1>1. PICK place \in Places : place = fatal[t] /\ Placed(place, files)
  BY DEF FatalInv
<1>2. files \in Seq(FileSet) /\ files' \in Seq(FileSet)
  BY DEF IInv, Types
<1> QED BY <1>1, <1>2, PlacedGrows

(* Every step keeps FatalInv.                                                *)
LEMMA FatalConsecution == IInv /\ IInv' /\ FatalInv /\ [Next]_vars => FatalInv'
<1> SUFFICES ASSUME IInv, IInv', FatalInv, [Next]_vars PROVE FatalInv'
  OBVIOUS
<1>1. CASE UNCHANGED vars
  BY <1>1 DEF FatalInv, Aborted, vars, fileVars, loggerVars
<1>2. ASSUME ~Aborted, UNCHANGED loggerVars, Grows(files, files') PROVE FatalInv'
  <2>1. ~Aborted' /\ fatal' = fatal
    BY <1>2 DEF Aborted, loggerVars
  <2>2. \A t \in Threads : Placed(fatal[t], files')
    BY <1>2, PlacesKept
  <2> QED BY <2>1, <2>2 DEF FatalInv
<1>3. ASSUME ~Aborted, NEW t \in Threads, Log(t) PROVE FatalInv'
  <2>1. PICK len \in Lens : AppendLine(t, len)
    BY <1>3 DEF Log, Lens
  <2>2. /\ Grows(files, files') /\ Len(files) \in DOMAIN files'
        /\ Len(Content(files'[Len(files)])) = Len(Content(Last(files))) + 1
    BY <2>1, AppendGrows
  <2>3. CASE UNCHANGED loggerVars
    BY <1>2, <1>3, <2>2, <2>3
  <2>4. CASE Goto(t, "flush") /\ fatal' = [fatal EXCEPT ![t] = NextPlace]
    <3>1. PICK a \in Nat, b \in Nat : a = Len(files) /\ b = Len(Content(Last(files))) + 1
      <4>1. PICK fs \in Seq(FileSet) : fs = files /\ fs # <<>>
        BY DEF IInv, Types
      <4>2. Last(fs) = fs[Len(fs)] /\ Len(fs) \in DOMAIN fs
        BY <4>1, LastFacts
      <4>3. Len(Content(Last(fs))) \in Nat
        BY <4>2, LengthFacts
      <4> QED BY <4>1, <4>3
    <3>2. NextPlace \in Places /\ NextPlace.file = a /\ NextPlace.line = b
      BY <3>1 DEF NextPlace, Places
    <3> PICK place \in Places : place = NextPlace
      BY <3>2
    <3>3. Placed(place, files')
      BY <2>2, <3>1, <3>2 DEF Placed
    <3>4. \A s \in Threads : fatal'[s] = IF s = t THEN place ELSE fatal[s]
      BY <2>4 DEF FatalInv
    <3>5. \A s \in Threads : Placed(fatal'[s], files')
      BY <2>2, <3>3, <3>4, PlacesKept
    <3>6. fatal' \in [Threads -> Places]
      BY <2>4, <3>2 DEF FatalInv
    <3>7. ~Aborted'
      BY <1>3, <2>4 DEF Aborted, Goto
    <3> QED BY <3>5, <3>6, <3>7 DEF FatalInv
  <2> QED BY <1>3, <2>3, <2>4 DEF Log
<1>4. ASSUME ~Aborted, NEW t \in Threads, Abort(t) PROVE FatalInv'
  <2>1. Grows(files, files') /\ Last(files').buf = <<>> /\ fatal' = fatal
    BY <1>4, FlushGrows DEF Abort
  <2>2. \A s \in Threads : Placed(fatal[s], files')
    BY <2>1, PlacesKept
  <2> QED BY <2>1, <2>2 DEF FatalInv
<1>5. ASSUME ~Aborted, NEW t \in Threads, Roll(t) PROVE FatalInv'
  BY <1>2, <1>5, RollGrows DEF Roll
<1>6. ASSUME ~Aborted, Tick \/ SetBack, UNCHANGED loggerVars PROVE FatalInv'
  BY <1>6 DEF FatalInv, Aborted, loggerVars, Tick, SetBack
<1> QED BY <1>1, <1>3, <1>4, <1>5, <1>6 DEF Next

(* When a FATAL statement has aborted the program, its line and all before   *)
(* it are on the disk, for any number of threads, whoever rolls the file     *)
(* between the append and the flush (Logging.cc:126-136, LogFile.cc:91-98,   *)
(* 131).                                                                     *)
THEOREM FatalCorrect == Spec => []FatalOnDisk
<1>1. Init => FatalInv
  <2> SUFFICES ASSUME Init PROVE FatalInv
    OBVIOUS
  <2>1. fatal \in [Threads -> Places]
    BY DEF Init, Places
  <2>2. files = <<File(now)>> /\ now = 1
    BY DEF Init, FileInit
  <2>3. Content(File(now)) = <<>> /\ ~Aborted
    BY <2>2, EmptyFacts DEF Init, Aborted
  <2>4. 1 \in DOMAIN files /\ files[1] = File(now) /\ Len(Content(files[1])) = 0
    BY <2>2, <2>3
  <2>5. \A t \in Threads : fatal[t].file = 1 /\ fatal[t].line = 0
    BY DEF Init
  <2>6. \A t \in Threads : Placed(fatal[t], files)
    BY <2>4, <2>5 DEF Placed
  <2> QED BY <2>1, <2>3, <2>6 DEF FatalInv
<1>2. IInv /\ FatalInv => FatalOnDisk
  <2> SUFFICES ASSUME IInv, FatalInv, NEW t \in Threads, pc[t] = "aborted"
               PROVE  /\ fatal[t].line <= Len(files[fatal[t].file].disk)
                      /\ \A i \in DOMAIN files : i < fatal[t].file => files[i].buf = <<>>
    BY DEF FatalOnDisk
  <2>1. PICK fs \in Seq(FileSet) : fs = files /\ fs # <<>>
    BY DEF IInv, Types
  <2>2. PICK k \in Nat : k = fatal[t].file /\ k \in DOMAIN fs
    BY <2>1 DEF FatalInv, Placed, Places
  <2>3. Last(fs).buf = <<>> /\ Last(fs) = fs[Len(fs)]
    BY <2>1, LastFacts DEF FatalInv, Aborted
  <2>4. PICK n \in Nat : n = Len(fs) /\ DOMAIN fs = 1 .. n
    BY <2>1
  <2>5. \A i \in DOMAIN fs : fs[i].buf = <<>>
    BY <2>1, <2>3, <2>4 DEF IInv, Names
  <2>6. fs[k] \in FileSet
    BY <2>2, ElementOfSeq
  <2>7. PICK d \in Seq(LineSet) : d = fs[k].disk
    BY <2>6 DEF FileSet
  <2>8. Content(fs[k]) = d
    <3>1. Content(fs[k]) = d \o <<>>
      BY <2>2, <2>5, <2>7 DEF Content
    <3> QED BY <3>1
  <2>9. fatal[t].line <= Len(d)
    BY <2>1, <2>2, <2>8 DEF FatalInv, Placed
  <2> QED BY <2>1, <2>2, <2>5, <2>7, <2>9
<1>3. IInv /\ IInv' /\ FatalInv /\ [Next]_vars => FatalInv'
  BY FatalConsecution
<1> QED BY <1>1, <1>2, <1>3, Invariance, PTL DEF Spec
-----------------------------------------------------------------------------
(* What the lines say. Induction over the natural numbers comes first: the   *)
(* provers cannot instantiate the theorems of the library, which take an     *)
(* operator, but a set they can.                                             *)

(* A set of natural numbers that is not empty has a least one.               *)
LEMMA LeastNumber ==
  ASSUME NEW T \in SUBSET Nat, T # {}
  PROVE  \E w \in T : \A x \in T : w <= x
<1>1. PICK w \in T : \A x \in T : ~(<<x, w>> \in OpToRel(<, Nat))
  BY NatLessThanWellFounded, WFMin, Zenon
<1>2. \A x \in T : ~(x < w)
  BY <1>1 DEF OpToRel
<1> QED BY <1>2

(* Induction up to a bound, over the members of a set, which the provers can *)
(* instantiate: the least number that is not in the set has no predecessor   *)
(* there.                                                                    *)
LEMMA Induction ==
  ASSUME NEW n \in Nat, NEW T, 0 \in T, \A i \in 1 .. n : i - 1 \in T => i \in T
  PROVE  \A i \in 0 .. n : i \in T
<1> DEFINE Wrong == {i \in 0 .. n : i \notin T}
<1> SUFFICES ASSUME Wrong # {} PROVE FALSE
  OBVIOUS
<1>1. Wrong \in SUBSET Nat
  OBVIOUS
<1>2. PICK w \in Wrong : \A x \in Wrong : w <= x
  BY <1>1, LeastNumber
<1>3. w \in 1 .. n /\ w \notin T
  OBVIOUS
<1>4. w - 1 \in 0 .. n /\ ~(w <= w - 1)
  BY <1>3
<1>5. w - 1 \in T
  BY <1>2, <1>4
<1> QED BY <1>3, <1>5

(* Induction from all the smaller numbers, in the same form.                 *)
LEMMA StrongInduction ==
  ASSUME NEW T, \A n \in Nat : (\A m \in Nat : m < n => m \in T) => n \in T
  PROVE  Nat \subseteq T
<1> DEFINE Wrong == {i \in Nat : i \notin T}
<1> SUFFICES ASSUME Wrong # {} PROVE FALSE
  OBVIOUS
<1>1. Wrong \in SUBSET Nat
  OBVIOUS
<1>2. PICK w \in Wrong : \A x \in Wrong : w <= x
  BY <1>1, LeastNumber
<1>3. ASSUME NEW m \in Nat, m < w PROVE m \in T
  <2>1. ~(w <= m)
    BY <1>3
  <2> QED BY <1>2, <2>1
<1> QED BY <1>2, <1>3

(* f is c and then what F makes, in n steps, of the value before.            *)
Steps(f, c, n, F) == f[0] = c /\ \A i \in 1 .. n : f[i] = F[i][f[i - 1]]

(* Such a function exists: what a definition by recursion over 0 .. n needs  *)
(* before anything can be said of what it defines.                           *)
LEMMA Iteration ==
  ASSUME NEW S, NEW c \in S, NEW n \in Nat, NEW F \in [1 .. n -> [S -> S]]
  PROVE  \E f \in [0 .. n -> S] : Steps(f, c, n, F)
<1> DEFINE T == {i \in 0 .. n : \E f \in [0 .. i -> S] : Steps(f, c, i, F)}
<1>1. 0 \in T
  <2>1. [i \in 0 .. 0 |-> c] \in [0 .. 0 -> S] /\ Steps([i \in 0 .. 0 |-> c], c, 0, F)
    BY DEF Steps
  <2> QED BY <2>1
<1>2. ASSUME NEW i \in 1 .. n, i - 1 \in T PROVE i \in T
  <2>1. PICK f \in [0 .. i - 1 -> S] : Steps(f, c, i - 1, F)
    BY <1>2
  <2>2. PICK x \in S : x = F[i][f[i - 1]]
    OBVIOUS
  <2>3. PICK g : g = [j \in 0 .. i |-> IF j = i THEN x ELSE f[j]]
    OBVIOUS
  <2>4. g \in [0 .. i -> S] /\ g[i] = x /\ \A j \in 0 .. i - 1 : g[j] = f[j]
    BY <2>3
  <2>5. g[0] = c
    BY <2>1, <2>4 DEF Steps
  <2>6. ASSUME NEW j \in 1 .. i PROVE g[j] = F[j][g[j - 1]]
    <3>1. CASE j = i
      BY <2>2, <2>4, <3>1
    <3>2. CASE j # i
      <4>1. j \in 1 .. i - 1 /\ j \in 0 .. i - 1 /\ j - 1 \in 0 .. i - 1
        BY <3>2
      <4>2. f[j] = F[j][f[j - 1]]
        BY <2>1, <4>1 DEF Steps
      <4> QED BY <2>4, <4>1, <4>2
    <3> QED BY <3>1, <3>2
  <2>7. Steps(g, c, i, F)
    BY <2>5, <2>6 DEF Steps
  <2> QED BY <2>4, <2>7
<1>3. n \in T
  <2> HIDE DEF T
  <2>1. \A i \in 0 .. n : i \in T
    BY <1>1, <1>2, Induction
  <2> QED BY <2>1
<1> QED BY <1>3

(* The function that Pow is the last value of, and its recursion equation.   *)
PowTo(base, n) == CHOOSE f : f = [i \in 0 .. n |-> IF i = 0 THEN 1 ELSE base * f[i - 1]]

(* PowTo exists, and is the powers of the base.                              *)
LEMMA PowToFacts ==
  ASSUME NEW base \in Nat, NEW n \in Nat
  PROVE  /\ PowTo(base, n) \in [0 .. n -> Nat] /\ PowTo(base, n)[0] = 1
         /\ \A i \in 1 .. n : PowTo(base, n)[i] = base * PowTo(base, n)[i - 1]
<1> DEFINE F == [i \in 1 .. n |-> [x \in Nat |-> base * x]]
           p == PowTo(base, n)
<1>1. F \in [1 .. n -> [Nat -> Nat]]
  OBVIOUS
<1>2. PICK f \in [0 .. n -> Nat] : Steps(f, 1, n, F)
  <2> HIDE DEF F
  <2> QED BY <1>1, Iteration
<1>3. f = [i \in 0 .. n |-> IF i = 0 THEN 1 ELSE base * f[i - 1]]
  <2>1. ASSUME NEW i \in 1 .. n PROVE f[i] = base * f[i - 1]
    <3>1. f[i] = F[i][f[i - 1]]
      <4> HIDE DEF F
      <4> QED BY <1>2 DEF Steps
    <3>2. i - 1 \in 0 .. n /\ f[i - 1] \in Nat
      OBVIOUS
    <3> QED BY <3>1, <3>2
  <2> QED BY <1>2, <2>1 DEF Steps
<1>4. p = [i \in 0 .. n |-> IF i = 0 THEN 1 ELSE base * p[i - 1]]
  BY <1>3 DEF PowTo
<1> HIDE DEF p
<1>5. p[0] = 1 /\ \A i \in 1 .. n : p[i] = base * p[i - 1]
  BY <1>4
<1>6. \A i \in 0 .. n : p[i] \in Nat
  <2> DEFINE T == {i \in 0 .. n : p[i] \in Nat}
  <2>1. 0 \in T /\ \A i \in 1 .. n : i - 1 \in T => i \in T
    BY <1>5
  <2> HIDE DEF T
  <2>2. \A i \in 0 .. n : i \in T
    BY <2>1, Induction
  <2> QED BY <2>2 DEF T
<1> QED BY <1>4, <1>5, <1>6 DEF p

(* Pow is the last value of PowTo.                                           *)
LEMMA PowIs == ASSUME NEW base, NEW n PROVE Pow(base, n) = PowTo(base, n)[n]
BY DEF Pow, PowTo

(* The powers, one from the one before.                                      *)
LEMMA PowFacts ==
  ASSUME NEW base \in Nat, NEW n \in Nat
  PROVE  /\ Pow(base, n) \in Nat /\ Pow(base, 0) = 1
         /\ Pow(base, n + 1) = base * Pow(base, n)
<1> DEFINE f == PowTo(base, n)
           g == PowTo(base, n + 1)
<1>1. f \in [0 .. n -> Nat] /\ f[0] = 1 /\ \A i \in 1 .. n : f[i] = base * f[i - 1]
  BY PowToFacts
<1>2. g[0] = 1 /\ \A i \in 1 .. n + 1 : g[i] = base * g[i - 1]
  BY PowToFacts
<1>3. PowTo(base, 0)[0] = 1
  BY PowToFacts
<1> HIDE DEF f, g
<1>4. \A i \in 0 .. n : f[i] = g[i]
  <2> DEFINE T == {i \in 0 .. n : f[i] = g[i]}
  <2>1. 0 \in T
    BY <1>1, <1>2
  <2>2. ASSUME NEW i \in 1 .. n, i - 1 \in T PROVE i \in T
    BY <1>1, <1>2, <2>2
  <2> HIDE DEF T
  <2>3. \A i \in 0 .. n : i \in T
    BY <2>1, <2>2, Induction
  <2> QED BY <2>3 DEF T
<1>5. f[n] \in Nat /\ g[n + 1] = base * f[n]
  <2>1. n + 1 \in 1 .. n + 1 /\ (n + 1) - 1 = n /\ n \in 0 .. n
    OBVIOUS
  <2> QED BY <1>1, <1>2, <1>4, <2>1
<1> QED BY <1>3, <1>5, PowIs DEF f, g

(* The function that Value is the last value of.                             *)
ValueTo(digits, base) ==
  CHOOSE f : f = [n \in 0 .. Len(digits) |-> IF n = 0 THEN 0 ELSE base * f[n - 1] + digits[n]]

(* Value is the last value of ValueTo.                                       *)
LEMMA ValueIs == ASSUME NEW s, NEW base PROVE Value(s, base) = ValueTo(s, base)[Len(s)]
BY DEF Value, ValueTo

(* ValueTo exists, and reads one digit after the other.                      *)
LEMMA ValueToFacts ==
  ASSUME NEW base \in Nat, NEW s \in Seq(Nat)
  PROVE  /\ ValueTo(s, base) \in [0 .. Len(s) -> Nat] /\ ValueTo(s, base)[0] = 0
         /\ \A i \in 1 .. Len(s) : ValueTo(s, base)[i] = base * ValueTo(s, base)[i - 1] + s[i]
<1>1. PICK n \in Nat : n = Len(s) /\ \A i \in 1 .. n : s[i] \in Nat
  OBVIOUS
<1> DEFINE F == [i \in 1 .. n |-> [x \in Nat |-> base * x + s[i]]]
           p == ValueTo(s, base)
<1>2. F \in [1 .. n -> [Nat -> Nat]]
  BY <1>1
<1>3. PICK f \in [0 .. n -> Nat] : Steps(f, 0, n, F)
  <2> HIDE DEF F
  <2> QED BY <1>2, Iteration
<1>4. f = [i \in 0 .. n |-> IF i = 0 THEN 0 ELSE base * f[i - 1] + s[i]]
  <2>1. ASSUME NEW i \in 1 .. n PROVE f[i] = base * f[i - 1] + s[i]
    <3>1. f[i] = F[i][f[i - 1]]
      <4> HIDE DEF F
      <4> QED BY <1>3 DEF Steps
    <3>2. i - 1 \in 0 .. n /\ f[i - 1] \in Nat
      OBVIOUS
    <3> QED BY <3>1, <3>2
  <2> QED BY <1>3, <2>1 DEF Steps
<1>5. p = [i \in 0 .. n |-> IF i = 0 THEN 0 ELSE base * p[i - 1] + s[i]]
  BY <1>1, <1>4 DEF ValueTo
<1> HIDE DEF p
<1>6. p[0] = 0 /\ \A i \in 1 .. n : p[i] = base * p[i - 1] + s[i]
  BY <1>5
<1>7. \A i \in 0 .. n : p[i] \in Nat
  <2> DEFINE T == {i \in 0 .. n : p[i] \in Nat}
  <2>1. 0 \in T
    BY <1>6
  <2>2. ASSUME NEW i \in 1 .. n, i - 1 \in T PROVE i \in T
    <3>1. PICK x \in Nat, d \in Nat : x = p[i - 1] /\ d = s[i]
      BY <1>1, <2>2
    <3>2. base * x + d \in Nat
      OBVIOUS
    <3>3. p[i] \in Nat
      BY <1>6, <3>1, <3>2
    <3> QED BY <3>3
  <2> HIDE DEF T
  <2>3. \A i \in 0 .. n : i \in T
    BY <2>1, <2>2, Induction
  <2> QED BY <2>3 DEF T
<1> QED BY <1>1, <1>5, <1>6, <1>7 DEF p

(* A digit more at the end: the value times the base, and the digit.         *)
LEMMA ValueFacts ==
  ASSUME NEW base \in Nat, NEW s \in Seq(Nat), NEW d \in Nat
  PROVE  /\ Value(s, base) \in Nat /\ Value(<<>>, base) = 0
         /\ Value(Append(s, d), base) = base * Value(s, base) + d
<1> DEFINE f == ValueTo(s, base)
           g == ValueTo(Append(s, d), base)
<1>1. PICK n \in Nat : n = Len(s)
  OBVIOUS
<1>2. /\ Append(s, d) \in Seq(Nat) /\ Len(Append(s, d)) = n + 1
      /\ Append(s, d)[n + 1] = d /\ \A i \in 1 .. n : Append(s, d)[i] = s[i]
  BY <1>1
<1>3. f \in [0 .. n -> Nat] /\ f[0] = 0 /\ \A i \in 1 .. n : f[i] = base * f[i - 1] + s[i]
  BY <1>1, ValueToFacts
<1>4. g[0] = 0 /\ \A i \in 1 .. n + 1 : g[i] = base * g[i - 1] + Append(s, d)[i]
  BY <1>2, ValueToFacts
<1>5. ValueTo(<<>>, base)[0] = 0 /\ Len(<<>>) = 0
  <2>1. <<>> \in Seq(Nat) /\ Len(<<>>) = 0
    OBVIOUS
  <2> QED BY <2>1, ValueToFacts
<1> HIDE DEF f, g
<1>6. \A i \in 0 .. n : f[i] = g[i]
  <2> DEFINE T == {i \in 0 .. n : f[i] = g[i]}
  <2>1. 0 \in T
    BY <1>3, <1>4
  <2>2. ASSUME NEW i \in 1 .. n, i - 1 \in T PROVE i \in T
    <3>1. i \in 1 .. n + 1 /\ f[i - 1] = g[i - 1]
      BY <2>2
    <3>2. f[i] = g[i]
      BY <1>2, <1>3, <1>4, <3>1
    <3> QED BY <3>2
  <2> HIDE DEF T
  <2>3. \A i \in 0 .. n : i \in T
    BY <2>1, <2>2, Induction
  <2> QED BY <2>3 DEF T
<1>7. f[n] \in Nat /\ g[n + 1] = base * f[n] + d
  <2>1. n + 1 \in 1 .. n + 1 /\ (n + 1) - 1 = n /\ n \in 0 .. n
    OBVIOUS
  <2> QED BY <1>2, <1>3, <1>4, <1>6, <2>1
<1> QED BY <1>1, <1>2, <1>5, <1>7, ValueIs DEF f, g

(* Division by the two bases the stream writes numbers in.                   *)
LEMMA DivFacts ==
  ASSUME NEW n \in Nat, NEW B \in {10, 16}
  PROVE  /\ n \div B \in Nat /\ n % B \in 0 .. B - 1 /\ n = B * (n \div B) + (n % B)
         /\ n \div B <= n /\ (n \div B # 0 => n \div B < n)
<1>1. CASE B = 10
  BY <1>1
<1>2. CASE B = 16
  BY <1>2
<1> QED BY <1>1, <1>2

(* G[n] is the digits of n in base B, the least significant first.           *)
DigitsOf(G, N, B) ==
  /\ G \in [0 .. N -> Seq(0 .. B - 1)]
  /\ \A n \in 0 .. N : G[n] = <<n % B>> \o IF n \div B = 0 THEN <<>> ELSE G[n \div B]

(* There are such digits for all the numbers up to N: N + 1 rounds of the    *)
(* recursion, after which the digits of no number change any more.           *)
LEMMA DigitsExist ==
  ASSUME NEW N \in Nat, NEW B \in {10, 16}
  PROVE  \E G : DigitsOf(G, N, B)
<1> DEFINE S == [0 .. N -> Seq(0 .. B - 1)]
           next(h) == [n \in 0 .. N |-> <<n % B>> \o IF n \div B = 0 THEN <<>> ELSE h[n \div B]]
           c == [n \in 0 .. N |-> <<>>]
           F == [i \in 1 .. N + 1 |-> [h \in S |-> next(h)]]
<1>1. \A n \in 0 .. N : n % B \in 0 .. B - 1 /\ n \div B \in 0 .. N
  <2>1. ASSUME NEW n \in 0 .. N PROVE n % B \in 0 .. B - 1 /\ n \div B \in 0 .. N
    <3>1. n \in Nat /\ n % B \in 0 .. B - 1 /\ n \div B \in Nat /\ n \div B <= n
      BY DivFacts
    <3> QED BY <3>1
  <2> QED BY <2>1
<1>2. c \in S
  OBVIOUS
<1>3. ASSUME NEW h \in S PROVE next(h) \in S
  <2>1. ASSUME NEW n \in 0 .. N
        PROVE  <<n % B>> \o (IF n \div B = 0 THEN <<>> ELSE h[n \div B]) \in Seq(0 .. B - 1)
    <3>1. PICK d \in 0 .. B - 1 : d = n % B
      BY <1>1
    <3>2. PICK t \in Seq(0 .. B - 1) : t = IF n \div B = 0 THEN <<>> ELSE h[n \div B]
      <4>1. <<>> \in Seq(0 .. B - 1)
        OBVIOUS
      <4>2. h[n \div B] \in Seq(0 .. B - 1)
        BY <1>1
      <4> QED BY <4>1, <4>2
    <3>3. <<d>> \o t \in Seq(0 .. B - 1)
      OBVIOUS
    <3> QED BY <3>1, <3>2, <3>3
  <2> QED BY <2>1
<1> HIDE DEF S, c
<1>4. F \in [1 .. N + 1 -> [S -> S]]
  BY <1>3
<1>5. PICK f \in [0 .. N + 1 -> S] : Steps(f, c, N + 1, F)
  <2>1. N + 1 \in Nat
    OBVIOUS
  <2> HIDE DEF F
  <2> QED BY <1>2, <1>4, <2>1, Iteration
<1>6. ASSUME NEW k \in 1 .. N + 1, NEW n \in 0 .. N
      PROVE  f[k][n] = <<n % B>> \o IF n \div B = 0 THEN <<>> ELSE f[k - 1][n \div B]
  <2>1. f[k] = F[k][f[k - 1]]
    <3> HIDE DEF F
    <3> QED BY <1>5 DEF Steps
  <2>2. k - 1 \in 0 .. N + 1 /\ f[k - 1] \in S
    OBVIOUS
  <2>3. f[k] = next(f[k - 1])
    <3> HIDE DEF next
    <3> QED BY <2>1, <2>2
  <2> QED BY <2>3
<1> HIDE DEF F, next
<1> DEFINE T == {n \in Nat : n <= N => \A j, k \in n + 1 .. N + 1 : f[j][n] = f[k][n]}
<1>7. ASSUME NEW n \in Nat, \A m \in Nat : m < n => m \in T PROVE n \in T
  <2> SUFFICES ASSUME n <= N, NEW j \in n + 1 .. N + 1, NEW k \in n + 1 .. N + 1
               PROVE  f[j][n] = f[k][n]
    OBVIOUS
  <2>1. n \in 0 .. N /\ j \in 1 .. N + 1 /\ k \in 1 .. N + 1
    OBVIOUS
  <2>2. /\ f[j][n] = <<n % B>> \o IF n \div B = 0 THEN <<>> ELSE f[j - 1][n \div B]
        /\ f[k][n] = <<n % B>> \o IF n \div B = 0 THEN <<>> ELSE f[k - 1][n \div B]
    BY <1>6, <2>1
  <2>3. CASE n \div B = 0
    BY <2>2, <2>3
  <2>4. CASE n \div B # 0
    <3>1. PICK m \in Nat : m = n \div B /\ m < n
      BY <2>4, DivFacts
    <3>2. m <= N /\ j - 1 \in m + 1 .. N + 1 /\ k - 1 \in m + 1 .. N + 1
      BY <3>1
    <3>3. f[j - 1][m] = f[k - 1][m]
      BY <1>7, <3>1, <3>2
    <3> QED BY <2>2, <3>1, <3>3
  <2> QED BY <2>3, <2>4
<1>8. Nat \subseteq T
  <2> HIDE DEF T
  <2> QED BY <1>7, StrongInduction
<1>9. ASSUME NEW n \in 0 .. N
      PROVE  f[N + 1][n] = <<n % B>> \o IF n \div B = 0 THEN <<>> ELSE f[N + 1][n \div B]
  <2>1. N + 1 \in 1 .. N + 1 /\ (N + 1) - 1 = N
    OBVIOUS
  <2>2. f[N + 1][n] = <<n % B>> \o IF n \div B = 0 THEN <<>> ELSE f[N][n \div B]
    BY <1>6, <2>1
  <2>3. n \div B # 0 => f[N][n \div B] = f[N + 1][n \div B]
    <3> SUFFICES ASSUME n \div B # 0 PROVE f[N][n \div B] = f[N + 1][n \div B]
      OBVIOUS
    <3>1. PICK m \in Nat : m = n \div B /\ m < n
      BY DivFacts
    <3>2. m \in T /\ m <= N /\ N \in m + 1 .. N + 1 /\ N + 1 \in m + 1 .. N + 1
      BY <1>8, <3>1
    <3> QED BY <3>1, <3>2
  <2> QED BY <2>2, <2>3
<1>10. f[N + 1] \in S
  OBVIOUS
<1> QED BY <1>9, <1>10 DEF DigitsOf, S

(* Reversing turns the first element into the last, and the other way round. *)
LEMMA ReverseFacts ==
  ASSUME NEW S, NEW t \in Seq(S), NEW x \in S
  PROVE  /\ Reverse(t) \in Seq(S) /\ Len(Reverse(t)) = Len(t)
         /\ Reverse(<<x>> \o t) = Append(Reverse(t), x)
         /\ Reverse(Append(t, x)) = <<x>> \o Reverse(t)
<1>1. PICK n \in Nat : n = Len(t) /\ \A i \in 1 .. n : t[i] \in S
  OBVIOUS
<1>2. PICK r \in Seq(S) : r = Reverse(t) /\ Len(r) = n /\ \A i \in 1 .. n : r[i] = t[n - i + 1]
  <2>1. Reverse(t) = [i \in 1 .. n |-> t[n - i + 1]]
    BY <1>1 DEF Reverse
  <2>2. \A i \in 1 .. n : t[n - i + 1] \in S
    <3>1. \A i \in 1 .. n : n - i + 1 \in 1 .. n
      OBVIOUS
    <3> QED BY <1>1, <3>1
  <2>3. [i \in 1 .. n |-> t[n - i + 1]] \in Seq(S) /\ Len([i \in 1 .. n |-> t[n - i + 1]]) = n
    BY <2>2
  <2> QED BY <2>1, <2>3
<1>3. Reverse(<<x>> \o t) = Append(r, x)
  <2> DEFINE q == <<x>> \o t
             l == Reverse(q)
             a == Append(r, x)
  <2>1. q \in Seq(S) /\ Len(q) = n + 1 /\ q[1] = x /\ \A i \in 2 .. n + 1 : q[i] = t[i - 1]
    BY <1>1
  <2>2. a \in Seq(S) /\ Len(a) = n + 1 /\ a[n + 1] = x /\ \A i \in 1 .. n : a[i] = r[i]
    BY <1>2
  <2> HIDE DEF q, a
  <2>3. l = [i \in 1 .. n + 1 |-> q[n + 1 - i + 1]]
    BY <2>1 DEF Reverse
  <2>4. ASSUME NEW i \in 1 .. n + 1 PROVE q[n + 1 - i + 1] = a[i]
    <3>1. CASE i = n + 1
      <4>1. n + 1 - i + 1 = 1
        BY <3>1
      <4> QED BY <2>1, <2>2, <3>1, <4>1
    <3>2. CASE i # n + 1
      <4>1. i \in 1 .. n /\ n + 1 - i + 1 \in 2 .. n + 1 /\ (n + 1 - i + 1) - 1 = n - i + 1
        BY <3>2
      <4> QED BY <1>2, <2>1, <2>2, <4>1
    <3> QED BY <3>1, <3>2
  <2>5. l = [i \in 1 .. n + 1 |-> a[i]]
    BY <2>3, <2>4
  <2>6. a = [i \in 1 .. n + 1 |-> a[i]]
    BY <2>2
  <2> QED BY <2>5, <2>6 DEF q, a
<1>4. Reverse(Append(t, x)) = <<x>> \o r
  <2> DEFINE q == Append(t, x)
             l == Reverse(q)
             a == <<x>> \o r
  <2>1. q \in Seq(S) /\ Len(q) = n + 1 /\ q[n + 1] = x /\ \A i \in 1 .. n : q[i] = t[i]
    BY <1>1
  <2>2. a \in Seq(S) /\ Len(a) = n + 1 /\ a[1] = x /\ \A i \in 2 .. n + 1 : a[i] = r[i - 1]
    BY <1>2
  <2> HIDE DEF q, a
  <2>3. l = [i \in 1 .. n + 1 |-> q[n + 1 - i + 1]]
    BY <2>1 DEF Reverse
  <2>4. ASSUME NEW i \in 1 .. n + 1 PROVE q[n + 1 - i + 1] = a[i]
    <3>1. CASE i = 1
      <4>1. n + 1 - i + 1 = n + 1
        BY <3>1
      <4> QED BY <2>1, <2>2, <3>1, <4>1
    <3>2. CASE i # 1
      <4>1. /\ i \in 2 .. n + 1 /\ i - 1 \in 1 .. n /\ n + 1 - i + 1 \in 1 .. n
            /\ n + 1 - i + 1 = n - (i - 1) + 1
        BY <3>2
      <4> QED BY <1>2, <2>1, <2>2, <4>1
    <3> QED BY <3>1, <3>2
  <2>5. l = [i \in 1 .. n + 1 |-> a[i]]
    BY <2>3, <2>4
  <2>6. a = [i \in 1 .. n + 1 |-> a[i]]
    BY <2>2
  <2> QED BY <2>5, <2>6 DEF q, a
<1> QED BY <1>1, <1>2, <1>3, <1>4

(* The digits of a number, reversed, read as the number, and a number below  *)
(* the m-th power of the base has at most m of them.                         *)
LEMMA DigitsFacts ==
  ASSUME NEW N \in Nat, NEW B \in {10, 16}, NEW G, DigitsOf(G, N, B), NEW v \in 0 .. N
  PROVE  /\ G[v] \in Seq(0 .. B - 1) /\ Len(G[v]) >= 1
         /\ Value(Reverse(G[v]), B) = v
         /\ \A m \in Nat : m >= 1 /\ v < Pow(B, m) => Len(G[v]) <= m
<1> DEFINE Right(n) == /\ Len(G[n]) >= 1 /\ Value(Reverse(G[n]), B) = n
                       /\ \A m \in Nat : m >= 1 /\ n < Pow(B, m) => Len(G[n]) <= m
           T == {n \in Nat : n <= N => Right(n)}
<1>1. \A n \in 0 .. N : G[n] \in Seq(0 .. B - 1)
  BY DEF DigitsOf
<1>2. ASSUME NEW n \in Nat, \A m \in Nat : m < n => m \in T, n <= N PROVE Right(n)
  <2>1. PICK d \in 0 .. B - 1, q \in Nat :
          d = n % B /\ q = n \div B /\ n = B * q + d /\ q <= n /\ (q # 0 => q < n)
    BY DivFacts
  <2>2. G[n] = <<d>> \o IF q = 0 THEN <<>> ELSE G[q]
    <3>1. n \in 0 .. N
      BY <1>2
    <3>2. G[n] = <<n % B>> \o IF n \div B = 0 THEN <<>> ELSE G[n \div B]
      BY <3>1 DEF DigitsOf
    <3> QED BY <2>1, <3>2
  <2>3. CASE q = 0
    <3>1. G[n] = <<d>> /\ n = d /\ Len(G[n]) = 1
      <4>1. <<d>> \o <<>> = <<d>> /\ Len(<<d>>) = 1
        OBVIOUS
      <4>2. B * 0 + d = d
        OBVIOUS
      <4>3. n = d
        BY <2>1, <2>3, <4>2
      <4> QED BY <2>2, <2>3, <4>1, <4>3
    <3>2. Reverse(G[n]) = Append(<<>>, d)
      BY <3>1 DEF Reverse
    <3>3. Value(Append(<<>>, d), B) = B * Value(<<>>, B) + d /\ Value(<<>>, B) = 0
      <4>1. <<>> \in Seq(Nat) /\ d \in Nat /\ B \in Nat
        OBVIOUS
      <4> QED BY <4>1, ValueFacts
    <3> QED BY <3>1, <3>2, <3>3
  <2>4. CASE q # 0
    <3>1. Right(q) /\ q \in 0 .. N
      BY <1>2, <2>1, <2>4
    <3>2. PICK t \in Seq(0 .. B - 1) : t = G[q]
      BY <1>1, <3>1
    <3>3. G[n] = <<d>> \o t
      BY <2>2, <2>4, <3>2
    <3>4. Len(G[n]) = Len(t) + 1 /\ Len(t) \in Nat
      BY <3>3
    <3>5. Value(Reverse(G[n]), B) = n
      <4>1. PICK r \in Seq(Nat) : r = Reverse(t)
        <5>1. t \in Seq(Nat)
          OBVIOUS
        <5> QED BY <5>1, ReverseFacts
      <4>2. Reverse(G[n]) = Append(r, d)
        BY <3>3, <4>1, ReverseFacts
      <4>3. d \in Nat /\ B \in Nat
        OBVIOUS
      <4>4. Value(Append(r, d), B) = B * Value(r, B) + d
        BY <4>3, ValueFacts
      <4>5. Value(r, B) = q
        BY <3>1, <3>2, <4>1
      <4> QED BY <2>1, <4>2, <4>4, <4>5
    <3>6. ASSUME NEW m \in Nat, m >= 1, n < Pow(B, m) PROVE Len(G[n]) <= m
      <4>1. PICK k \in Nat : m = k + 1
        <5>1. m - 1 \in Nat /\ m = (m - 1) + 1
          BY <3>6
        <5> QED BY <5>1
      <4>2. PICK p \in Nat : p = Pow(B, k) /\ Pow(B, m) = B * p /\ (k = 0 => p = 1)
        <5>1. B \in Nat
          OBVIOUS
        <5> QED BY <4>1, <5>1, PowFacts
      <4>3. B * q + d < B * p
        BY <2>1, <3>6, <4>2
      <4>4. q < p
        <5>1. CASE B = 10
          BY <4>3, <5>1
        <5>2. CASE B = 16
          BY <4>3, <5>2
        <5> QED BY <5>1, <5>2
      <4>5. k >= 1
        BY <2>4, <4>2, <4>4
      <4>6. Len(t) <= k
        BY <3>1, <3>2, <4>2, <4>4, <4>5
      <4> QED BY <3>4, <4>1, <4>6
    <3> QED BY <3>4, <3>5, <3>6
  <2> QED BY <2>3, <2>4
<1>3. \A n \in Nat : (\A m \in Nat : m < n => m \in T) => n \in T
  <2> HIDE DEF Right
  <2> QED BY <1>2
<1>4. v \in T /\ v <= N
  <2> HIDE DEF T
  <2>1. Nat \subseteq T
    BY <1>3, StrongInduction
  <2> QED BY <2>1
<1> QED BY <1>1, <1>4

(* The absolute value of the smallest number.                                *)
Limit == Pow(2, Width - 1)

(* The limits of the numbers of Width bits.                                  *)
LEMMA LimitFacts ==
  /\ Limit \in Nat /\ Limit > 0
  /\ INT_MIN = -Limit /\ INT_MAX = Limit - 1
  /\ UINTPTR_MAX \in Nat /\ UINTPTR_MAX = 2 * Limit - 1
<1>1. PICK w \in Nat : w = Width - 1 /\ w + 1 = Width
  <2>1. Width - 1 \in Nat /\ (Width - 1) + 1 = Width
    BY StreamAssumption
  <2> QED BY <2>1
<1>2. Limit \in Nat /\ Pow(2, Width) = 2 * Limit
  BY <1>1, PowFacts DEF Limit
<1>3. Limit > 0
  <2> DEFINE T == {n \in Nat : Pow(2, n) > 0}
  <2>1. 0 \in T
    BY PowFacts
  <2>2. ASSUME NEW i \in 1 .. w, i - 1 \in T PROVE i \in T
    <3>1. PICK k \in Nat : k = i - 1 /\ i = k + 1
      <4>1. i - 1 \in Nat /\ i = (i - 1) + 1
        OBVIOUS
      <4> QED BY <4>1
    <3>2. Pow(2, k) \in Nat /\ Pow(2, k + 1) = 2 * Pow(2, k)
      BY PowFacts
    <3>3. Pow(2, k) > 0
      BY <2>2, <3>1
    <3>4. Pow(2, i) > 0
      BY <3>1, <3>2, <3>3
    <3> QED BY <3>4
  <2> HIDE DEF T
  <2>3. w \in T
    <3>1. \A i \in 0 .. w : i \in T
      BY <2>1, <2>2, Induction
    <3> QED BY <3>1
  <2> QED BY <1>1, <2>3 DEF T, Limit
<1> QED BY <1>2, <1>3 DEF INT_MIN, INT_MAX, UINTPTR_MAX, Limit

(* The absolute value, which for the smallest number is not of Width bits.   *)
Abs(i) == IF i < 0 THEN -i ELSE i

(* Division towards zero, and the table of digits, which is the same on both *)
(* sides of zero, give the digits of the absolute value: no number is ever   *)
(* negated, so the smallest one needs no care (LoggingStream.cc:13-28).      *)
LEMMA QuotFacts ==
  ASSUME NEW i \in INT_MIN .. UINTPTR_MAX
  PROVE  /\ Abs(i) \in 0 .. UINTPTR_MAX
         /\ Quot(i, 10) \in INT_MIN .. UINTPTR_MAX /\ Abs(Quot(i, 10)) = Abs(i) \div 10
         /\ (Quot(i, 10) = 0 <=> Abs(i) \div 10 = 0)
         /\ zero(Rem(i, 10)) = Abs(i) % 10
<1>1. PICK l \in Nat, u \in Nat : /\ l > 0 /\ u = 2 * l - 1 /\ l <= u
                                 /\ INT_MIN = -l /\ UINTPTR_MAX = u
  <2>1. PICK l \in Nat : l = Limit /\ l > 0
    BY LimitFacts
  <2>2. 2 * l - 1 \in Nat /\ l <= 2 * l - 1
    BY <2>1
  <2> QED BY <2>1, <2>2, LimitFacts
<1>2. i \in Int /\ -l <= i /\ i <= u
  BY <1>1
<1>3. CASE i >= 0
  <2>1. Abs(i) = i /\ Quot(i, 10) = i \div 10 /\ i \in Nat
    BY <1>2, <1>3 DEF Abs, Quot
  <2>2. i \div 10 \in Nat /\ i % 10 \in 0 .. 9 /\ i = 10 * (i \div 10) + (i % 10) /\ i \div 10 <= i
    BY <2>1
  <2>3. Abs(i \div 10) = i \div 10
    BY <2>2 DEF Abs
  <2>4. Rem(i, 10) = i % 10 /\ zero(i % 10) = i % 10
    <3>1. PICK q \in Nat, d \in 0 .. 9 : q = i \div 10 /\ d = i % 10 /\ i = 10 * q + d
      BY <2>2
    <3>2. Rem(i, 10) = i - 10 * q
      BY <2>1, <3>1 DEF Rem
    <3>3. zero(d) = d
      BY DEF zero
    <3> QED BY <3>1, <3>2, <3>3
  <2>5. i \in 0 .. u /\ i \div 10 \in -l .. u
    BY <1>1, <1>2, <2>1, <2>2
  <2> QED BY <1>1, <2>1, <2>3, <2>4, <2>5
<1>4. CASE i < 0
  <2>1. PICK n \in Nat : n = -i /\ n > 0 /\ n <= l
    <3>1. -i \in Nat /\ -i > 0 /\ -i <= l
      BY <1>2, <1>4
    <3> QED BY <3>1
  <2>2. Abs(i) = n /\ Quot(i, 10) = -(n \div 10)
    BY <1>4, <2>1 DEF Abs, Quot
  <2>3. PICK q \in Nat, d \in 0 .. 9 : q = n \div 10 /\ d = n % 10 /\ n = 10 * q + d /\ q < n
    <3>1. n \div 10 \in Nat /\ n % 10 \in 0 .. 9 /\ n = 10 * (n \div 10) + (n % 10) /\ n \div 10 < n
      BY <2>1
    <3> QED BY <3>1
  <2>4. Abs(-q) = q /\ (-q = 0 <=> q = 0) /\ -q \in -l .. u
    BY <1>1, <2>1, <2>3 DEF Abs
  <2>5. Rem(i, 10) = -d
    <3>1. Rem(i, 10) = i - 10 * (-q)
      BY <2>2, <2>3 DEF Rem
    <3> QED BY <1>2, <2>1, <2>3, <3>1
  <2>6. zero(-d) = d
    BY DEF zero
  <2>7. n \in 0 .. u
    BY <1>1, <2>1
  <2> QED BY <1>1, <2>2, <2>3, <2>4, <2>5, <2>6, <2>7
<1> QED BY <1>2, <1>3, <1>4

(* The loop of convert writes the digits of the absolute value               *)
(* (LoggingStream.cc:24-28).                                                 *)
LEMMA LsdsFacts ==
  \E G : DigitsOf(G, UINTPTR_MAX, 10) /\ \A i \in INT_MIN .. UINTPTR_MAX : lsds[i] = G[Abs(i)]
<1>1. PICK G : DigitsOf(G, UINTPTR_MAX, 10)
  BY LimitFacts, DigitsExist
<1> DEFINE R == INT_MIN .. UINTPTR_MAX
           w == [i \in R |-> G[Abs(i)]]
<1>2. ASSUME NEW i \in R
      PROVE  G[Abs(i)] = <<zero(Rem(i, 10))>> \o
                           IF Quot(i, 10) = 0 THEN <<>> ELSE G[Abs(Quot(i, 10))]
  <2>1. PICK n \in 0 .. UINTPTR_MAX :
          /\ n = Abs(i) /\ Abs(Quot(i, 10)) = n \div 10
          /\ (Quot(i, 10) = 0 <=> n \div 10 = 0) /\ zero(Rem(i, 10)) = n % 10
    BY QuotFacts
  <2>2. G[n] = <<n % 10>> \o IF n \div 10 = 0 THEN <<>> ELSE G[n \div 10]
    BY <1>1 DEF DigitsOf
  <2> QED BY <2>1, <2>2
<1>3. \A i \in R : Quot(i, 10) \in R
  BY QuotFacts
<1>4. w = [i \in R |-> <<zero(Rem(i, 10))>> \o
                         IF Quot(i, 10) = 0 THEN <<>> ELSE w[Quot(i, 10)]]
  <2>1. \A i \in R : w[Quot(i, 10)] = G[Abs(Quot(i, 10))]
    BY <1>3
  <2>2. \A i \in R : w[i] = <<zero(Rem(i, 10))>> \o
                              IF Quot(i, 10) = 0 THEN <<>> ELSE w[Quot(i, 10)]
    BY <1>2, <2>1
  <2>3. w = [i \in R |-> w[i]]
    OBVIOUS
  <2> HIDE DEF w, R
  <2> QED BY <2>2, <2>3
<1>5. lsds = [i \in R |-> <<zero(Rem(i, 10))>> \o
                            IF Quot(i, 10) = 0 THEN <<>> ELSE lsds[Quot(i, 10)]]
  <2> HIDE DEF w
  <2> QED BY <1>4 DEF lsds
<1> HIDE DEF w, R
<1>6. ASSUME NEW i \in R
      PROVE  lsds[i] = <<zero(Rem(i, 10))>> \o
                         IF Quot(i, 10) = 0 THEN <<>> ELSE lsds[Quot(i, 10)]
  BY <1>5
<1> DEFINE T == {n \in Nat : \A i \in R : Abs(i) = n => lsds[i] = G[n]}
<1>7. ASSUME NEW n \in Nat, \A m \in Nat : m < n => m \in T PROVE n \in T
  <2> SUFFICES ASSUME NEW i \in R, Abs(i) = n PROVE lsds[i] = G[Abs(i)]
    OBVIOUS
  <2>1. CASE Quot(i, 10) = 0
    BY <1>2, <1>6, <2>1
  <2>2. CASE Quot(i, 10) # 0
    <3>1. PICK m \in Nat : m = Abs(Quot(i, 10)) /\ m < n
      <4>1. Abs(Quot(i, 10)) = n \div 10 /\ n \div 10 # 0
        BY <2>2, QuotFacts DEF R
      <4> QED BY <4>1, DivFacts
    <3>2. lsds[Quot(i, 10)] = G[m]
      BY <1>3, <1>7, <3>1
    <3> QED BY <1>2, <1>6, <2>2, <3>1, <3>2
  <2> QED BY <2>1, <2>2
<1>8. Nat \subseteq T
  <2> HIDE DEF T
  <2> QED BY <1>7, StrongInduction
<1>9. ASSUME NEW i \in R PROVE lsds[i] = G[Abs(i)]
  <2>1. Abs(i) \in Nat
    BY LimitFacts, QuotFacts DEF R
  <2> QED BY <1>8, <2>1
<1> QED BY <1>1, <1>9 DEF R

(* The loop of convertHex writes the digits of the pointer                   *)
(* (LoggingStream.cc:42-46).                                                 *)
LEMMA LsdsHexFacts ==
  \E G : DigitsOf(G, UINTPTR_MAX, 16) /\ \A i \in 0 .. UINTPTR_MAX : lsdsHex[i] = G[i]
<1>0. PICK N \in Nat : N = UINTPTR_MAX
  BY LimitFacts
<1>1. PICK G : DigitsOf(G, N, 16)
  BY DigitsExist
<1>2. G = [i \in 0 .. N |-> <<i % 16>> \o IF i \div 16 = 0 THEN <<>> ELSE G[i \div 16]]
  BY <1>1 DEF DigitsOf
<1>3. lsdsHex = [i \in 0 .. N |-> <<i % 16>> \o IF i \div 16 = 0 THEN <<>> ELSE lsdsHex[i \div 16]]
  BY <1>0, <1>2 DEF lsdsHex
<1> DEFINE T == {n \in Nat : n <= N => lsdsHex[n] = G[n]}
<1>4. ASSUME NEW n \in Nat, \A m \in Nat : m < n => m \in T PROVE n \in T
  <2> SUFFICES ASSUME n <= N PROVE lsdsHex[n] = G[n]
    OBVIOUS
  <2>1. n \in 0 .. N
    OBVIOUS
  <2>2. /\ G[n] = <<n % 16>> \o IF n \div 16 = 0 THEN <<>> ELSE G[n \div 16]
        /\ lsdsHex[n] = <<n % 16>> \o IF n \div 16 = 0 THEN <<>> ELSE lsdsHex[n \div 16]
    BY <1>2, <1>3, <2>1
  <2>3. n \div 16 # 0 => lsdsHex[n \div 16] = G[n \div 16]
    <3> SUFFICES ASSUME n \div 16 # 0 PROVE lsdsHex[n \div 16] = G[n \div 16]
      OBVIOUS
    <3>1. PICK m \in Nat : m = n \div 16 /\ m < n
      BY DivFacts
    <3>2. m \in T /\ m <= N
      BY <1>4, <2>1, <3>1
    <3> QED BY <3>1, <3>2
  <2> QED BY <2>2, <2>3
<1>5. Nat \subseteq T
  <2> HIDE DEF T
  <2> QED BY <1>4, StrongInduction
<1> QED BY <1>0, <1>1, <1>5

(* What convert writes reads as the number, the smallest one too, and, with  *)
(* its sign, is shorter than kMaxNumericSize (LoggingStream.cc:20-37,        *)
(* 122-128).                                                                 *)
LEMMA ConvertFacts ==
  ASSUME NEW v \in INT_MIN .. UINTPTR_MAX
  PROVE  /\ convert(v) \in Seq(Nat) /\ Len(convert(v)) < kMaxNumericSize
         /\ ReadInt(convert(v)) = v
<1>1. PICK G : DigitsOf(G, UINTPTR_MAX, 10) /\ lsds[v] = G[Abs(v)]
  BY LsdsFacts
<1>2. PICK l \in Nat : l = UINTPTR_MAX /\ Pow(2, Width) = l + 1
  <2>1. Pow(2, Width) \in Nat /\ UINTPTR_MAX \in Nat
    BY StreamAssumption, PowFacts, LimitFacts
  <2> QED BY <2>1 DEF UINTPTR_MAX
<1>3. PICK n \in 0 .. l : n = Abs(v) /\ v \in Int /\ v = IF v < 0 THEN -n ELSE n
  <2>1. Abs(v) \in 0 .. l /\ v \in Int
    BY <1>2, QuotFacts, LimitFacts
  <2>2. v = IF v < 0 THEN -Abs(v) ELSE Abs(v)
    BY <2>1 DEF Abs
  <2> QED BY <2>1, <2>2
<1>4. PICK t \in Seq(0 .. 9) :
        /\ t = lsds[v] /\ Len(t) >= 1 /\ Value(Reverse(t), 10) = n
        /\ \A m \in Nat : m >= 1 /\ n < Pow(10, m) => Len(t) <= m
  BY <1>1, <1>2, <1>3, DigitsFacts
<1>5. Len(t) \in Nat /\ kMaxNumericSize \in Nat /\ Len(t) <= kMaxNumericSize - 2
  <2>1. PICK m \in Nat : m = kMaxNumericSize - 2 /\ m >= 1
    <3>1. kMaxNumericSize - 2 \in Nat /\ kMaxNumericSize - 2 >= 1
      BY StreamAssumption
    <3> QED BY <3>1
  <2>2. l < Pow(10, m) /\ Pow(10, m) \in Nat
    <3>1. Pow(10, m) \in Nat
      BY PowFacts
    <3>2. Pow(2, Width) <= Pow(10, m)
      BY <2>1, StreamAssumption
    <3>3. l + 1 <= Pow(10, m)
      BY <1>2, <3>2
    <3> QED BY <3>1, <3>3
  <2>3. n < Pow(10, m)
    BY <2>2
  <2>4. kMaxNumericSize \in Nat
    BY StreamAssumption
  <2> QED BY <1>4, <2>1, <2>3, <2>4
<1>6. PICK r \in Seq(0 .. 9) : r = Reverse(t) /\ Len(r) = Len(t)
  <2>1. PICK D : D = 0 .. 9
    OBVIOUS
  <2>2. t \in Seq(D) /\ 0 \in D
    BY <2>1
  <2>3. Reverse(t) \in Seq(D) /\ Len(Reverse(t)) = Len(t)
    BY <2>2, ReverseFacts
  <2> QED BY <2>1, <2>3
<1>7. r \in Seq(Nat) /\ r[1] \in 0 .. 9
  BY <1>4, <1>6
<1>8. CASE v < 0
  <2>1. t \in Seq(0 .. 16) /\ Minus \in 0 .. 16
    BY DEF Minus
  <2>2. convert(v) = Reverse(Append(t, Minus))
    <3>1. t \o <<Minus>> = Append(t, Minus)
      BY <2>1
    <3> QED BY <1>4, <1>8, <3>1 DEF convert
  <2>3. convert(v) = <<Minus>> \o r
    BY <1>6, <2>1, <2>2, ReverseFacts
  <2>4. /\ <<Minus>> \o r \in Seq(Nat) /\ Len(<<Minus>> \o r) = Len(t) + 1
        /\ (<<Minus>> \o r)[1] = Minus /\ Tail(<<Minus>> \o r) = r
    BY <1>6, <1>7 DEF Minus
  <2>5. ReadInt(convert(v)) = -n
    BY <1>4, <1>6, <2>3, <2>4 DEF ReadInt
  <2> QED BY <1>3, <1>5, <1>8, <2>3, <2>4, <2>5
<1>9. CASE ~(v < 0)
  <2>1. convert(v) = r
    <3>1. t \o <<>> = t
      OBVIOUS
    <3> QED BY <1>4, <1>6, <1>9, <3>1 DEF convert
  <2>2. r[1] # Minus
    BY <1>7 DEF Minus
  <2>3. ReadInt(r) = n
    BY <1>4, <1>6, <2>2 DEF ReadInt
  <2> QED BY <1>3, <1>5, <1>6, <1>7, <1>9, <2>1, <2>3
<1> QED BY <1>8, <1>9

(* What convertHex writes reads as the pointer, and there is room for it and *)
(* its prefix (LoggingStream.cc:39-51).                                      *)
LEMMA ConvertHexFacts ==
  ASSUME NEW p \in 0 .. UINTPTR_MAX
  PROVE  /\ convertHex(p) \in Seq(Nat) /\ Len(convertHex(p)) + 2 < kMaxNumericSize
         /\ Value(convertHex(p), 16) = p
<1>1. PICK N \in Nat : N = UINTPTR_MAX /\ N < Pow(2, Width)
  <2>1. Pow(2, Width) = UINTPTR_MAX + 1 /\ UINTPTR_MAX \in Nat
    <3>1. Pow(2, Width) \in Nat
      BY StreamAssumption, PowFacts
    <3> QED BY <3>1, LimitFacts DEF UINTPTR_MAX
  <2> QED BY <2>1
<1>2. PICK G : DigitsOf(G, N, 16) /\ lsdsHex[p] = G[p]
  BY <1>1, LsdsHexFacts
<1>3. PICK t \in Seq(0 .. 15) :
        /\ t = lsdsHex[p] /\ Len(t) >= 1 /\ Value(Reverse(t), 16) = p
        /\ \A m \in Nat : m >= 1 /\ p < Pow(16, m) => Len(t) <= m
  BY <1>1, <1>2, DigitsFacts
<1>4. Len(t) \in Nat /\ kMaxNumericSize \in Nat /\ Len(t) <= kMaxNumericSize - 3
  <2>1. PICK m \in Nat : m = kMaxNumericSize - 3 /\ m >= 1
    <3>1. kMaxNumericSize - 3 \in Nat /\ kMaxNumericSize - 3 >= 1
      BY StreamAssumption
    <3> QED BY <3>1
  <2>2. Pow(16, m) \in Nat /\ Pow(2, Width) \in Nat /\ Pow(2, Width) <= Pow(16, m)
    BY <2>1, StreamAssumption, PowFacts
  <2>3. p < Pow(16, m)
    BY <1>1, <2>2
  <2>4. kMaxNumericSize \in Nat
    BY StreamAssumption
  <2> QED BY <1>3, <2>1, <2>3, <2>4
<1>5. PICK r \in Seq(0 .. 15) : r = Reverse(t) /\ Len(r) = Len(t)
  <2>1. PICK D : D = 0 .. 15
    OBVIOUS
  <2>2. t \in Seq(D) /\ 0 \in D
    BY <2>1
  <2>3. Reverse(t) \in Seq(D) /\ Len(Reverse(t)) = Len(t)
    BY <2>2, ReverseFacts
  <2> QED BY <2>1, <2>3
<1>6. convertHex(p) = r
  BY <1>3, <1>5 DEF convertHex
<1>7. r \in Seq(Nat)
  OBVIOUS
<1> QED BY <1>3, <1>4, <1>5, <1>6, <1>7

(* A piece and what was written for it; a buffer that is not full.           *)
WrittenSet == [piece : Pieces \cup {Newline}, written : Seq(Nat)]
BufferSet == {b \in [length : Nat, pieces : Seq(WrittenSet)] : b.length < kMinBufferSize}

(* A piece shorter than the room that is left does not fill the buffer.      *)
LEMMA AddFacts ==
  ASSUME NEW b \in BufferSet, NEW piece \in Pieces \cup {Newline}, NEW w \in Seq(Nat),
         NEW len \in Nat, len < avail(b)
  PROVE  /\ add(b, piece, w, len) \in BufferSet
         /\ Last(add(b, piece, w, len).pieces).piece = piece
<1>1. PICK n \in Nat, q \in Seq(WrittenSet) : n = b.length /\ q = b.pieces /\ n < kMinBufferSize
  BY DEF BufferSet
<1>2. kMinBufferSize \in Nat
  BY StreamAssumption
<1>3. n + len \in Nat /\ n + len < kMinBufferSize
  BY <1>1, <1>2 DEF avail
<1>4. PICK e \in WrittenSet : e = [piece |-> piece, written |-> w]
  BY DEF WrittenSet
<1>5. Append(q, e) \in Seq(WrittenSet) /\ Last(Append(q, e)) = e
  BY DEF Last
<1>6. add(b, piece, w, len) = [length |-> n + len, pieces |-> Append(q, e)]
  BY <1>1, <1>4 DEF add
<1>7. add(b, piece, w, len).pieces = Append(q, e) /\ add(b, piece, w, len).length = n + len
  BY <1>6
<1>8. e.piece = piece
  BY <1>4
<1>9. add(b, piece, w, len) \in [length : Nat, pieces : Seq(WrittenSet)]
  BY <1>3, <1>5, <1>6
<1> QED BY <1>3, <1>5, <1>7, <1>8, <1>9 DEF BufferSet

(* Whatever is put in, the buffer is not filled; and a newline is its last   *)
(* piece, or there was no room for it (LoggingStream.h:20-31,                *)
(* LoggingStream.cc:53-59, 99-110).                                          *)
LEMMA PutFacts ==
  ASSUME NEW b \in BufferSet, NEW piece \in Pieces \cup {Newline}
  PROVE  /\ Put(b, piece) \in BufferSet
         /\ piece = Newline => \/ Last(Put(b, piece).pieces).piece = Newline
                               \/ Put(b, piece).length = kMinBufferSize - 1
<1>1. b.length \in Nat /\ b.length < kMinBufferSize /\ kMinBufferSize \in Nat /\ kMaxNumericSize \in Nat
  BY StreamAssumption DEF BufferSet
<1>2. <<>> \in Seq(Nat)
  OBVIOUS
<1>3. CASE piece.type = "text"
  <2>1. Put(b, piece) = append(b, piece)
    BY <1>3 DEF Put
  <2>2. piece.len \in Nat
    BY <1>3 DEF Pieces, Newline
  <2>3. CASE avail(b) > piece.len
    <3>1. piece.len < avail(b)
      BY <1>1, <2>2, <2>3 DEF avail
    <3>2. PICK len \in Nat, w \in Seq(Nat) : len = piece.len /\ w = <<>>
      BY <1>2, <2>2
    <3>3. Put(b, piece) = add(b, piece, w, len)
      BY <2>1, <2>3, <3>2 DEF append
    <3>4. len < avail(b)
      BY <3>1, <3>2
    <3>5. Put(b, piece) \in BufferSet /\ Last(Put(b, piece).pieces).piece = piece
      BY <3>3, <3>4, AddFacts
    <3> QED BY <3>5
  <2>4. CASE ~(avail(b) > piece.len)
    <3>1. Put(b, piece) = b
      BY <2>1, <2>4 DEF append
    <3>2. piece = Newline => b.length = kMinBufferSize - 1
      BY <1>1, <2>4 DEF avail, Newline
    <3> QED BY <3>1, <3>2
  <2> QED BY <2>3, <2>4
<1>4. CASE piece.type = "int"
  <2>1. Put(b, piece) = formatInteger(b, piece) /\ piece # Newline
    BY <1>4 DEF Put, Newline
  <2>2. piece.value \in INT_MIN .. UINTPTR_MAX
    BY <1>4 DEF Pieces, Newline
  <2>3. PICK w \in Seq(Nat) : w = convert(piece.value) /\ Len(w) < kMaxNumericSize
    BY <2>2, ConvertFacts
  <2>4. CASE avail(b) >= kMaxNumericSize
    <3>1. Len(w) \in Nat /\ Len(w) < avail(b)
      BY <1>1, <2>3, <2>4 DEF avail
    <3>2. Put(b, piece) = add(b, piece, w, Len(w))
      BY <2>1, <2>3, <2>4 DEF formatInteger
    <3> QED BY <2>1, <3>1, <3>2, AddFacts
  <2>5. CASE ~(avail(b) >= kMaxNumericSize)
    BY <2>1, <2>5 DEF formatInteger
  <2> QED BY <2>4, <2>5
<1>5. CASE piece.type = "pointer"
  <2>1. Put(b, piece) = formatPointer(b, piece) /\ piece # Newline
    BY <1>5 DEF Put, Newline
  <2>2. piece.value \in 0 .. UINTPTR_MAX
    BY <1>5 DEF Pieces, Newline
  <2>3. PICK h \in Seq(Nat) : h = convertHex(piece.value) /\ Len(h) + 2 < kMaxNumericSize
    BY <2>2, ConvertHexFacts
  <2>4. PICK w \in Seq(Nat) : w = <<0, X>> \o h /\ Len(w) = Len(h) + 2
    <3>1. <<0, X>> \o h \in Seq(Nat) /\ Len(<<0, X>> \o h) = Len(h) + 2
      BY DEF X
    <3> QED BY <3>1
  <2>5. CASE avail(b) >= kMaxNumericSize
    <3>1. Len(w) \in Nat /\ Len(w) < avail(b)
      BY <1>1, <2>3, <2>4, <2>5 DEF avail
    <3>2. Put(b, piece) = add(b, piece, w, Len(w))
      BY <2>1, <2>3, <2>4, <2>5 DEF formatPointer
    <3> QED BY <2>1, <3>1, <3>2, AddFacts
  <2>6. CASE ~(avail(b) >= kMaxNumericSize)
    BY <2>1, <2>6 DEF formatPointer
  <2> QED BY <2>5, <2>6
<1>6. piece.type \in {"text", "int", "pointer"}
  BY DEF Pieces, Newline
<1> QED BY <1>3, <1>4, <1>5, <1>6

(* The function that Puts is the last value of.                              *)
PutsTo(b, s) ==
  CHOOSE f : f = [n \in 0 .. Len(s) |-> IF n = 0 THEN b ELSE Put(f[n - 1], s[n])]

(* Puts is the last value of PutsTo.                                         *)
LEMMA PutsIs == ASSUME NEW b, NEW s PROVE Puts(b, s) = PutsTo(b, s)[Len(s)]
BY DEF Puts, PutsTo

(* Any number of pieces does not fill the buffer, and the last is put into   *)
(* one that is not full.                                                     *)
LEMMA PutsFacts ==
  ASSUME NEW b \in BufferSet, NEW s \in Seq(Pieces \cup {Newline})
  PROVE  /\ Puts(b, s) \in BufferSet
         /\ s # <<>> => \E c \in BufferSet : Puts(b, s) = Put(c, s[Len(s)])
<1>1. PICK n \in Nat : n = Len(s) /\ (s # <<>> => n > 0) /\ \A i \in 1 .. n : s[i] \in Pieces \cup {Newline}
  OBVIOUS
<1> DEFINE F == [i \in 1 .. n |-> [x \in BufferSet |-> Put(x, s[i])]]
           p == PutsTo(b, s)
<1>2. \A x \in BufferSet : \A i \in 1 .. n : Put(x, s[i]) \in BufferSet
  BY <1>1, PutFacts
<1>3. F \in [1 .. n -> [BufferSet -> BufferSet]]
  BY <1>2
<1>4. PICK f \in [0 .. n -> BufferSet] : Steps(f, b, n, F)
  <2> HIDE DEF F
  <2> QED BY <1>3, Iteration
<1>5. f = [i \in 0 .. n |-> IF i = 0 THEN b ELSE Put(f[i - 1], s[i])]
  <2>1. ASSUME NEW i \in 1 .. n PROVE f[i] = Put(f[i - 1], s[i])
    <3>1. f[i] = F[i][f[i - 1]]
      <4> HIDE DEF F
      <4> QED BY <1>4 DEF Steps
    <3>2. i - 1 \in 0 .. n /\ f[i - 1] \in BufferSet
      OBVIOUS
    <3> QED BY <3>1, <3>2
  <2> QED BY <1>4, <2>1 DEF Steps
<1>6. p = [i \in 0 .. n |-> IF i = 0 THEN b ELSE Put(p[i - 1], s[i])]
  BY <1>1, <1>5 DEF PutsTo
<1> HIDE DEF p
<1>7. p[0] = b /\ \A i \in 1 .. n : p[i] = Put(p[i - 1], s[i])
  BY <1>6
<1>8. \A i \in 0 .. n : p[i] \in BufferSet
  <2> DEFINE T == {i \in 0 .. n : p[i] \in BufferSet}
  <2>1. 0 \in T /\ \A i \in 1 .. n : i - 1 \in T => i \in T
    BY <1>2, <1>7
  <2> HIDE DEF T
  <2>2. \A i \in 0 .. n : i \in T
    BY <2>1, Induction
  <2> QED BY <2>2 DEF T
<1>9. Puts(b, s) = p[n]
  BY <1>1, PutsIs DEF p
<1>10. n > 0 => n - 1 \in 0 .. n /\ n \in 1 .. n
  OBVIOUS
<1> QED BY <1>1, <1>7, <1>8, <1>9, <1>10

(* Numbers and pointers, as the stream writes them, read as what they were.  *)
LEMMA NumbersAreExact == NumbersExact
<1>1. ASSUME NEW p \in 0 .. UINTPTR_MAX
      PROVE  ReadPointer(formatPointer(Empty, Pointer(p)).pieces[1].written) = p
  <2>1. PICK h \in Seq(Nat) : h = convertHex(p) /\ Value(h, 16) = p
    BY ConvertHexFacts
  <2>2. PICK w \in Seq(Nat) : w = <<0, X>> \o h
    <3>1. <<0, X>> \o h \in Seq(Nat)
      BY DEF X
    <3> QED BY <3>1
  <2>3. SubSeq(w, 3, Len(w)) = h
    <3>1. Len(<<0, X>>) = 2 /\ <<0, X>> \in Seq(Nat)
      BY DEF X
    <3>2. /\ Len(w) = Len(h) + 2 /\ Len(h) \in Nat
          /\ \A i \in 1 .. Len(h) : w[i + 2] = h[i]
      BY <2>2, <3>1
    <3>3. PICK q : q = SubSeq(w, 3, Len(w))
      OBVIOUS
    <3>4. q \in Seq(Nat) /\ Len(q) = Len(h) /\ \A i \in 1 .. Len(h) : q[i] = w[i + 2]
      BY <3>2, <3>3
    <3> QED BY <3>2, <3>3, <3>4, SeqEqual
  <2>4. avail(Empty) >= kMaxNumericSize
    <3>1. kMinBufferSize >= kMaxNumericSize /\ kMinBufferSize \in Nat
      BY StreamAssumption
    <3> QED BY <3>1 DEF avail, Empty
  <2>5. Pointer(p).value = p
    BY DEF Pointer
  <2>6. formatPointer(Empty, Pointer(p)) = add(Empty, Pointer(p), w, Len(w))
    BY <2>1, <2>2, <2>4, <2>5 DEF formatPointer
  <2>7. add(Empty, Pointer(p), w, Len(w)).pieces[1].written = w
    BY DEF add, Empty
  <2> QED BY <2>1, <2>3, <2>6, <2>7 DEF ReadPointer
<1> QED BY <1>1, ConvertFacts DEF NumbersExact

(* A message, whatever the statement puts in, does not fill its buffer and   *)
(* ends with a newline, unless there was no room for it.                     *)
LEMMA MessagesDoEnd == MessagesEnd
<1> SUFFICES ASSUME NEW s \in Statements
             PROVE  /\ Message(s).length < kMinBufferSize
                    /\ \/ Last(Message(s).pieces).piece = Newline
                       \/ Message(s).length = kMinBufferSize - 1
  BY DEF MessagesEnd
<1>1. Empty \in BufferSet
  <2>1. kMinBufferSize > 0
    BY StreamAssumption
  <2> QED BY <2>1 DEF Empty, BufferSet
<1>2. /\ Text(HeaderLen) \in Pieces /\ Text(1) \in Pieces /\ Text(BasenameLen) \in Pieces
      /\ Int10(LineNumber) \in Pieces
  <2>1. PICK l \in Nat : INT_MIN = -l /\ INT_MAX = l - 1 /\ UINTPTR_MAX = 2 * l - 1
    BY LimitFacts
  <2>2. LineNumber \in -l .. l - 1
    BY <2>1, LoggerAssumption
  <2>3. LineNumber \in -l .. 2 * l - 1
    BY <2>2
  <2>4. LineNumber \in INT_MIN .. UINTPTR_MAX
    BY <2>1, <2>3
  <2> QED BY <2>4, LoggerAssumption DEF Text, Int10, Pieces
<1>3. Impl \in BufferSet
  BY <1>1, <1>2, PutFacts DEF Impl
<1>4. s \in Seq(Pieces \cup {Newline})
  <2>1. s \in Seq(Pieces)
    BY LoggerAssumption
  <2> QED BY <2>1
<1>5. PICK b \in BufferSet : b = Puts(Impl, s)
  BY <1>3, <1>4, PutsFacts
<1>6. PICK q \in Seq(Pieces \cup {Newline}) :
        /\ q = <<Text(1), Text(BasenameLen), Text(1), Int10(LineNumber), Newline>>
        /\ Len(q) = 5 /\ q # <<>> /\ q[5] = Newline
  <2>1. PICK P : P = Pieces \cup {Newline}
    OBVIOUS
  <2>2. PICK d \in P, e \in P, f \in P, g \in P :
          d = Text(1) /\ e = Text(BasenameLen) /\ f = Int10(LineNumber) /\ g = Newline
    BY <1>2, <2>1
  <2>3. <<d, e, d, f, g>> \in Seq(P) /\ Len(<<d, e, d, f, g>>) = 5 /\ <<d, e, d, f, g>>[5] = g
    OBVIOUS
  <2>4. <<d, e, d, f, g>> # <<>>
    OBVIOUS
  <2> QED BY <2>1, <2>2, <2>3, <2>4
<1>7. PICK c \in BufferSet : Message(s) = Put(c, Newline)
  BY <1>5, <1>6, PutsFacts DEF Message, finish
<1> QED BY <1>7, PutFacts DEF BufferSet

(* Of any number of bits and for any size of the buffer, what the log has in *)
(* it is what the statements said: every integer, the smallest too, is       *)
(* written shorter than kMaxNumericSize and reads as what it was, every      *)
(* pointer too, and no message fills its buffer or, if there was room for    *)
(* one character, lacks its newline (LoggingStream.h:20-31,                  *)
(* LoggingStream.cc:20-59, 99-110, 122-128, Logging.cc:100).                 *)
THEOREM LinesCorrect == Spec => []LineFaithful
<1>1. LineFaithful
  BY NumbersAreExact, MessagesDoEnd DEF LineFaithful
<1> QED BY <1>1, PTL
=============================================================================
