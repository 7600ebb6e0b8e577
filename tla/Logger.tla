------------------------------- MODULE Logger -------------------------------
(***************************************************************************)
(* Logging: threads execute LOG_ statements that pass the log level.  The  *)
(* stream of a statement is its own, so that it makes no difference when   *)
(* the line is put together: it is in the step in which ~Logger gives it   *)
(* to g_output, which is LogFile::append.  A FATAL one then calls g_flush, *)
(* LogFile::flush, and aborts the program.                                 *)
(***************************************************************************)
EXTENDS LoggingStream, LogFile

CONSTANTS
  Statements,   \* what the statements put into their stream: sequences of pieces
  HeaderLen,    \* time, thread and level
  BasenameLen,  \* the name of the source file
  LineNumber    \* and the line in it

ASSUME LoggerAssumption ==
  /\ Statements \subseteq Seq(Pieces)
  /\ {HeaderLen, BasenameLen} \subseteq Nat
  /\ LineNumber \in INT_MIN .. INT_MAX

VARIABLES
  pc,     \* of each thread: "run", "flush" (g_flush is next), "aborted"
  fatal   \* of each thread: where its FATAL line is, the file and its place in it

loggerVars == <<pc, fatal>>
vars == <<fileVars, loggerVars>>

Init ==
  /\ FileInit
  /\ pc = [t \in Threads |-> "run"]
  /\ fatal = [t \in Threads |-> [file |-> 1, line |-> 0]]

Goto(t, where) == pc' = [pc EXCEPT ![t] = where]

(* Where the next line is put.                                               *)
NextPlace == [file |-> Len(files), line |-> Len(Content(Last(files))) + 1]

TotalLines == FoldLeft(LAMBDA n, f : n + Len(Content(f)), 0, files)

-----------------------------------------------------------------------------
Newline == [type |-> "text", len |-> 1, text |-> "newline"]

(* Logger::Impl: formatTime, the thread and the level.                       *)
Impl == Put(Empty, Text(HeaderLen))

finish(b) ==
  Puts(b, <<Text(1), Text(BasenameLen), Text(1), Int10(LineNumber), Newline>>)

Message(s) == finish(Puts(Impl, s))

(* A statement of some level, and ~Logger up to the end of g_output.         *)
Log(t) ==
  /\ pc[t] = "run" /\ TotalLines < MaxLines
  /\ \E s \in Statements : AppendLine(t, Message(s).length)
  /\ \/ UNCHANGED loggerVars
     \/ Goto(t, "flush") /\ fatal' = [fatal EXCEPT ![t] = NextPlace]

(* Fault: a FATAL statement aborts without g_flush().                        *)
Abort_NoFlush(t) ==
  /\ pc[t] = "flush" /\ rolling # t
  /\ Goto(t, "aborted")
  /\ UNCHANGED <<fileVars, fatal>>

(* The end of ~Logger: g_flush() and abort().                                *)
Abort(t) ==
  /\ pc[t] = "flush"
  /\ flush
  /\ Goto(t, "aborted")
  /\ UNCHANGED fatal

Roll(t) == rollFile(t) /\ UNCHANGED loggerVars

-----------------------------------------------------------------------------
Aborted == \E t \in Threads : pc[t] = "aborted"

Next ==
  /\ ~Aborted
  /\ \/ \E t \in Threads : Log(t) \/ Roll(t) \/ Abort(t)
     \/ (Tick \/ SetBack) /\ UNCHANGED loggerVars

Spec == Init /\ [][Next]_vars

-----------------------------------------------------------------------------
(* Properties.                                                               *)

NumbersExact ==
  /\ \A v \in INT_MIN .. UINTPTR_MAX :
       ReadInt(convert(v)) = v /\ Len(convert(v)) < kMaxNumericSize
  /\ \A p \in 0 .. UINTPTR_MAX :
       ReadPointer(formatPointer(Empty, Pointer(p)).pieces[1].written) = p

MessagesEnd ==
  \A s \in Statements :
    LET b == Message(s)
    IN  /\ b.length < kMinBufferSize
        /\ Last(b.pieces).piece = Newline \/ b.length = kMinBufferSize - 1

(* What the log has in it is what the statements said. A number, signed or   *)
(* unsigned, the smallest too, is shorter than the room it needs and         *)
(* reads as what it was; no message fills its buffer, whatever is put in,    *)
(* and it ends with its newline, unless there was no room for one character  *)
(* (LoggingStream.h:20-31, LoggingStream.cc:20-59, 99-110, Logging.cc:100).  *)
LineFaithful == TotalLines > 0 => NumbersExact /\ MessagesEnd

(* Whenever the program is killed, the files, read in the order of their     *)
(* names, are the log up to some line: no file is opened twice or is older   *)
(* by name than one before it, even if the clock was set back, and nothing   *)
(* is on the disk that comes after a line that is not                        *)
(* (LogFile.cc:13-22, 122-133).                                              *)
LogReadsInOrder ==
  \A i, j \in DOMAIN files : i < j =>
    /\ files[i].name < files[j].name
    /\ files[i].buf # <<>> => files[j].disk = <<>>

(* A file is longer than rollSize_ by more than its last line only from      *)
(* lines of the second it was opened in; and it has at most                  *)
(* kCheckTimeRoll_ + 2 lines of another day than its own                     *)
(* (LogFile.cc:100-120, 127).                                                *)
RolledInTime ==
  setBacks = 0 => \A n \in DOMAIN files :
    LET f == files[n]
        lines == Content(f)
    IN  /\ \A i \in 2 .. Len(lines) :
             Bytes(SubSeq(lines, 1, i - 1)) > rollSize_ => lines[i - 1].time = f.name
        /\ Cardinality({i \in DOMAIN lines :
                          StartOfPeriod(lines[i].time) # StartOfPeriod(f.name)})
             <= kCheckTimeRoll_ + 2

(* A line is on the disk before kCheckTimeRoll_ + 2 lines have been appended *)
(* more than flushInterval_ seconds after it: so much, and no more, is lost  *)
(* when the program crashes (LogFile.cc:103-118).                            *)
FlushLag ==
  setBacks = 0 /\ rolling = "none" =>
    LET lines == Content(Last(files))
    IN  \A i \in Len(Last(files).disk) + 1 .. Len(lines) :
          Cardinality({j \in i .. Len(lines) : lines[j].time - lines[i].time > flushInterval_})
            <= kCheckTimeRoll_ + 1

(* When a FATAL statement aborts the program, its line is on the disk with   *)
(* all that were before it, also if another thread rolls the file between    *)
(* its g_output and its g_flush (Logging.cc:126-136, LogFile.cc:91-98, 131). *)
FatalOnDisk ==
  \A t \in Threads : pc[t] = "aborted" =>
    /\ fatal[t].line <= Len(files[fatal[t].file].disk)
    /\ \A i \in DOMAIN files : i < fatal[t].file => files[i].buf = <<>>
=============================================================================
