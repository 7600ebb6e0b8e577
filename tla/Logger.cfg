\* Two threads, lines of 15 and 29 characters, files of three to five lines, days of
\* four seconds.
SPECIFICATION Spec
CONSTANTS
  Threads = {t1, t2}
  Statements <- MCStatements
  kMinBufferSize = 30
  kMaxNumericSize = 6
  Width = 8
  HeaderLen = 5
  BasenameLen = 2
  LineNumber = 7
  rollSize_ = 88
  flushInterval_ = 1
  kCheckTimeRoll_ = 1
  kRollPerSeconds_ = 4
  BufferSize = 75
  MaxTime = 4
  MaxLines = 5
  MaxSetBacks = 1
SYMMETRY Symmetry
INVARIANTS
  LineFaithful
  LogReadsInOrder
  RolledInTime
  FlushLag
  FatalOnDisk
CHECK_DEADLOCK FALSE
