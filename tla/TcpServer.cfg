\* Two connections, one after the other on the same descriptor, the second one
\* finding none free while the first lives; another thread sends and shuts down too.
SPECIFICATION Spec
CONSTANTS
  MaxConns = 2
  NumFds = 1
  SndBuf = 1
  MaxSends = 2
  NumThreads = 0
  Senders = {s1}
  MaxIn = 1
INVARIANTS
  NoFault
  EpollAgrees
  WireInOrder
  ShutdownFlushes
  UpThenDown
CHECK_DEADLOCK FALSE
