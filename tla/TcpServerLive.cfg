\* Two connections at the same time, whose callbacks send on and shut down each
\* other, with fairness.
SPECIFICATION FairSpec
CONSTANTS
  MaxConns = 2
  NumFds = 2
  SndBuf = 1
  MaxSends = 1
  NumThreads = 0
  Senders = {}
  MaxIn = 0
INVARIANT NoFault
PROPERTIES
  PeerGoneConnGoes
  WaitingAccepted
  ShutdownSendsFin
