\* Two user threads, two functors so that one can overtake the other, loop()
\* called twice, two quits.
SPECIFICATION FairSpec
CONSTANTS
  LoopThread = loopThread
  Users = {u1, u2}
  Functors = {f1, f2}
  MaxLoops = 2
  MaxQuits = 2
INVARIANTS
  FunctorsInOrder
  OwnFunctorsNeverWait
  QuitNeverWaits
PROPERTY QueuedEventuallyRuns
CHECK_DEADLOCK FALSE
