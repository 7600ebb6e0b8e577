\* The comment of queueInLoop's wakeup test against the test.
SPECIFICATION Spec
CONSTANTS
  LoopThread = loopThread
  Users = {u1}
  Functors = {f1}
  MaxLoops = 1
  MaxQuits = 0
INVARIANT NonLoopThreadWakesLoop
CHECK_DEADLOCK FALSE
