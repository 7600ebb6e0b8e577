\* One owner, one functor, as in test4.cc; the loop runs once, one quit may come
\* from the owner and one from a callback.
SPECIFICATION SpecThread
CONSTANTS
  LoopThread = loopThread
  Owner = owner
  Users = {owner}
  Functors = {f1}
  MaxLoops = 1
  MaxQuits = 2
INVARIANT StartedLoopLives
PROPERTIES
  StartLoopReturns
  QuitEndsThread
CHECK_DEADLOCK FALSE
