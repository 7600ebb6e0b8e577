\* Three threads and four mutexes, two of them at the same place of the hierarchy.
SPECIFICATION Spec
CONSTANTS
  Threads = {t1, t2, t3}
  Mutexes <- MCMutexes
  hierarchy_value <- MCValues
  ULONG_MAX = 5
  NoThread = NoThread
INVARIANTS
  NoWaitCycle
  LevelIsLowestHeld
