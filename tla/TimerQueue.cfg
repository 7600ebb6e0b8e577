\* Three timers (one repeats), times 0 (invalid) to 4, the clock set once.
SPECIFICATION FairSpec
CONSTANTS
  Timers = {1, 2, 3}
  Interval <- MCInterval
  MaxTime = 4
  MaxJumps = 1
INVARIANTS
  TypeOK
  ListedTimerArmed
  CountdownNotLate
PROPERTIES
  RunsSpaced
  EveryTimerFires
