CONSTANTS
  k1 = k1
  k2 = k2
  Timer <- MCTimer
  Delay <- MCDelay
  Interval <- MCInterval
  MaxDelay = 2
  MaxSets = 1
SPECIFICATION FairSpec
INVARIANTS
  TimerOwned
  ArmedInTime
  CancelledStays
PROPERTY
  TimersRun
CHECK_DEADLOCK FALSE
