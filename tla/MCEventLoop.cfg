CONSTANTS
  t1 = t1
  t2 = t2
  f1 = f1
  f2 = f2
  f3 = f3
  c1 = c1
  Thread <- MCThread
  Functor <- MCFunctor
  Channel <- MCChannel
  EventfdMax = 2
SPECIFICATION FairSpec
INVARIANTS
  NoLostWakeup
PROPERTIES
  QueueRefined
  FunctorsRun
  QuitStops
CHECK_DEADLOCK FALSE
