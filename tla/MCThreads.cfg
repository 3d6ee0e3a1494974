CONSTANTS
  t1 = t1
  t2 = t2
  c1 = c1
  c2 = c2
  k1 = k1
  k2 = k2
  k3 = k3
  k4 = k4
  owner = owner
  f1 = f1
  f2 = f2
  NoTask = NoTask
  Thread <- MCThread
  Caller <- MCCaller
  Task <- MCTask
  maxQueueSize_ = 1
SPECIFICATION MCSpec
INVARIANTS
  NotificationsKept
  OwnerOutlivesThread
PROPERTIES
  TasksRun
  
CHECK_DEADLOCK FALSE
