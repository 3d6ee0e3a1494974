CONSTANTS
  l1 = l1
  l2 = l2
  l3 = l3
  l4 = l4
  l5 = l5
  big = big
  Big <- MCBig
  Line <- MCLine
  Size = 2
  rollSize_ = 1
  flushInterval_ = 0
  checkEveryN_ = 2
  kRollPerSeconds_ = 2
  FileBuffer = 1
  LastTime = 3
  LastLine = 3
  Restarts = 1
  SetBacks = 1
SPECIFICATION MCSpec
INVARIANTS
  BuffersSuffice
  InOrder
  
  PeriodRolled
PROPERTIES
  LinesWritten
CHECK_DEADLOCK FALSE
