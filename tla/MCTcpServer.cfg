CONSTANTS
  c1 = c1
  c2 = c2
  w1 = w1
  NoConn = NoConn
  Conn <- MCConn
  Worker <- MCWorker
  Calls <- SafeCalls
  MaxIn = 1
  MaxPending = 2
SPECIFICATION Spec
INVARIANTS
  AssertionsHold
  NoDeadChannel
SYMMETRY MCSymmetry
CHECK_DEADLOCK FALSE
