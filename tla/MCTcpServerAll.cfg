CONSTANTS
  c1 = c1
  c2 = c2
  w1 = w1
  NoConn = NoConn
  Conn <- MCOneConn
  Worker <- MCWorker
  Calls <- AllCalls
  MaxIn = 2
  MaxPending = 3
SPECIFICATION FairSpec

  
  
PROPERTY
  ClosedIsDestroyed
CHECK_DEADLOCK FALSE
