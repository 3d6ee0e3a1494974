SPECIFICATION FairSpec
CONSTANTS
  c1 = c1
  c2 = c2
  w1 = w1
  w2 = w2
  NoConn = NoConn
  Conn <- MCConn
  Worker <- MCWorker
  Pieces <- MCWhole
INVARIANTS  ResponseMeansExecuted
PROPERTY RequestsServed
CHECK_DEADLOCK FALSE
