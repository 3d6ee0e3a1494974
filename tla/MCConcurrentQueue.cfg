SPECIFICATION MCSpec
CONSTANTS
  Producer = {p1, p2}
  Consumer = {c1, c2}
  Waiter = {c1, c2}
  Signaller = {p1, p2}
  BLOCK_SIZE = 2
  IMPLICIT_INITIAL_INDEX_SIZE = 2
  IndexMod = 16
  Pool = {b1, b2}
  Heap = {b3}
  MaxItems = 3
  Bulk = {3}
  MaxGets = 1
  MaxPuts = 2
  Active = p1
  Other = p2
  Thread = {t1, t2, t3}
  Node = {n1, n2}
  FirstHash = t1
  SecondHash = t2
INVARIANTS ElementsInOrder RightsBacked BlocksOwned NobodyForgotten NodesKept OwnProducer
SYMMETRY ConsumerSymmetry
CHECK_DEADLOCK FALSE
