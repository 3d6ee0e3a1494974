SPECIFICATION MCSpec
CONSTANTS
  fd1 = fd1
  fd2 = fd2
  fd3 = fd3
  NoFd = NoFd
  n1 = n1
  n2 = n2
  NoNumber = NoNumber
  Fd <- MCFd
  Number <- MCNumber
  MaxClients = 3
  MaxOpens = 2
  Calls <- MCStops
  MaxCalls = 3
INVARIANTS  DescriptorsOwned
PROPERTIES TriesAgain BacklogServed
CHECK_DEADLOCK FALSE
