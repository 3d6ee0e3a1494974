CONSTANTS
  Byte <- MCByte
  Zero = 0
  kCheapPrepend = 2
  kInitialSize = 2
  kExtraBufferSize = 2
  MaxData = 2
  MaxContents = 4
  MaxNodes = 4
  AttributeValue = {1}
SPECIFICATION MCSpec
INVARIANTS
  HoldsContents
  WalksAgree
  SavedIsRead
  NeverHalfConfig

  
CHECK_DEADLOCK FALSE
