SPECIFICATION FairSpec
CONSTANTS
  BOARDS <- MCBoards
  TX_ACC_MAX = 4
  MIN_FAST = 1
  MAX_FAST = 3
  Bytes = {0, 83, 255}
  MAX_BYTES = 3
INVARIANT TypeOK
INVARIANT IdleMeansFree
PROPERTY ImplementsChannel
PROPERTY AllArrive
