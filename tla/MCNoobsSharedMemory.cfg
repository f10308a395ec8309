SPECIFICATION FairSpec
CONSTANTS
  SHM_SIZE = 3
  BYTES = {0, 1}
  CPU_CELLS <- MCCpuCells
  INPUT_BYTES = 2
  INPUT_CELLS <- MCInputCells
  MAX_RUNS = 2
INVARIANT TypeOK
INVARIANT MergeAgrees
PROPERTY OwnStoresStay
PROPERTY InputNotUndone
PROPERTY InputArrives
PROPERTY FrameArrives
