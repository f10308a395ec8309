SPECIFICATION FairStackSpec
CONSTANTS
  INST_MEM_SIZE = 24
  DATA_MEM_SIZE = 4096
  PC_SPACE = 32
  FLOATING_BUS = 90
  STRAY_BYTES <- MCStrayBytes
  Programs <- MCPrograms
  DataImages <- MCDataImages
INVARIANT TypeOK
PROPERTY ImplementsIsa
INVARIANT DataBusExclusive
INVARIANT SecondByteFollows
PROPERTY ReturnCompletes
PROPERTY ReturnsMatch
INVARIANT BranchSeesLatestFlags
INVARIANT NothingBehindHalt
