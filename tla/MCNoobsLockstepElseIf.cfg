SPECIFICATION LockstepSpec
CONSTANTS
  INST_MEM_SIZE = 28
  DATA_MEM_SIZE = 2048
  RTL_DATA_MEM_SIZE = 4096
  PC_SPACE = 32
  FLOATING_BUS = 90
  STRAY_BYTES <- MCStrayBytes
  UNSET_BYTES <- MCUnsetBytes
  Programs <- MCElseIf
  DataImages <- MCDataImages
INVARIANT SameDataOut
