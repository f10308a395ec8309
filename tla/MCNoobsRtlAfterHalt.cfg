SPECIFICATION StackSpec
CONSTANTS
  INST_MEM_SIZE = 10
  DATA_MEM_SIZE = 4096
  PC_SPACE = 16
  FLOATING_BUS = 90
  STRAY_BYTES <- MCStrayBytes
  Programs <- MCHaltPrograms
  DataImages <- MCDataImages
PROPERTY HaltStops
