SPECIFICATION ToolSpec
CONSTANTS
  INST_MEM_SIZE = 1024
  DATA_MEM_SIZE = 2048
  STRAY_BYTES <- MCStrayBytes
  FUEL = 60
  MAX_TEXT = 8
  MAX_TOKENS = 30
  Sources <- MCCallSources
  Assemblies <- MCNoAssemblies
INVARIANT RunsAsWrittenAnyway
CHECK_DEADLOCK FALSE
