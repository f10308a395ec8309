SPECIFICATION FairToolSpec
CONSTANTS
  INST_MEM_SIZE = 1024
  DATA_MEM_SIZE = 2048
  STRAY_BYTES <- MCStrayBytes
  FUEL = 60
  MAX_TEXT = 8
  MAX_TOKENS = 30
  Sources <- MCSources
  Assemblies <- MCAssemblies
INVARIANT TokensAreLexemes
INVARIANT TreeIsTheGrammars
INVARIANT AnalysedNeverGoesWrong
INVARIANT CrashesAreKnown
INVARIANT GeneratedAssembles
INVARIANT LabelsAreWhereBytesAre
INVARIANT RunsAsWritten
PROPERTY ProgramsHalt
CHECK_DEADLOCK FALSE
