SPECIFICATION FairSpec
CONSTANTS
  INST_MEM_SIZE = 12
  DATA_MEM_SIZE = 2048
  STRAY_BYTES <- MCStrayBytes
  Programs <- MCPrograms
  DataImages <- MCDataImages
INVARIANT TypeOK
INVARIANT StallHasTransfer
INVARIANT SecondByteFollows
PROPERTY ImplementsIsa
PROPERTY FetchResumes
