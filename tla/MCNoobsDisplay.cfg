SPECIFICATION FairSpec
CONSTANTS
  NUM_ROWS = 2
  NUM_COLS = 3
  ROW_SPACE = 4
  COL_SPACE = 4
  BLANK = 32
  CR = 13
  NUL = 0
  Chars = {32, 65}
  Rows = {1, 3}
  Cols = {0, 3}
INVARIANT TypeOK
INVARIANT ClearedMeansBlank
PROPERTY ImplementsTerminal
PROPERTY ClearFinishes
