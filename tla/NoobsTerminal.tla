---------------------------- MODULE NoobsTerminal ----------------------------
(***************************************************************************)
(* What a program sees of the Nexys A7's text display: every store takes   *)
(* effect at once. Printing moves the cursor, then draws; a carriage       *)
(* return starts the next line; in programmed mode characters go where the *)
(* program says; clearing blanks the cells of the screen one by one.       *)
(***************************************************************************)
EXTENDS Naturals

CONSTANTS NUM_ROWS, NUM_COLS, ROW_SPACE, COL_SPACE, BLANK, Chars

VARIABLES screen, mode, row, col

terminalVars == <<screen, mode, row, col>>

Cells == (0 .. NUM_ROWS - 1) \X (0 .. NUM_COLS - 1)

\* A screen with one more character on it; what is off the screen is not seen.
Draw(s, cell, ch) == [c \in Cells |-> IF c = cell THEN ch ELSE s[c]]

NextRow(r) == IF r = NUM_ROWS - 1 THEN 0 ELSE (r + 1) % ROW_SPACE
NextCol(c) == IF c = NUM_COLS - 1 THEN 0 ELSE (c + 1) % COL_SPACE

TerminalInit ==
  /\ \E ch \in Chars : screen = [c \in Cells |-> ch]
  /\ mode \in {"AUTO", "PROG"} /\ row = 0 /\ col = 0

PrintChar ==
  /\ mode = "AUTO"
  /\ col' = NextCol(col)
  /\ \E ch \in Chars : screen' = Draw(screen, <<row, col'>>, ch)
  /\ UNCHANGED <<mode, row>>

CarriageReturn ==
  /\ mode = "AUTO"
  /\ row' = NextRow(row) /\ col' = 0
  /\ UNCHANGED <<screen, mode>>

Move ==
  /\ mode = "PROG"
  /\ \/ row' \in 0 .. ROW_SPACE - 1 /\ UNCHANGED col
     \/ col' \in 0 .. COL_SPACE - 1 /\ UNCHANGED row
  /\ UNCHANGED <<screen, mode>>

Place ==
  /\ mode = "PROG"
  /\ \E ch \in Chars : screen' = Draw(screen, <<row, col>>, ch)
  /\ UNCHANGED <<mode, row, col>>

Wipe ==
  /\ mode = "CLEAR"
  /\ \E c \in Cells : screen' = Draw(screen, c, BLANK)
  /\ mode' \in {"AUTO", "CLEAR", "PROG"} /\ UNCHANGED <<row, col>>

SetMode ==
  /\ mode' \in {"AUTO", "CLEAR", "PROG"} /\ UNCHANGED <<screen, row, col>>

TerminalNext == PrintChar \/ CarriageReturn \/ Move \/ Place \/ Wipe \/ SetMode

TerminalSpec == TerminalInit /\ [][TerminalNext]_terminalVars

=============================================================================
