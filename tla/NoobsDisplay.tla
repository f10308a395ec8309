----------------------------- MODULE NoobsDisplay -----------------------------
(***************************************************************************)
(* The text display of the Nexys A7 SoC (blinky_soc.v, videoram.v): its     *)
(* registers in the data memory, the cursor, the unit that clears the      *)
(* screen, and the video RAM. One step is one rising edge of cpu_clk. The  *)
(* registers are loaded at the end of the cycle in which the program's     *)
(* store is on the bus, and the character is written one cycle later.      *)
(***************************************************************************)
EXTENDS Naturals

CONSTANTS
  NUM_ROWS, NUM_COLS,      (* the screen (30 x 40)                           *)
  ROW_SPACE, COL_SPACE,    (* what row and col count to (32; 64)             *)
  BLANK, CR, NUL,          (* 32, 13, 0                                      *)
  Chars,                   (* the characters that can be drawn               *)
  Rows, Cols               (* the values the program stores to row and col   *)

ASSUME DisplayAssumption ==
  /\ ROW_SPACE \in Nat /\ COL_SPACE \in Nat
  /\ NUM_ROWS \in 1 .. ROW_SPACE - 1 /\ NUM_COLS \in 1 .. COL_SPACE
  /\ BLANK \in Chars /\ CR \notin Chars /\ NUL \notin Chars
  /\ Rows \subseteq 0 .. ROW_SPACE - 1 /\ Cols \subseteq 0 .. COL_SPACE - 1

VARIABLES
  access,                       (* the program's store in this cycle         *)
  vga_ctrl, row, col, vga_char_data, vga_char_update,
  tx_data_out, disp_wr_en, newline_q,
  vga_clr_row_addr, vga_clr_col_addr,
  vram                          (* the part of the video RAM that is shown   *)

cursor == <<row, col>>
clrRegs == <<vga_clr_row_addr, vga_clr_col_addr>>
vars == <<access, vga_ctrl, cursor, vga_char_data, vga_char_update,
          tx_data_out, disp_wr_en, newline_q, clrRegs, vram>>

Modes == {"AUTO", "CLEAR", "PROG"}
Cells == (0 .. NUM_ROWS - 1) \X (0 .. NUM_COLS - 1)

\* The stores of interest, by the register they go to.
Nothing == [addr |-> "none"]
Stores ==
  [addr : {"UART_TX"}, data : Chars \cup {CR, NUL}]
    \cup [addr : {"VGA_CTRL"}, data : Modes]
    \cup [addr : {"VGA_ROW"}, data : Rows]
    \cup [addr : {"VGA_COL"}, data : Cols]
    \cup [addr : {"VGA_CHAR_DATA"}, data : Chars]

\* Powering up leaves vga_ctrl at AUTO, the reset at PROG.
Init ==
  /\ access = Nothing
  /\ vga_ctrl \in {"AUTO", "PROG"} /\ row = 0 /\ col = 0
  /\ vga_char_data = NUL /\ vga_char_update = FALSE
  /\ tx_data_out = NUL /\ disp_wr_en = FALSE /\ newline_q = FALSE
  /\ vga_clr_row_addr = 0 /\ vga_clr_col_addr = 0
  /\ \E ch \in Chars : vram = [c \in Cells |-> ch]

-----------------------------------------------------------------------------
StoreTo(addr) == access.addr = addr

newline         == StoreTo("UART_TX") /\ access.data = CR
disp_wr_en_next == StoreTo("UART_TX") /\ access.data \notin {CR, NUL}
LF              == newline /\ ~newline_q

\* Mutant: one row too many is cleared.
vga_clear_in_progress_long == vga_ctrl = "CLEAR" /\ vga_clr_row_addr <= NUM_ROWS

vga_clear_in_progress == vga_ctrl = "CLEAR" /\ vga_clr_row_addr < NUM_ROWS
vga_cleared           == vga_ctrl = "CLEAR" /\ ~vga_clear_in_progress

ControlRegister ==
  vga_ctrl' = IF StoreTo("VGA_CTRL") THEN access.data ELSE vga_ctrl

\* Mutant: a request after the first is taken for served.
ClearRequestedOnce == FALSE

\* A new request starts from the first cell, unless one is being served.
ClearRequested ==
  /\ StoreTo("VGA_CTRL") /\ access.data = "CLEAR" /\ ~vga_clear_in_progress

\* Mutant: a request while another is being served starts it again.
ClearUnitRestarts ==
  IF StoreTo("VGA_CTRL") /\ access.data = "CLEAR"
  THEN vga_clr_row_addr' = 0 /\ vga_clr_col_addr' = 0
  ELSE IF vga_clear_in_progress
       THEN IF vga_clr_col_addr = NUM_COLS - 1
            THEN vga_clr_row_addr' = vga_clr_row_addr + 1 /\ vga_clr_col_addr' = 0
            ELSE vga_clr_col_addr' = vga_clr_col_addr + 1 /\ UNCHANGED vga_clr_row_addr
       ELSE UNCHANGED clrRegs

ClearUnit ==
  IF vga_clear_in_progress
  THEN IF vga_clr_col_addr = NUM_COLS - 1
       THEN vga_clr_row_addr' = vga_clr_row_addr + 1 /\ vga_clr_col_addr' = 0
       ELSE vga_clr_col_addr' = vga_clr_col_addr + 1 /\ UNCHANGED vga_clr_row_addr
  ELSE IF ClearRequested
       THEN vga_clr_row_addr' = 0 /\ vga_clr_col_addr' = 0
       ELSE UNCHANGED clrRegs

Column ==
  col' = CASE vga_ctrl = "AUTO" /\ (disp_wr_en_next \/ LF) ->
                IF LF \/ col = NUM_COLS - 1 THEN 0 ELSE (col + 1) % COL_SPACE
           [] vga_ctrl = "PROG" /\ StoreTo("VGA_COL") -> access.data
           [] OTHER -> col

Row ==
  row' = CASE vga_ctrl = "AUTO" /\ LF ->
                IF row = NUM_ROWS - 1 THEN 0 ELSE (row + 1) % ROW_SPACE
           [] vga_ctrl = "PROG" /\ StoreTo("VGA_ROW") -> access.data
           [] OTHER -> row

Characters ==
  /\ vga_char_data' = IF vga_ctrl = "PROG" /\ StoreTo("VGA_CHAR_DATA")
                      THEN access.data ELSE vga_char_data
  /\ tx_data_out' = IF StoreTo("UART_TX") THEN access.data ELSE tx_data_out
  /\ vga_char_update' = StoreTo("VGA_CHAR_DATA")
  /\ disp_wr_en' = disp_wr_en_next
  /\ newline_q' = newline

final_cell == IF vga_ctrl = "CLEAR" THEN <<vga_clr_row_addr, vga_clr_col_addr>>
                                    ELSE <<row, col>>

\* Mutant: the UART's characters are written in programmed mode as well.
final_disp_wr_en_any == vga_ctrl = "CLEAR" \/ disp_wr_en \/ vga_char_update

final_disp_wr_en == CASE vga_ctrl = "CLEAR" -> TRUE
                      [] vga_ctrl = "AUTO"  -> disp_wr_en
                      [] OTHER              -> vga_char_update

final_char_data == CASE vga_ctrl = "CLEAR" -> BLANK
                     [] vga_ctrl = "AUTO"  -> tx_data_out
                     [] OTHER              -> vga_char_data

\* The video RAM is larger than the screen: a write elsewhere is not seen.
VideoRam ==
  vram' = [c \in Cells |-> IF final_disp_wr_en /\ c = final_cell
                           THEN final_char_data ELSE vram[c]]

\* STORE is two bytes long: it is never on the bus in two cycles in a row.
NextAccess ==
  access' \in {Nothing} \cup (IF access = Nothing THEN Stores ELSE {})

Next == /\ ControlRegister /\ ClearUnit /\ Column /\ Row /\ Characters
        /\ VideoRam /\ NextAccess

Spec == Init /\ [][Next]_vars

FairSpec == Spec /\ WF_vars(Next)

-----------------------------------------------------------------------------
(* Properties                                                              *)

\* The types of all variables; the clear unit stops behind the last row.
TypeOK ==
  /\ access \in Stores \cup {Nothing} /\ vga_ctrl \in Modes
  /\ row \in 0 .. ROW_SPACE - 1 /\ col \in 0 .. COL_SPACE - 1
  /\ vga_char_data \in Chars \cup {NUL} /\ tx_data_out \in Chars \cup {CR, NUL}
  /\ vga_char_update \in BOOLEAN /\ disp_wr_en \in BOOLEAN /\ newline_q \in BOOLEAN
  /\ vga_clr_row_addr \in 0 .. NUM_ROWS /\ vga_clr_col_addr \in 0 .. NUM_COLS - 1
  /\ vram \in [Cells -> Chars]

\* When the status register says "cleared" every cell of the screen is blank,
\* however often the mode was changed or the clear requested again before.
ClearedMeansBlank == vga_cleared => \A c \in Cells : vram[c] = BLANK

\* A clear is done some time later, unless the program leaves the mode.
ClearFinishes == vga_ctrl = "CLEAR" ~> vga_cleared \/ vga_ctrl # "CLEAR"

\* What is on the screen once the write under way is done.
Shown ==
  IF vga_ctrl # "CLEAR" /\ final_disp_wr_en
  THEN [c \in Cells |-> IF c = final_cell THEN final_char_data ELSE vram[c]]
  ELSE vram

\* Each store acts at once, as on a terminal: the character under way is
\* drawn where the cursor was meant to be, in the mode it was meant for.
Terminal == INSTANCE NoobsTerminal WITH screen <- Shown, mode <- vga_ctrl
ImplementsTerminal == Terminal!TerminalSpec

\* In auto mode a character is drawn where the cursor stands, as a terminal
\* does (README.md:743); the cursor then advances.
TypedAtCursor ==
  [][vga_ctrl = "AUTO" /\ disp_wr_en_next
       => Shown' = Terminal!Draw(Shown, <<row, col>>, access.data)]_vars

=============================================================================
