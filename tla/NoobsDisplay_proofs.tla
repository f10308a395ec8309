------------------------- MODULE NoobsDisplay_proofs -------------------------
(***************************************************************************)
(* For every size of the screen: when the status register says "cleared"   *)
(* the screen is blank, whatever was written and requested before.         *)
(***************************************************************************)
EXTENDS NoobsDisplay, TLAPS

\* Whether the clear unit comes to a cell before the one at row r, column k.
Before(c, r, k) == c[1] < r \/ (c[1] = r /\ c[2] < k)

\* In clear mode the unit has left nothing behind it but blanks.
BlankBehind ==
  vga_ctrl = "CLEAR" =>
    \A c \in Cells : Before(c, vga_clr_row_addr, vga_clr_col_addr) => vram[c] = BLANK

\* What is about to be drawn is a character: neither NUL nor a carriage return.
Drawable ==
  /\ disp_wr_en => tx_data_out \in Chars
  /\ vga_ctrl = "PROG" /\ vga_char_update => vga_char_data \in Chars

IInv == TypeOK /\ Drawable /\ BlankBehind

-----------------------------------------------------------------------------
\* What the assumptions say of the parameters.
LEMMA Parameters ==
  /\ NUM_ROWS \in Nat /\ NUM_ROWS >= 1 /\ NUM_ROWS < ROW_SPACE
  /\ NUM_COLS \in Nat /\ NUM_COLS >= 1 /\ NUM_COLS <= COL_SPACE
  /\ ROW_SPACE \in Nat /\ COL_SPACE \in Nat
  /\ BLANK \in Chars
  /\ Rows \subseteq 0 .. ROW_SPACE - 1 /\ Cols \subseteq 0 .. COL_SPACE - 1
BY DisplayAssumption DEF DisplayAssumption

\* A store carries a value of the register it goes to.
LEMMA StoreTypes ==
  ASSUME access \in Stores \cup {Nothing}
  PROVE  /\ StoreTo("UART_TX")  => access.data \in Chars \cup {CR, NUL}
         /\ StoreTo("VGA_CTRL") => access.data \in Modes
         /\ StoreTo("VGA_ROW")  => access.data \in Rows
         /\ StoreTo("VGA_COL")  => access.data \in Cols
         /\ StoreTo("VGA_CHAR_DATA") => access.data \in Chars
BY DEF Stores, Nothing, StoreTo

-----------------------------------------------------------------------------
LEMMA InitInv == Init => IInv
<1> SUFFICES ASSUME Init PROVE IInv
  OBVIOUS
<1>1. TypeOK
  <2>1. vram \in [Cells -> Chars]
    BY DEF Init
  <2>2. /\ 0 \in 0 .. ROW_SPACE - 1 /\ 0 \in 0 .. COL_SPACE - 1
        /\ 0 \in 0 .. NUM_ROWS /\ 0 \in 0 .. NUM_COLS - 1
    BY Parameters
  <2>3. vga_char_update \in BOOLEAN /\ disp_wr_en \in BOOLEAN /\ newline_q \in BOOLEAN
    BY DEF Init
  <2> QED
    BY <2>1, <2>2, <2>3 DEF Init, TypeOK, Modes
<1>2. Drawable
  BY DEF Init, Drawable
<1>3. BlankBehind
  <2>1. \A c \in Cells : ~Before(c, 0, 0)
    BY Parameters DEF Cells, Before
  <2> QED
    BY <2>1 DEF Init, BlankBehind
<1> QED
  BY <1>1, <1>2, <1>3 DEF IInv

\* The clear unit goes through the cells row by row and stops behind the last.
LEMMA ClearUnitType ==
  TypeOK /\ ClearUnit
    => vga_clr_row_addr' \in 0 .. NUM_ROWS /\ vga_clr_col_addr' \in 0 .. NUM_COLS - 1
BY Parameters DEF TypeOK, ClearUnit, vga_clear_in_progress, clrRegs

LEMMA CursorType ==
  TypeOK /\ Row /\ Column => row' \in 0 .. ROW_SPACE - 1 /\ col' \in 0 .. COL_SPACE - 1
<1> SUFFICES ASSUME TypeOK, Row, Column
             PROVE  row' \in 0 .. ROW_SPACE - 1 /\ col' \in 0 .. COL_SPACE - 1
  OBVIOUS
<1>1. /\ (row + 1) % ROW_SPACE \in 0 .. ROW_SPACE - 1
      /\ (col + 1) % COL_SPACE \in 0 .. COL_SPACE - 1
  BY Parameters DEF TypeOK
<1>2. row' \in 0 .. ROW_SPACE - 1
  BY <1>1, Parameters, StoreTypes DEF TypeOK, Row
<1>3. col' \in 0 .. COL_SPACE - 1
  BY <1>1, Parameters, StoreTypes DEF TypeOK, Column
<1> QED
  BY <1>2, <1>3

\* The character that is written, if one is.
LEMMA WrittenType ==
  ASSUME TypeOK, Drawable, final_disp_wr_en
  PROVE  final_char_data \in Chars
BY Parameters DEF TypeOK, Modes, Drawable, final_disp_wr_en, final_char_data

LEMMA VideoRamType ==
  TypeOK /\ Drawable /\ VideoRam => vram' \in [Cells -> Chars]
BY WrittenType DEF VideoRam, TypeOK

LEMMA NextType == TypeOK /\ Drawable /\ Next => TypeOK'
<1> SUFFICES ASSUME TypeOK, Drawable, Next PROVE TypeOK'
  OBVIOUS
<1>1. access' \in Stores \cup {Nothing}
  BY DEF Next, NextAccess
<1>2. vga_ctrl' \in Modes
  BY StoreTypes DEF Next, ControlRegister, TypeOK
<1>3. row' \in 0 .. ROW_SPACE - 1 /\ col' \in 0 .. COL_SPACE - 1
  BY CursorType DEF Next
<1>4. vga_char_data' \in Chars \cup {NUL} /\ tx_data_out' \in Chars \cup {CR, NUL}
  BY StoreTypes DEF Next, Characters, TypeOK
<1>5. vga_char_update' \in BOOLEAN /\ disp_wr_en' \in BOOLEAN /\ newline_q' \in BOOLEAN
  BY DEF Next, Characters, disp_wr_en_next, newline, StoreTo
<1>6. vga_clr_row_addr' \in 0 .. NUM_ROWS /\ vga_clr_col_addr' \in 0 .. NUM_COLS - 1
  BY ClearUnitType DEF Next
<1>7. vram' \in [Cells -> Chars]
  BY VideoRamType DEF Next
<1> QED
  BY <1>1, <1>2, <1>3, <1>4, <1>5, <1>6, <1>7 DEF TypeOK

\* A character store to VGA_CHAR_DATA cannot change the mode in the same cycle.
LEMMA NextDrawable == TypeOK /\ Next => Drawable'
<1> SUFFICES ASSUME TypeOK, Next PROVE Drawable'
  OBVIOUS
<1>1. access \in Stores \cup {Nothing}
  BY DEF TypeOK
<1>2. disp_wr_en' => tx_data_out' \in Chars
  BY <1>1, StoreTypes DEF Next, Characters, disp_wr_en_next
<1>3. ASSUME vga_ctrl' = "PROG", vga_char_update' PROVE vga_char_data' \in Chars
  <2>1. StoreTo("VGA_CHAR_DATA") /\ ~StoreTo("VGA_CTRL")
    BY <1>3 DEF Next, Characters, StoreTo
  <2>2. vga_ctrl = "PROG"
    BY <1>3, <2>1 DEF Next, ControlRegister
  <2> QED
    BY <1>1, <2>1, <2>2, StoreTypes DEF Next, Characters
<1> QED
  BY <1>2, <1>3 DEF Drawable

-----------------------------------------------------------------------------
\* The cells behind the unit once it has gone on: those behind it before, and
\* the one it was at.
LEMMA BehindNext ==
  ASSUME TypeOK, ClearUnit, vga_clear_in_progress, NEW c \in Cells,
         Before(c, vga_clr_row_addr', vga_clr_col_addr')
  PROVE  \/ Before(c, vga_clr_row_addr, vga_clr_col_addr)
         \/ c = <<vga_clr_row_addr, vga_clr_col_addr>>
<1>1. /\ c = <<c[1], c[2]>> /\ c[1] \in 0 .. NUM_ROWS - 1 /\ c[2] \in 0 .. NUM_COLS - 1
  BY DEF Cells
<1>2. /\ vga_clr_row_addr \in Nat /\ vga_clr_col_addr \in Nat
      /\ vga_clr_col_addr <= NUM_COLS - 1 /\ NUM_COLS \in Nat /\ NUM_ROWS \in Nat
  BY Parameters DEF TypeOK
<1>3. CASE vga_clr_col_addr = NUM_COLS - 1
  <2>1. vga_clr_row_addr' = vga_clr_row_addr + 1 /\ vga_clr_col_addr' = 0
    BY <1>3 DEF ClearUnit
  <2> QED
    BY <1>1, <1>2, <1>3, <2>1 DEF Before
<1>4. CASE vga_clr_col_addr # NUM_COLS - 1
  <2>1. vga_clr_row_addr' = vga_clr_row_addr /\ vga_clr_col_addr' = vga_clr_col_addr + 1
    BY <1>4 DEF ClearUnit
  <2> QED
    BY <1>1, <1>2, <1>4, <2>1 DEF Before
<1> QED
  BY <1>3, <1>4

\* In clear mode blanks are written, and nothing else.
LEMMA BlanksStay ==
  ASSUME VideoRam, vga_ctrl = "CLEAR", NEW c \in Cells
  PROVE  /\ vram[c] = BLANK => vram'[c] = BLANK
         /\ c = <<vga_clr_row_addr, vga_clr_col_addr>> => vram'[c] = BLANK
BY DEF VideoRam, final_cell, final_disp_wr_en, final_char_data

\* A request is served from the first cell on, whatever mode it comes in; one
\* that comes while the unit is at work does not set it back.
LEMMA NextBlankBehind == IInv /\ Next => BlankBehind'
<1> SUFFICES ASSUME IInv, Next, vga_ctrl' = "CLEAR", NEW c \in Cells,
                    Before(c, vga_clr_row_addr', vga_clr_col_addr')
             PROVE  vram'[c] = BLANK
  BY DEF BlankBehind
<1>1. TypeOK /\ BlankBehind /\ ClearUnit /\ VideoRam /\ ControlRegister
  BY DEF IInv, Next
<1>2. ~Before(c, 0, 0)
  BY Parameters DEF Cells, Before
<1>3. CASE vga_clear_in_progress
  <2>1. vga_ctrl = "CLEAR"
    BY <1>3 DEF vga_clear_in_progress
  <2> QED
    BY <1>1, <1>3, <2>1, BehindNext, BlanksStay DEF BlankBehind
<1>4. CASE ~vga_clear_in_progress /\ ~ClearRequested
  <2>1. vga_ctrl = "CLEAR"
    BY <1>1, <1>4 DEF ControlRegister, ClearRequested
  <2>2. Before(c, vga_clr_row_addr, vga_clr_col_addr)
    BY <1>1, <1>4 DEF ClearUnit, clrRegs
  <2> QED
    BY <1>1, <2>1, <2>2, BlanksStay DEF BlankBehind
<1>5. CASE ~vga_clear_in_progress /\ ClearRequested
  BY <1>1, <1>2, <1>5 DEF ClearUnit
<1> QED
  BY <1>3, <1>4, <1>5

LEMMA NextInv == IInv /\ [Next]_vars => IInv'
<1> SUFFICES ASSUME IInv, [Next]_vars PROVE IInv'
  OBVIOUS
<1>1. CASE Next
  BY <1>1, NextType, NextDrawable, NextBlankBehind DEF IInv
<1>2. CASE UNCHANGED vars
  BY <1>2 DEF IInv, TypeOK, Drawable, BlankBehind, vars, cursor, clrRegs
<1> QED
  BY <1>1, <1>2

\* A clear that has come behind the last row has left blanks only.
LEMMA BlankWhenCleared == IInv => ClearedMeansBlank
<1> SUFFICES ASSUME IInv, vga_cleared, NEW c \in Cells PROVE vram[c] = BLANK
  BY DEF ClearedMeansBlank
<1>1. vga_ctrl = "CLEAR" /\ vga_clr_row_addr = NUM_ROWS
  BY Parameters DEF IInv, TypeOK, vga_cleared, vga_clear_in_progress
<1>2. Before(c, vga_clr_row_addr, vga_clr_col_addr)
  BY <1>1, Parameters DEF Cells, Before
<1> QED
  BY <1>1, <1>2 DEF IInv, BlankBehind

-----------------------------------------------------------------------------
(* The terminal                                                            *)

\* The screen and the write under way, taken together.
LEMMA ShownType ==
  ASSUME TypeOK
  PROVE  /\ vram = [c \in Cells |-> vram[c]]
         /\ vga_ctrl # "CLEAR" /\ final_disp_wr_en
              => Shown = Terminal!Draw(vram, <<row, col>>, final_char_data)
         /\ vga_ctrl = "CLEAR" \/ ~final_disp_wr_en => Shown = vram
BY DEF TypeOK, Shown, final_cell, Terminal!Draw, Terminal!Cells, Cells

\* Outside clear mode the write under way is carried out by the next edge.
LEMMA WriteDone ==
  ASSUME TypeOK, VideoRam, vga_ctrl # "CLEAR"
  PROVE  vram' = Shown
<1>1. vram = [c \in Cells |-> vram[c]]
  BY ShownType
<1> QED
  BY <1>1 DEF VideoRam, Shown

\* In clear mode the next edge blanks a cell, or one behind the last row.
LEMMA ClearStep ==
  ASSUME TypeOK, VideoRam, vga_ctrl = "CLEAR"
  PROVE  \/ \E c \in Cells : vram' = Terminal!Draw(Shown, c, BLANK)
         \/ vram' = Shown
<1>1. Shown = vram /\ vram = [c \in Cells |-> vram[c]]
  BY ShownType
<1> DEFINE cell == <<vga_clr_row_addr, vga_clr_col_addr>>
<1>2. vram' = [c \in Cells |-> IF c = cell THEN BLANK ELSE vram[c]]
  BY DEF VideoRam, final_disp_wr_en, final_cell, final_char_data
<1>3. CASE cell \in Cells
  BY <1>1, <1>2, <1>3 DEF Terminal!Draw, Terminal!Cells, Cells
<1>4. CASE cell \notin Cells
  <2>1. \A c \in Cells : c # cell
    BY <1>4
  <2> HIDE DEF cell
  <2> QED
    BY <1>1, <1>2, <2>1
<1> QED
  BY <1>3, <1>4

\* A store that starts no write: the next screen is the one in the video RAM.
LEMMA NothingUnderWay ==
  ASSUME TypeOK', vga_ctrl' \in {"AUTO", "CLEAR"} \/ ~vga_char_update',
         vga_ctrl' \in {"PROG", "CLEAR"} \/ ~disp_wr_en'
  PROVE  Shown' = vram'
BY DEF TypeOK, Modes, Shown, final_disp_wr_en

LEMMA TerminalStep ==
  ASSUME TypeOK, Next, TypeOK'
  PROVE  [Terminal!TerminalNext]_(Terminal!terminalVars)
<1> USE DEF Next
<1>1. vga_ctrl \in Modes /\ vga_ctrl' \in Modes /\ access \in Stores \cup {Nothing}
  BY DEF TypeOK
<1>2. /\ vga_char_update' <=> StoreTo("VGA_CHAR_DATA")
      /\ disp_wr_en' <=> disp_wr_en_next
      /\ ~StoreTo("VGA_CTRL") => vga_ctrl' = vga_ctrl
  BY DEF Characters, ControlRegister, StoreTo, disp_wr_en_next
<1>3. CASE vga_ctrl = "CLEAR"
  <2>1. Shown' = vram'
    BY <1>1, <1>2, <1>3, NothingUnderWay DEF StoreTo, disp_wr_en_next, Modes
  <2>2. UNCHANGED <<row, col>>
    BY <1>3 DEF Row, Column
  <2>3. vga_ctrl' \in {"AUTO", "CLEAR", "PROG"}
    BY <1>1 DEF Modes
  <2>4. CASE \E c \in Cells : vram' = Terminal!Draw(Shown, c, BLANK)
    <3>1. Terminal!Wipe
      BY <1>3, <2>1, <2>2, <2>3, <2>4 DEF Terminal!Wipe, Terminal!Cells, Cells
    <3> QED
      BY <3>1 DEF Terminal!TerminalNext
  <2>5. CASE vram' = Shown
    <3>1. Terminal!SetMode
      BY <2>1, <2>2, <2>3, <2>5 DEF Terminal!SetMode
    <3> QED
      BY <3>1 DEF Terminal!TerminalNext
  <2> QED
    BY <1>3, <2>4, <2>5, ClearStep
<1>4. CASE vga_ctrl # "CLEAR" /\ StoreTo("VGA_CTRL")
  <2>1. Shown' = vram' /\ vram' = Shown
    BY <1>1, <1>2, <1>4, NothingUnderWay, WriteDone DEF StoreTo, disp_wr_en_next
  <2>2. UNCHANGED <<row, col>>
    BY <1>4 DEF Row, Column, LF, newline, disp_wr_en_next, StoreTo
  <2>3. Terminal!SetMode
    BY <1>1, <2>1, <2>2 DEF Terminal!SetMode, Modes
  <2> QED
    BY <2>3 DEF Terminal!TerminalNext
<1>5. CASE vga_ctrl = "AUTO" /\ ~StoreTo("VGA_CTRL")
  <2>1. vram' = Shown /\ vga_ctrl' = "AUTO"
    BY <1>2, <1>5, WriteDone
  <2>2. CASE disp_wr_en_next
    <3>1. access.data \in Chars /\ tx_data_out' = access.data /\ ~LF
      BY <1>1, <2>2, StoreTypes DEF disp_wr_en_next, Characters, LF, newline
    <3>2. row' = row /\ col' = Terminal!NextCol(col)
      BY <1>5, <2>2, <3>1 DEF Row, Column, Terminal!NextCol
    <3>3. Shown' = Terminal!Draw(Shown, <<row, col'>>, access.data)
      BY <1>2, <2>1, <2>2, <3>1, <3>2 DEF Shown, final_disp_wr_en, final_cell,
           final_char_data, Terminal!Draw, Terminal!Cells, Cells
    <3>4. Terminal!PrintChar
      BY <1>5, <2>1, <3>1, <3>2, <3>3 DEF Terminal!PrintChar
    <3> QED
      BY <3>4 DEF Terminal!TerminalNext
  <2>3. CASE ~disp_wr_en_next
    <3>1. Shown' = Shown
      BY <1>2, <2>1, <2>3, NothingUnderWay
    <3>2. CASE LF
      <4>1. Terminal!CarriageReturn
        BY <1>5, <2>1, <3>1, <3>2 DEF Row, Column, Terminal!CarriageReturn, Terminal!NextRow
      <4> QED
        BY <4>1 DEF Terminal!TerminalNext
    <3>3. CASE ~LF
      <4>1. UNCHANGED <<row, col>>
        BY <1>5, <2>3, <3>3 DEF Row, Column
      <4> QED
        BY <1>5, <2>1, <3>1, <4>1 DEF Terminal!terminalVars
    <3> QED
      BY <3>2, <3>3
  <2> QED
    BY <2>2, <2>3
<1>6. CASE vga_ctrl = "PROG" /\ ~StoreTo("VGA_CTRL")
  <2>1. vram' = Shown /\ vga_ctrl' = "PROG"
    BY <1>2, <1>6, WriteDone
  <2>2. CASE StoreTo("VGA_CHAR_DATA")
    <3>1. access.data \in Chars /\ vga_char_data' = access.data
      BY <1>1, <1>6, <2>2, StoreTypes DEF Characters
    <3>2. UNCHANGED <<row, col>>
      BY <1>6, <2>2 DEF Row, Column, StoreTo
    <3>3. Shown' = Terminal!Draw(Shown, <<row, col>>, access.data)
      BY <1>2, <2>1, <2>2, <3>1, <3>2 DEF Shown, final_disp_wr_en, final_cell,
           final_char_data, Terminal!Draw, Terminal!Cells, Cells
    <3>4. Terminal!Place
      BY <1>6, <2>1, <3>1, <3>2, <3>3 DEF Terminal!Place
    <3> QED
      BY <3>4 DEF Terminal!TerminalNext
  <2>3. CASE ~StoreTo("VGA_CHAR_DATA")
    <3>1. Shown' = Shown
      BY <1>2, <2>1, <2>3, NothingUnderWay
    <3>2. CASE StoreTo("VGA_ROW") \/ StoreTo("VGA_COL")
      <4>1. \/ row' \in 0 .. ROW_SPACE - 1 /\ UNCHANGED col
            \/ col' \in 0 .. COL_SPACE - 1 /\ UNCHANGED row
        BY <1>1, <1>6, <3>2, StoreTypes, Parameters DEF Row, Column, StoreTo
      <4>2. Terminal!Move
        BY <1>6, <2>1, <3>1, <4>1 DEF Terminal!Move
      <4> QED
        BY <4>2 DEF Terminal!TerminalNext
    <3>3. CASE ~StoreTo("VGA_ROW") /\ ~StoreTo("VGA_COL")
      <4>1. UNCHANGED <<row, col>>
        BY <1>6, <3>3 DEF Row, Column
      <4> QED
        BY <1>6, <2>1, <3>1, <4>1 DEF Terminal!terminalVars
    <3> QED
      BY <3>2, <3>3
  <2> QED
    BY <2>2, <2>3
<1> QED
  BY <1>1, <1>3, <1>4, <1>5, <1>6 DEF Modes

LEMMA TerminalStart == Init => Terminal!TerminalInit
<1> SUFFICES ASSUME Init PROVE Terminal!TerminalInit
  OBVIOUS
<1>1. Shown = vram
  BY DEF Init, Shown, final_disp_wr_en
<1> QED
  BY <1>1 DEF Init, Terminal!TerminalInit, Terminal!Cells, Cells

-----------------------------------------------------------------------------
\* The registers and the video RAM keep their types: a row or column never
\* leaves its register, and only characters are drawn.
THEOREM DisplayTypeCorrect == Spec => []TypeOK
<1>1. IInv => TypeOK
  BY DEF IInv
<1> QED
  BY InitInv, NextInv, <1>1, PTL DEF Spec

\* "Cleared" means blank, however the program has switched between the modes
\* and repeated its requests.
THEOREM ClearCorrect == Spec => []ClearedMeansBlank
<1> QED
  BY InitInv, NextInv, BlankWhenCleared, PTL DEF Spec

\* The registers, the cursor and the clear unit together are a terminal on
\* which each store acts at once: the character that is written a cycle late
\* is the one, at the place and in the mode, that the store meant.
THEOREM TerminalCorrect == Spec => ImplementsTerminal
<1>1. Init => Terminal!TerminalInit
  BY TerminalStart
<1>2. IInv /\ IInv' /\ [Next]_vars => [Terminal!TerminalNext]_(Terminal!terminalVars)
  <2>1. IInv /\ IInv' /\ Next => [Terminal!TerminalNext]_(Terminal!terminalVars)
    BY TerminalStep DEF IInv
  <2>2. UNCHANGED vars => UNCHANGED Terminal!terminalVars
    BY DEF vars, cursor, clrRegs, Terminal!terminalVars, Shown, final_disp_wr_en,
         final_cell, final_char_data
  <2> QED
    BY <2>1, <2>2
<1> QED
  BY InitInv, NextInv, <1>1, <1>2, PTL DEF Spec, ImplementsTerminal, Terminal!TerminalSpec

=============================================================================
