------------------------------ MODULE NoobsDefs ------------------------------
(***************************************************************************)
(* The encodings NoobsCpu's C model and its RTL share                      *)
(* (cmodel/NoobsCpu_defines.h, vmodel/noobs_cpu_defines.vh): how an        *)
(* instruction byte is decoded, what the ALU computes, how the status (SR) *)
(* and control (CR) registers are laid out, and the two memories.          *)
(*                                                                         *)
(* The names of the instruction kinds and of the execute controls are      *)
(* strings; everything the program can compute with (registers, SR, CR,    *)
(* the program's own bytes) is a number of the width it has in the code.   *)
(***************************************************************************)
EXTENDS Integers, Sequences

CONSTANTS
  INST_MEM_SIZE,   (* bytes of instruction memory (2048 in the code)       *)
  DATA_MEM_SIZE,   (* bytes of data memory (2048 in the code)              *)
  STRAY_BYTES,     (* what a read outside a memory array may return        *)
  Programs,        (* the programs considered: contents of code.txt        *)
  DataImages       (* the initial data considered: contents of data.txt    *)

BYTE    == 0..255
WORD    == {n \in Nat : n < 65536}
ADDRESS == 0..2047

\* The instruction memory holds at least one two-byte instruction; the data
\* memory holds at least the eight addresses that name CPU registers.
ASSUME InstMemAssumption == INST_MEM_SIZE \in Nat /\ INST_MEM_SIZE > 1
ASSUME DataMemAssumption == DATA_MEM_SIZE \in Nat /\ DATA_MEM_SIZE > 8
ASSUME StrayAssumption == STRAY_BYTES \subseteq BYTE
ASSUME ProgramsAssumption ==
  \A code \in Programs : code \in Seq(BYTE) /\ Len(code) <= INST_MEM_SIZE
ASSUME DataAssumption ==
  \A data \in DataImages : data \in Seq(BYTE) /\ Len(data) + 8 <= DATA_MEM_SIZE

REG      == 0..3
DataAddr == 0..(DATA_MEM_SIZE - 1)
InstAddr == 0..(INST_MEM_SIZE - 1)

-----------------------------------------------------------------------------
(* Bits. A mask with one bit set, such as CR_BCZ, is given by its weight.  *)

Bit(x, w)      == (x \div w) % 2
SetBit(x, w)   == IF Bit(x, w) = 1 THEN x ELSE x + w
ClearBit(x, w) == IF Bit(x, w) = 1 THEN x - w ELSE x

CR_BCZ      == 1
CR_BCNZ     == 2
CR_ADR_MODE == 32
CR_SP_INIT_MSB == 28     \* 0x1c: the stack page starts at 0x700

SR_OVF    == 1
SR_ST_OVF == 2
SR_NZ     == 4
SR_Z      == 8

-----------------------------------------------------------------------------
(* Decoding an instruction byte.                                           *)

GET_BASE_OP(b)        == b \div 32
GET_MC_CTRL_USR_OP(b) == (b \div 8) % 4
IS_IMM(b)             == Bit(b, 16) = 1
GET_REG_PTR0(b)       == b % 4
GET_REG_PTR1(b)       == (b \div 4) % 4
\* Mutant: the mask is forgotten.
GET_LD_ST_REG_PTR_Unmasked(b) == b \div 8
GET_LD_ST_REG_PTR(b)  == (b \div 8) % 4

AluOps == {"ADD", "SUB", "AND", "OR", "XOR"}
CrOps  == {"SET_BCZ", "SET_BCNZ", "CLR_BC", "SET_ADR_MODE", "RST_ADR_MODE"}

MiscKind(b) ==
  <<"NOP", "RET", "HALT", "SET_BCZ", "SET_BCNZ", "CLR_BC",
    "SET_ADR_MODE", "RST_ADR_MODE">>[(b % 8) + 1]

\* The kind of instruction a first byte starts.
Kind(b) ==
  CASE GET_BASE_OP(b) = 0 /\ GET_MC_CTRL_USR_OP(b) = 0 -> MiscKind(b)
    [] GET_BASE_OP(b) = 0 /\ GET_MC_CTRL_USR_OP(b) = 1 -> "USR"
    [] GET_BASE_OP(b) = 0 /\ GET_MC_CTRL_USR_OP(b) = 2 -> "JMP"
    [] GET_BASE_OP(b) = 0 /\ GET_MC_CTRL_USR_OP(b) = 3 -> "CALL"
    [] GET_BASE_OP(b) = 1 -> "ADD"
    [] GET_BASE_OP(b) = 2 -> "SUB"
    [] GET_BASE_OP(b) = 3 -> "AND"
    [] GET_BASE_OP(b) = 4 -> "OR"
    [] GET_BASE_OP(b) = 5 -> "XOR"
    [] GET_BASE_OP(b) = 6 -> "LD"
    [] OTHER              -> "ST"

\* imm_mode after a first byte: LOAD and STORE always have a second byte,
\* the others when their immediate flag says so.
HasSecondByte(b) == Kind(b) \in {"LD", "ST"} \/ IS_IMM(b)

\* An 11-bit address from the low bits of the first byte and the second byte.
Address(first, second) == (first % 8) * 256 + second

-----------------------------------------------------------------------------
(* The ALU and the status register.                                        *)

BitOp(op, a, b) ==
  CASE op = "AND" -> IF a = 1 /\ b = 1 THEN 1 ELSE 0
    [] op = "OR"  -> IF a = 1 \/ b = 1 THEN 1 ELSE 0
    [] OTHER      -> IF a # b THEN 1 ELSE 0

Logic(op, x, y) ==
  LET at(w) == w * BitOp(op, Bit(x, w), Bit(y, w))
  IN  at(1) + at(2) + at(4) + at(8) + at(16) + at(32) + at(64) + at(128)

\* The result before truncation, as a 16-bit number: a borrow sets the
\* upper byte just as a carry does.
AluResult(op, x, y) ==
  CASE op = "ADD" -> x + y
    [] op = "SUB" -> (x + 65536 - y) % 65536
    [] OTHER      -> Logic(op, x, y)

\* SR with the three result flags replaced and the other bits kept.
WithFlags(sr, ovf, nz, z) ==
  (sr \div 16) * 16 + (IF z THEN SR_Z ELSE 0) + (IF nz THEN SR_NZ ELSE 0)
    + SR_ST_OVF * Bit(sr, SR_ST_OVF) + (IF ovf THEN SR_OVF ELSE 0)

AluFlags(sr, result) ==
  WithFlags(sr, result > 255, result % 256 # 0, result % 256 = 0)

ClearFlags(sr) == WithFlags(sr, FALSE, FALSE, FALSE)

\* JMP and CALL are taken: on overflow with both condition bits, on zero or
\* on not-zero with one of them, always with none.
Taken(cr, sr) ==
  LET bcz  == Bit(cr, CR_BCZ) = 1
      bcnz == Bit(cr, CR_BCNZ) = 1
  IN  \/ bcz /\ bcnz /\ Bit(sr, SR_OVF) = 1
      \/ bcz /\ ~bcnz /\ Bit(sr, SR_Z) = 1
      \/ ~bcz /\ bcnz /\ Bit(sr, SR_NZ) = 1
      \/ ~bcz /\ ~bcnz

\* What the five one-byte control instructions make of CR.
CrAfter(kind, cr) ==
  CASE kind = "SET_BCZ"      -> SetBit(cr, CR_BCZ)
    [] kind = "SET_BCNZ"     -> SetBit(cr, CR_BCNZ)
    [] kind = "CLR_BC"       -> ClearBit(ClearBit(cr, CR_BCZ), CR_BCNZ)
    [] kind = "SET_ADR_MODE" -> SetBit(cr, CR_ADR_MODE)
    [] OTHER                 -> ClearBit(cr, CR_ADR_MODE)

\* The page CR's bits 4:2 select, joined with the 8-bit stack pointer.
StackAddr(cr, sp) == ((cr \div 4) % 8) * 256 + sp

-----------------------------------------------------------------------------
(* Data memory. A memory is kept as the function of the addresses that     *)
(* were given a value; every other byte is still 0, as the loaders leave   *)
(* it.                                                                     *)

Read(mem, a)     == IF a \in DOMAIN mem THEN mem[a] ELSE 0
Write(mem, a, v) == [x \in DOMAIN mem \cup {a} |-> IF x = a THEN v ELSE mem[x]]

\* The C model indexes its arrays unchecked. A read outside data_mem returns
\* some byte; a write past its end leaves this state alone or lands in
\* instruction_mem, which the linker places right behind it.
LoadOutcomes(mem, a) ==
  IF a \in DataAddr THEN {Read(mem, a)} ELSE STRAY_BYTES

StoreOutcomes(mem, imem, a, v) ==
  IF a \in DataAddr
  THEN {<<Write(mem, a, v), imem>>}
  ELSE {<<mem, imem>>} \cup
       {<<mem, [imem EXCEPT ![i] = v]>> : i \in {a - DATA_MEM_SIZE} \cap InstAddr}

\* load_instructions() and load_data(): the bytes of code.txt from address 0,
\* those of data.txt from address 8, and zeros.
LoadInstructions(code) ==
  [i \in InstAddr |-> IF i < Len(code) THEN code[i + 1] ELSE 0]

LoadData(data) == [a \in 8..(7 + Len(data)) |-> data[a - 7]]

IsMemory(mem) ==
  /\ DOMAIN mem \subseteq DataAddr
  /\ \A a \in DOMAIN mem : mem[a] \in BYTE
  /\ mem = [a \in DOMAIN mem |-> mem[a]]

=============================================================================
