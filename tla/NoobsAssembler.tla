---------------------------- MODULE NoobsAssembler ----------------------------
(***************************************************************************)
(* The assembler (utils/noobsASM.pl): two passes over the lines of the     *)
(* assembly file. PASS-1 counts the bytes of each line and gives the       *)
(* labels their addresses, PASS-2 emits the bytes. A line is a record: a   *)
(* directive has the section it begins, a data line bytes, a code line an  *)
(* instruction. White space, comments, operands that are numbers instead   *)
(* of labels, and an instruction in a data section, which the script takes *)
(* for numbers, are left out.                                              *)
(***************************************************************************)
EXTENDS Integers, Sequences

VARIABLES
  asm,             (* the lines of the file                                 *)
  pass,            (* "idle", "pass1", "pass2", "done", or "died"           *)
  line,            (* the number of the line that is read next              *)
  section,         (* "data" or "code", as $data_section and $code_section
                      say, or "none" while both are 0                       *)
  symbol_table,    (* SYMBOL_TABLE: the addresses of the labels             *)
  data_index, code_index,
  data_mem, code_mem

asmVars ==
  <<asm, pass, line, section, symbol_table, data_index, code_index, data_mem, code_mem>>

\* OP_CODE_HASH.
OP_CODE ==
  [NOP |-> 0, RET |-> 1, HALT |-> 2, SET_BCZ |-> 3, SET_BCNZ |-> 4, CLR_BC |-> 5,
   SET_ADR_MODE |-> 6, RST_ADR_MODE |-> 7,
   CALL |-> 24, CALLZ |-> 24, CALLNZ |-> 24, CALLOVF |-> 24, CALLNC |-> 24,
   JMP |-> 16, JMPZ |-> 16, JMPNZ |-> 16, JMPOVF |-> 16, JMPNC |-> 16,
   ADD |-> 32, ADDI |-> 48, SUB |-> 64, SUBI |-> 80, AND |-> 96, ANDI |-> 112,
   OR |-> 128, ORI |-> 144, XOR |-> 160, XORI |-> 176, LOAD |-> 192, STORE |-> 224]

IMMEDIATE == {"ADDI", "SUBI", "ANDI", "ORI", "XORI"}
ON_ZERO   == {"JMPZ", "CALLZ"}
ON_NZ     == {"JMPNZ", "CALLNZ"}
ON_OVF    == {"JMPOVF", "CALLOVF"}
ALWAYS    == {"JMPNC", "CALLNC"}
MEMORY    == {"LOAD", "STORE"}
TRANSFER  == {"JMP", "CALL"} \cup ON_ZERO \cup ON_NZ \cup ON_OVF \cup ALWAYS

NUMERALS  == {"0", "1", "2", "3", "4", "5", "6", "7", "8", "9"}

IsDirective(l) == "section" \in DOMAIN l
IsData(l)      == "bytes" \in DOMAIN l

\* The word where the script looks for the opcode: in a data line a number.
Opcode(l) == IF IsData(l) THEN "number" ELSE l.op

Reading(p)    == pass = p /\ line <= Len(asm)
InSection(sc) == ~IsDirective(asm[line]) /\ section = sc

Die ==
  /\ pass' = "died"
  /\ UNCHANGED <<asm, line, section, symbol_table, data_index, code_index,
                 data_mem, code_mem>>

-----------------------------------------------------------------------------
(* Both passes.                                                            *)

Directive ==
  /\ Reading("pass1") \/ Reading("pass2")
  /\ IsDirective(asm[line])
  /\ section' = asm[line].section
  /\ line' = line + 1
  /\ UNCHANGED <<asm, pass, symbol_table, data_index, code_index, data_mem, code_mem>>

\* A line before the first directive of the file is read and nothing more.
Skip ==
  /\ Reading("pass1") \/ Reading("pass2")
  /\ InSection("none")
  /\ line' = line + 1
  /\ UNCHANGED <<asm, pass, section, symbol_table, data_index, code_index,
                 data_mem, code_mem>>

-----------------------------------------------------------------------------
(* PASS-1.                                                                 *)

\* Of a line without a label, only the first byte is counted.
DataSize(l) == IF l.label = "" THEN 1 ELSE Len(l.bytes)

\* Mutant: a jump that clears the condition bits first is not given the byte.
CodeSizeNoClear(l) ==
  CASE Opcode(l) \in IMMEDIATE                 -> 2
    [] Opcode(l) \in ON_ZERO \cup ON_NZ        -> 4
    [] Opcode(l) \in ON_OVF                    -> 5
    [] Opcode(l) \in {"JMP", "CALL"} \cup ALWAYS \cup MEMORY -> 2
    [] OTHER                                   -> 1

CodeSize(l) ==
  CASE Opcode(l) \in IMMEDIATE                 -> 2
    [] Opcode(l) \in ON_ZERO \cup ON_NZ        -> 4
    [] Opcode(l) \in ON_OVF                    -> 5
    [] Opcode(l) \in ALWAYS                    -> 3
    [] Opcode(l) \in {"JMP", "CALL"} \cup MEMORY -> 2
    [] OTHER                                   -> 1

\* The label of the line is at an address, unless another line has it already.
EnterLabel(label, address) ==
  symbol_table' = IF label = "" THEN symbol_table
                  ELSE [x \in DOMAIN symbol_table \cup {label} |->
                          IF x = label THEN address ELSE symbol_table[x]]

Redefines(l) == l.label # "" /\ l.label \in DOMAIN symbol_table

\* A label in front of data must not start with a digit; others may.
IllegalName(l) == l.label # "" /\ SubSeq(l.label, 1, 1) \in NUMERALS

Pass1IllegalName ==
  Reading("pass1") /\ InSection("data") /\ IllegalName(asm[line]) /\ Die

Pass1Redefined ==
  /\ Reading("pass1")
  /\ InSection("data") \/ InSection("code")
  /\ Redefines(asm[line])
  /\ Die

\* Data starts behind the eight addresses that are registers.
Pass1Data ==
  LET l == asm[line]
  IN  /\ Reading("pass1") /\ InSection("data") /\ IsData(l)
      /\ ~IllegalName(l) /\ ~Redefines(l)
      /\ EnterLabel(l.label, data_index + 8)
      /\ data_index' = data_index + DataSize(l)
      /\ line' = line + 1
      /\ UNCHANGED <<asm, pass, section, code_index, data_mem, code_mem>>

Pass1Code ==
  LET l == asm[line]
  IN  /\ Reading("pass1") /\ InSection("code") /\ ~Redefines(l)
      /\ EnterLabel(l.label, code_index)
      /\ code_index' = code_index + CodeSize(l)
      /\ line' = line + 1
      /\ UNCHANGED <<asm, pass, section, data_index, data_mem, code_mem>>

\* The section is that of the file's end: it is not reset.
StartPass2 ==
  /\ pass = "pass1" /\ line > Len(asm)
  /\ pass' = "pass2" /\ line' = 1 /\ data_index' = 0 /\ code_index' = 0
  /\ UNCHANGED <<asm, section, symbol_table, data_mem, code_mem>>

-----------------------------------------------------------------------------
(* PASS-2.                                                                 *)

\* The condition bits are set before a conditional jump or call.
Prefix(op) ==
  CASE op \in ON_ZERO -> <<OP_CODE["CLR_BC"], OP_CODE["SET_BCZ"]>>
    [] op \in ON_NZ   -> <<OP_CODE["CLR_BC"], OP_CODE["SET_BCNZ"]>>
    [] op \in ON_OVF  -> <<OP_CODE["CLR_BC"], OP_CODE["SET_BCNZ"], OP_CODE["SET_BCZ"]>>
    [] op \in ALWAYS  -> <<OP_CODE["CLR_BC"]>>
    [] OTHER          -> <<>>

\* Of an address, eleven bits are kept.
AddressBytes(opcode, address) == <<opcode + ((address \div 256) % 8), address % 256>>

Encode(l) ==
  LET opcode == OP_CODE[l.op]
  IN  CASE l.op \in IMMEDIATE -> <<opcode + 4 * l.regs[1] + l.regs[2], l.imm>>
        [] l.op \in TRANSFER  ->
             Prefix(l.op) \o AddressBytes(opcode, symbol_table[l.target])
        [] l.op \in MEMORY    ->
             AddressBytes(opcode + 8 * l.regs[1], symbol_table[l.target])
        [] l.op \notin IMMEDIATE \cup TRANSFER \cup MEMORY /\ Len(l.regs) = 2 ->
             <<opcode + 4 * l.regs[1] + l.regs[2]>>
        [] OTHER -> <<opcode>>

\* An undefined opcode, or an undefined label.
Undefined(l) ==
  \/ Opcode(l) \notin DOMAIN OP_CODE
  \/ Opcode(l) \in TRANSFER \cup MEMORY /\ l.target \notin DOMAIN symbol_table

Pass2Undefined ==
  Reading("pass2") /\ InSection("code") /\ Undefined(asm[line]) /\ Die

Pass2Data ==
  LET l == asm[line]
  IN  /\ Reading("pass2") /\ InSection("data") /\ IsData(l)
      /\ data_mem' = data_mem \o l.bytes
      /\ data_index' = data_index + Len(l.bytes)
      /\ line' = line + 1
      /\ UNCHANGED <<asm, pass, section, symbol_table, code_index, code_mem>>

Pass2Code ==
  LET l == asm[line]
  IN  /\ Reading("pass2") /\ InSection("code") /\ ~Undefined(l)
      /\ code_mem' = code_mem \o Encode(l)
      /\ code_index' = code_index + Len(Encode(l))
      /\ line' = line + 1
      /\ UNCHANGED <<asm, pass, section, symbol_table, data_index, data_mem>>

\* data.txt and code.txt are opened, and so emptied, only now.
WriteImages ==
  /\ pass = "pass2" /\ line > Len(asm)
  /\ pass' = "done"
  /\ UNCHANGED <<asm, line, section, symbol_table, data_index, code_index,
                 data_mem, code_mem>>

AsmNext ==
  \/ Directive \/ Skip
  \/ Pass1IllegalName \/ Pass1Redefined \/ Pass1Data \/ Pass1Code \/ StartPass2
  \/ Pass2Undefined \/ Pass2Data \/ Pass2Code \/ WriteImages

\* The script is started on a file of its own, or by the compiler.
AsmFresh ==
  /\ line = 1 /\ section = "none" /\ symbol_table = <<>>
  /\ data_index = 0 /\ code_index = 0 /\ data_mem = <<>> /\ code_mem = <<>>

AsmInit(file) == asm = file /\ pass = "pass1" /\ AsmFresh

AsmSpec(file) == AsmInit(file) /\ [][AsmNext]_asmVars

-----------------------------------------------------------------------------
\* The files of README.md's format: they begin with a directive, and a data
\* line without a label has one byte. PASS-1 would count one byte of a longer
\* one, and PASS-2 emits a line before the first directive, which PASS-1 skips.
WellFormed ==
  /\ IsDirective(asm[1])
  /\ \A k \in DOMAIN asm : IsData(asm[k]) /\ asm[k].label = "" => Len(asm[k].bytes) = 1

\* A label's address, given in PASS-1, is where PASS-2 puts the bytes of its
\* line: the two cascades of conditions that count bytes and emit them agree.
LabelsAreWhereBytesAre ==
  Reading("pass2") /\ ~IsDirective(asm[line]) /\ asm[line].label # "" /\ WellFormed
  => symbol_table[asm[line].label] =
       IF section = "data" THEN Len(data_mem) + 8 ELSE Len(code_mem)

=============================================================================
