---------------------------- MODULE NoobsPrograms ----------------------------
(***************************************************************************)
(* Machine code for the models: the instruction encodings under the names  *)
(* the assembler gives them, and instruction memories built from them.     *)
(* Only the MC modules use this module.                                    *)
(***************************************************************************)
EXTENDS Naturals, Sequences

LOCAL AluCode(op) == CASE op = "ADD" -> 32 [] op = "SUB" -> 64 [] op = "AND" -> 96
                       [] op = "OR" -> 128 [] OTHER -> 160

\* Register form "op dst, src" and immediate form "opI dst, src, k".
AluReg(op, dst, src)    == <<AluCode(op) + 4 * dst + src>>
AluImm(op, dst, src, k) == <<AluCode(op) + 16 + 4 * dst + src, k>>
LOAD(r, a)  == <<192 + 8 * r + a \div 256, a % 256>>
STORE(r, a) == <<224 + 8 * r + a \div 256, a % 256>>
JMP(a)  == <<16 + a \div 256, a % 256>>
CALL(a) == <<24 + a \div 256, a % 256>>
NOP      == <<0>>
RET      == <<1>>
HALT     == <<2>>
SET_BCZ  == <<3>>
SET_BCNZ == <<4>>
CLR_BC   == <<5>>
SET_ADR_MODE == <<6>>
RST_ADR_MODE == <<7>>
USR      == <<8>>

\* The assembler's conditional mnemonics.
JMPNC(a)  == CLR_BC \o JMP(a)
JMPZ(a)   == CLR_BC \o SET_BCZ \o JMP(a)
JMPNZ(a)  == CLR_BC \o SET_BCNZ \o JMP(a)
JMPOVF(a) == CLR_BC \o SET_BCNZ \o SET_BCZ \o JMP(a)
CALLNZ(a) == CLR_BC \o SET_BCNZ \o CALL(a)

\* Every listing of the first set followed by every listing of the second.
Then(S, T) == {s \o t : s \in S, t \in T}

Twice(S)  == Then(S, S)
Thrice(S) == Then(S, Twice(S))

(* Listings with labels: an element is a listing, or <<"goto", prefix, op,  *)
(* k>>, the listing that transfers control to the start of the k-th element *)
(* behind prefix.                                                           *)
Goto(prefix, op, k) == <<"goto", prefix, op, k>>

LOCAL IsGoto(e) == Len(e) = 4 /\ e[1] = "goto"
LOCAL Size(e)   == IF IsGoto(e) THEN Len(e[2]) + 2 ELSE Len(e)

LOCAL Start(elements, k) ==
  LET from[i \in 1..k] == IF i = 1 THEN 0 ELSE from[i - 1] + Size(elements[i - 1])
  IN  from[k]

Link(elements) ==
  LET bytes(e) ==
        IF IsGoto(e) THEN e[2] \o <<e[3], Start(elements, e[4])>> ELSE e
      code[i \in 0..Len(elements)] ==
        IF i = 0 THEN <<>> ELSE code[i - 1] \o bytes(elements[i])
  IN  code[Len(elements)]

IF_Z   == CLR_BC \o SET_BCZ
IF_NZ  == CLR_BC \o SET_BCNZ
IF_OVF == CLR_BC \o SET_BCNZ \o SET_BCZ

=============================================================================
