--------------------------- MODULE MCNoobsLockstep ---------------------------
(* Programs for both models. Where they are to agree, a conditional jump or *)
(* call comes right behind the instruction whose flags it tests, as the     *)
(* README's programming advice has it.                                      *)
EXTENDS NoobsLockstep, NoobsPrograms

MCStrayBytes == {0}
MCUnsetBytes == {0, 255}
MCDataImages == {<<7, 129, 255>>}

MCMenu == {
  AluReg("ADD", 1, 1), AluReg("AND", 0, 1), AluImm("XOR", 3, 1, 2),
  AluReg("SUB", 1, 3) \o LOAD(1, 5),
  STORE(1, 10), STORE(2, 3), STORE(1, 4), STORE(1, 6),
  LOAD(1, 9), LOAD(1, 10), LOAD(0, 6), SET_ADR_MODE, RST_ADR_MODE,
  Goto(AluImm("SUB", 1, 1, 1) \o IF_Z, 16, 4),
  Goto(AluImm("SUB", 1, 1, 1) \o IF_OVF, 16, 4),
  Goto(AluImm("ADD", 2, 1, 1) \o IF_NZ, 24, 6),
  Goto(CLR_BC, 24, 6) }

\* The call goes to a subroutine behind the HALT. The LOAD reads a byte that
\* nothing has written when it comes behind the XOR and SET_ADR_MODE.
MCPrograms == {Link(<<a, b, c, STORE(1, 11), HALT, AluImm("ADD", 1, 1, 1), RET>>) :
                 a \in MCMenu, b \in MCMenu, c \in MCMenu}

\* if (R1 + 1 = 0) {...} else if (R1 + 1 # 0) {store}
MCElseIf == {Link(<<AluImm("ADD", 1, 1, 1), Goto(IF_Z, 16, 4), Goto(IF_NZ, 16, 5),
                    HALT, STORE(1, 9), HALT>>)}

=============================================================================
