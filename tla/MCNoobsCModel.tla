--------------------------- MODULE MCNoobsCModel ---------------------------
(* The C model on every program of three instructions and a HALT.           *)
EXTENDS NoobsCModel, NoobsPrograms

MCStrayBytes == {255}
MCDataImages == {<<>>}

\* A menu with each kind of instruction. The jumps lead into the middle of
\* other instructions as well as to their first bytes.
MCMenu == {
  AluImm("ADD", 1, 0, 200), AluReg("SUB", 1, 0),
  STORE(1, 9), LOAD(0, 9), STORE(1, 4), LOAD(0, 5), STORE(1, 6),
  JMP(6), CALL(4), RET, SET_BCZ, SET_BCNZ }

\* Everything that stops fetching, taken or not, in loops and out of them.
MCTransferMenu == {JMP(0), JMP(4), CALL(3), RET, SET_BCZ, SET_BCNZ}

\* What a correct program avoids: illegal opcodes and registers, addresses
\* behind the data memory, a stack at the end of its page.
MCFaultMenu == {
  USR, LOAD(2, 7), STORE(3, 5), AluImm("ADD", 3, 0, 9), SET_ADR_MODE,
  STORE(3, 6), STORE(3, 2047), LOAD(0, 2047), CALL(4), RET }

MCFaultyPrograms == Then(Twice(MCFaultMenu), MCFaultMenu \ {CALL(4)})

\* A call whose return address reaches over the last byte of the data memory.
MCStackEndPrograms ==
  {AluImm("ADD", 3, 0, sp0) \o STORE(3, 6) \o CALL(7) \o HALT \o f :
     sp0 \in {254, 255}, f \in {RET, NOP \o RET}}

MCPrograms ==
  Then(Thrice(MCMenu), {HALT}) \cup Thrice(MCTransferMenu)
    \cup MCFaultyPrograms \cup MCStackEndPrograms

=============================================================================
