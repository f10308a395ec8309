----------------------------- MODULE MCNoobsRtl -----------------------------
(* The pipeline on every program of three elements followed by HALT: each   *)
(* pair and triple of neighbours in the pipeline occurs, and the jumps are   *)
(* the assembler's conditional mnemonics, which set the condition bits just *)
(* before they test them.                                                   *)
EXTENDS NoobsCallStack, NoobsPrograms

MCStrayBytes == {0}

MCMenu == {
  AluImm("ADD", 1, 1, 200), AluReg("ADD", 1, 1), AluReg("SUB", 1, 3),
  AluReg("XOR", 3, 1), STORE(1, 9), LOAD(3, 9), LOAD(0, 5), STORE(0, 10),
  STORE(1, 6), STORE(1, 3), SET_ADR_MODE, RET,
  Goto(IF_Z, 16, 4), Goto(IF_NZ, 24, 3) }

MCSequences == {Link(<<a, b, c, HALT>>) : a \in MCMenu, b \in MCMenu, c \in MCMenu}

MCDataImages == {<<>>}

\* Calls, returns and jumps as close to each other as they can be.
MCTransferMenu == {
  CALL(4), JMP(5), RET, SET_BCZ, SET_BCNZ, CLR_BC, AluImm("AND", 1, 1, 0),
  STORE(1, 6) }

\* R1 counts the activations: each runs body, calls the next one unless it
\* is the last, and returns. The subroutine is at address 8 and ends with
\* RET at once, or after two NOPs.
Recursion(depth, body, end) ==
  LET start == AluImm("ADD", 1, 1, depth) \o CALL(8) \o NOP \o HALT \o NOP \o HALT
      again == AluImm("SUB", 1, 1, 1) \o CLR_BC \o SET_BCNZ \o CALL(8)
  IN  start \o body \o again \o CLR_BC \o end \o RET

MCNested(depths) ==
  {Recursion(d, b, e) : d \in depths, b \in {<<>>, NOP, LOAD(2, 9)},
                        e \in {<<>>, NOP \o NOP, STORE(1, 9)}}

MCPrograms ==
  MCSequences \cup Then(Thrice(MCTransferMenu), {HALT}) \cup MCNested({1, 2, 3, 127})

\* A CALL, of a subroutine that the assembler placed behind the HALT.
MCHaltPrograms == {STORE(1, 9) \o HALT \o CALL(5) \o RET}

\* BC bits left behind by a first jump, then "R1 = 0" and a jump if it is.
MCStalePrograms == {AluImm("ADD", 1, 1, 1) \o SET_BCZ \o AluReg("XOR", 1, 1)
                      \o JMP(7) \o HALT \o HALT}

=============================================================================
