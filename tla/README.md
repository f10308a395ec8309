# NoobsCpu in TLA+

NoobsCpu is an 8-bit CPU that exists twice: as a functional model in C
(`cmodel/`) and as a pipelined Verilog design (`vmodel/`). Both execute the same
programs, and the test suite compares the data memories they leave behind. This
directory states what the instruction set promises, shows that both
implementations keep the promise, says where they do not, and proves parts of
it for every program and every memory size. Around the CPUs it models the
compiler and the assembler that make their programs, the memory the C model
shares with other processes, and the UART and the text display of the two FPGA
systems.

Everything below refers to the source by path and line. All commands are run in
this directory: `tlc -workers 2 -config MCNoobsRtl.cfg MCNoobsRtl`,
`tlapm NoobsCModel_proofs.tla`. `.../sources_1` stands for
`nexysa7_blinky_soc/blinky_soc/blinky_soc.srcs/sources_1`.

## 1. The system

| Part | State it keeps | Operations | Hard behaviour |
|---|---|---|---|
| Instruction set (`*_defines.h`, `.vh`) | R0-R3, CR, SR, SP, PC, two memories | 8 one-byte control instructions, JMP, CALL, RET, 5 ALU operations with register and immediate forms, LOAD, STORE | memory-mapped registers, indirect mode, branch conditions held in CR, the stack in a 256-byte page |
| C model (`cmodel/NoobsCpu.c`) | the globals, `exec_params`, two static variables of `idecode()` | `execute()`, `idecode()`, `ifetch()`, called in this (reverse) order by `main()` | three overlapped stages on shared globals; stopping and restarting the fetch; unchecked array indices; `exit(1)` |
| RTL (`vmodel/*.v`) | the flip-flops of `ifetch`, `idecode`, `execute`, `reg_file` | one rising clock edge | up to three instructions in flight, forwarding, fetch redirected in mid-instruction, return addresses pushed and popped over two cycles |
| Regression suite (`tests/run_tests.sh`, `tb/`) | the two dumps | assemble, run the C model, run the RTL, `diff` | the two models must agree on every program |
| Assembler (`utils/noobsASM.pl`) | section, symbol table, two counters | PASS-1 sizes and labels, PASS-2 bytes | the passes must agree; addresses are cut to 11 bits |
| Shared memory (`cmodel/data_memory_share.h`, `libshared_util.c`, two Python programs) | the segment, `last_dmem_copy` | merge after each turn of the C model; write three bytes; copy a picture | three processes on the same bytes without a lock; a crash that leaves the segment behind |
| iCEStick SoC (`blinky_soc/`) | LED, UART registers, transmitter state | memory-mapped store and poll, baud clock, power-on reset | two clock domains; bytes dropped while busy |
| Nexys A7 SoC (`nexysa7_blinky_soc/`) | the same, cursor, clear unit, video RAM | store, character write, clear | as above; a write that is delayed by a cycle against its mode and cursor |
| NoobsC compiler (`utils/NoobsC/`) | tokens, tree, symbol tables, the generator's counters and label stack | lex, parse, check, generate, assemble | registers, temporaries, flags and the addressing mode kept from where they are set to where they are used, across calls; exceptions nobody catches |

Interaction: the compiler's five phases hand a text, tokens, a tree and assembly
on to each other; the assembler produces `code.txt` and `data.txt`; both CPUs
load them; the CPU talks to a data memory, in the SoCs with device registers mapped
into it; the C model mirrors its data memory into a shared segment when an
environment variable asks for it; the suite compares the dumps.

What makes each part correct:

- C model and RTL: programs run as if one instruction after the other,
  whatever overlaps inside; a stopped fetch is started again; the two bytes of
  an instruction stay together; the one bus to the data memory has one user at
  a time; calls return to where they came from; the two CPUs agree.
- Shared memory: each merge leaves both copies equal, undoes neither a store of
  the program nor an input, and changes travel in both directions in the end.
- UART: a byte handed over after a poll that answered "idle" is sent once,
  unchanged and in order.
- Display: each store acts as if at once; "cleared" means blank.
- Assembler: the two passes agree on every address.
- Compiler: the tokens and the tree are those the definition of the language
  gives the text; a program that is let through breaks no rule about names when
  it runs; what is generated can be assembled, and does on either CPU what the
  source says.
- Resets (not modelled): a released reset finds every register loaded.

## 2. Modules

| Module | What it models |
|---|---|
| `NoobsDefs` | decoding, ALU, flags, CR, memories: what both CPUs share |
| `NoobsIsa` | **abstract specification**: one instruction at a time |
| `NoobsCModel` | `NoobsCpu.c`; implements `NoobsIsa` |
| `NoobsRtl` | `vmodel/*.v`; implements `NoobsIsa` |
| `NoobsCallStack` | `NoobsRtl` with the stack of return addresses the program means |
| `NoobsLockstep` | `NoobsCModel` and `NoobsRtl` on the same program, as `run_tests.sh` |
| `NoobsPrograms` | the assembler's encodings; used by the MC modules of the CPUs only |
| `NoobsCAst`, `NoobsCLexer`, `NoobsCParser`, `NoobsCSemantic`, `NoobsCCodegen` | the nodes and the first four phases of the compiler, one operator per method |
| `NoobsAssembler` | `noobsASM.pl`, one action per line and pass |
| `NoobsCompiler` | the driver: one action per token, declaration and line |
| `NoobsCGrammar` | **reference**: which texts have which tokens and trees |
| `NoobsCMeaning` | **reference**: an interpreter of the tree |
| `NoobsCRules` | the rules a program has to keep beyond those the compiler checks |
| `NoobsToolchain` | compiler, assembler and either CPU (as `NoobsIsa`) in one run |
| `NoobsSharedMemory` | the C model's shared memory with its three processes |
| `NoobsUart` | program, crossing, transmitter and receiver of both boards |
| `NoobsChannel` | **abstract specification** of the UART |
| `NoobsDisplay` | registers, cursor, clear unit and video RAM of the Nexys A7 |
| `NoobsTerminal` | **abstract specification** of the display |
| `MCNoobs...` | menus of instructions and the programs made of them; small values |
| `NoobsDefs_proofs`, `NoobsCModel_proofs`, `NoobsRtl_proofs`, `NoobsCallStack_proofs`, `NoobsAssembler_proofs`, `NoobsSharedMemory_proofs`, `NoobsUart_proofs`, `NoobsDisplay_proofs` | lemmas and theorems |

### The compiler and the assembler

`NoobsCompiler` is `noobsc.py`: the phases in order, each entered only if the
one before it succeeded. A step is one token, one top-level declaration checked
or generated, or one line of assembly in one pass. Within a step the
operators of the phase's module compute what the method of the same name
computes: `NextToken`, `ParseDeclaration`, `CheckFunc`, `GenFunc`. Where a method
raises, the operator returns the exception (`raised`, position 0, `ok = FALSE`),
`Then` skips what the method would still have done, and the driver's `Fail`
decides: the compiler's own exceptions end it with exit
code 1, an `IndexError` in a traceback.

The parser's nine methods for binary operators differ in nothing but their
operators and are one operator, `ParseBinary(i, level)`. `NoobsCCodegen` passes the
`CodeGen` object on as a record; its labels are strings, since what can go wrong
with them is that two are equal. A line of assembly is a record (label,
instruction, registers, immediate, target), its text layout is left out.

`NoobsToolchain` loads the images of a successful compilation into `NoobsIsa`,
with the constants of either CPU, and runs it. Before that it asks
`NoobsCMeaning` for the result the program should have, and `NoobsCRules` whether
it is one the compiler is meant for. `NoobsCMeaning` interprets the tree: bytes
that wrap around, a fresh frame per call, locals without a value until they get
one. A program whose meaning depends on what the language does not define (an
uninitialised local, an index outside the array, an operator the CPU does not
have) has no result, and one that takes more than `FUEL` turns of loops and calls
has none either: nothing is claimed of them. The rules of `NoobsCRules`, each
named, are where the compiler silently does something else; section 6 has them.

`NoobsCGrammar` is written without looking at the compiler's methods: a lexeme
is defined by the characters of a span, a tree by the spans of its parts, as
the grammar that heads `parser.py` has it. A text outside the language has no
tree there and an ambiguous one would have several.

### The C model

A state of `NoobsCModel` is a state of the globals between two of the calls
`main()` makes; `phase` is the call that comes next. Every disjunct of `Execute`,
`Idecode` and `Ifetch` is one path through the function: one `case` of its
switch, its early return or one of its `exit(1)`. `ExecuteReturns`,
`IdecodeReturns` and `IfetchReturns` are the code at the end of each function
(clearing `execute_en`, saving `prev_instruction`, the test of `halted`). `pc`
is 16 bits wide as in the code, so that it wraps, and the bound in `ifetch()` is
checked after the increment.

An array index that leaves `data_mem` is undefined in C. A read then returns any
byte of `STRAY_BYTES`; a write is lost or changes the instruction memory, which
is defined next to it. `exec_pc` is the only history variable: the address of
the instruction last decoded.

### The RTL

The variables of `NoobsRtl` are the flip-flops, one operator stands for each
wire that matters, and `Next` is one rising edge. `ex` collects the registers
`idecode` drives into `execute` and `reg_file` (`exec_en`, `exec_ctrl`,
`exec_addr`, the register selects, the immediate), `ex1` those of `execute`
that are one cycle later (`execute_en_1D`, `exec_ctrl_1D`, `dst_reg_wr_sel`).
The edge is the conjunction of `Ifetch`, `Idecode`, `Execute`, `RegisterFile`
and `Memories`; only `Idecode` has alternatives, those of its `casez`.

`NoobsCallStack` adds the history variable `frames`, the return addresses the
program means: pushed when a taken CALL redirects the fetch, popped when a RET
has its address. A program that sets the stack pointer starts a new stack.

The ALU is the RTL's own: `Alu` has nine bits, as `{ovf_flag, reg_wr_data}` in
`execute.v:306`, where the C model computes in sixteen (`AluResult` of
`NoobsDefs`), so that a borrow has to come out as the same flag on both.

Abstractions: a register that reset leaves `X` is 0 (each is loaded
before it is used), a byte of data memory that `data.txt` leaves out is 0 as in the
block RAM of the boards (in the testbench it is `X`, see below), a bus nobody
drives shows the constant `FLOATING_BUS`, and
`PC` counts modulo `PC_SPACE`, 4096 in the code. The runs take 16 or 32 because
a program that runs past its end executes zeros, which are NOPs, up to the wrap
of `PC`; nothing but the length of that run depends on the number.

### What both implement

`NoobsIsa` has one action per kind of instruction. Its constants are the
differences that the code really has between the two CPUs:

| Constant | C model | RTL |
|---|---|---|
| `FLAG_CLEARING` | every JMP clears Z, NZ, OVF | a taken JMP or CALL and RET clear SR |
| `SP_CARRIES` | second stack byte at the next address | at the next `sp`, in the same page; a pop below address 0 reads the top of the 12-bit bus |
| `FETCH_LIMIT` | fetching at `INST_MEM_SIZE - 1` or later exits | none |
| `STRICT` | USR, LOAD of 7, STORE of 5 or 7 exit | USR and STORE of 5 do nothing, LOAD of 7 reads a floating bus, STORE of 7 writes the memory |

The refinement mapping of the C model leaves all registers as they are and only
computes the program counter (`ArchPc`): the instruction in `exec_params`, else
the one being decoded, else the next to be fetched. A store behind the
data memory may change an instruction byte that has been fetched already; the C
model then executes the old byte and `NoobsIsa` the new one. The runs have such
stores but none that hits the next instruction, and the proof has that as its
hypothesis (`PrefetchIntact`): `ImplementsIsa` says nothing of a program that
overwrites itself there. The mapping of the RTL
completes what is in flight, oldest first: the instruction that writes back
(`reg_wr_data`, `sr_next`, `sp_next`), then the ALU instruction behind it
(`Reading`), a pending memory write, and the return address as far as it has
been popped. An instruction counts as executed when its last byte is decoded. The
proof has two hypotheses, the two rules of section 6 that the pipeline does not
keep by itself (`BranchSeesLatestFlags`, `NothingBehindHalt`); the programs of the
run keep them, which it checks too.

### Both CPUs on one program

`NoobsLockstep` runs `NoobsCModel` and, when it has stopped, `NoobsRtl` on the same
program, and compares what the two dumps hold. The two memories differ before the
program starts: the C model's is an array of zeros, the testbench's
(`tb/data_mem.v:41`) is `X` wherever `data.txt` has no byte. When the RTL reads such a
byte, by a LOAD or by a RET on an empty stack, `ReadUnset` lets it be any byte of
`UNSET_BYTES`. A program that does so means nothing the CPUs could agree on: the
history variable `defined` says that the C model's run has read no byte that
nothing had written, and the properties are about such runs. In the dumps 0 stands
for what has no value, since the testbench writes `X` so (`tb_top.v:199`).

### The shared memory

`NoobsSharedMemory` has three processes that interleave at every access to the
segment. `cpu` is the place in the C model's code: `PutByte`, `CompareByte` and
`TakeByte` are the three lines of the loop in `update_shared_memory`, of which
the last two read the segment separately; `SaveCopy` is the copy into
`last_dmem_copy` that ends it. Of the CPU only its stores are there (`Turn`),
and whether it halts is left open. `Crash` is any `exit(1)` of the CPU, which
skips `deinit_shared_memory`; `Restart` is a new run that finds the old segment.
The kernel's part is `segment`: `IPC_RMID` marks a segment that is attached, and
the last process to detach destroys it (`Detach`). The input process attaches,
writes its bytes one by one and detaches (`libshared_util.c:41`), the display
copies all of the segment (`libshared_util.c:25`). Failing system calls other
than not finding the segment, and drawing the picture, are left out.
`overtaken` is a history variable: the bytes input has written since the merge
last passed them.

### The UART

`NoobsUart` has two clocks. `FastEdge` is a rising edge of `clk50m`: crossing
flip-flops, baud counter, transmitter, and the receiver at the other end, which
is not part of the repository and stands for any terminal at the same speed.
`CpuEdge` is a rising edge of `cpu_clk`: the store or poll on the bus takes
effect and the program picks the next one. The program is `WAIT_BUSY` of
`blinky.asm` with arbitrary delays: it stores only after a poll that answered
idle. Two accesses never follow each other directly, since LOAD and STORE are
two bytes long. `phase` keeps the clocks to between `MIN_FAST` and `MAX_FAST`
fast edges in a slow cycle, in any phase of the baud counter. `board` is the one
difference between the two designs: the iCEStick detects the edge of the
synchronised strobe (`blinky_soc.v:165`), the Nexys A7 feeds `tx_data_wr` to
the transmitter as a level (`.../sources_1/blinky_soc.v:240`).

### The display

A step of `NoobsDisplay` is one `cpu_clk` edge, and each conjunct of `Next` one
group of registers. What is hard is that a character is written a cycle after
its store, with the mode and cursor of that later cycle, while `col` and `row`
have moved on and the clear unit may have started. `Shown`, the screen with the
write under way already done, is the refinement mapping: in `NoobsTerminal`
every store acts at once. Mode 3 of the control register, the read side of the
video RAM and the fonts are left out. Columns and rows count further than the
screen (`COL_SPACE`, `ROW_SPACE`), as in the code.

## 3. Runs

| Run | Properties | What it shows | Distinct states |
|---|---|---|---|
| `c_model_isa` | `TypeOK`, `StallHasTransfer`, `SecondByteFollows`, `ImplementsIsa`, `FetchResumes` | 1728 programs: every sequence of three of 12 instructions, then HALT; 216 of jumps, calls and returns, with loops; 900 that do what a correct program avoids; stacks at the end of the data memory | 1,307,596 |
| `rtl_isa` | `TypeOK`, `ImplementsIsa`, `DataBusExclusive`, `SecondByteFollows`, `ReturnCompletes`, `ReturnsMatch`, `BranchSeesLatestFlags`, `NothingBehindHalt` | 2744 programs: every sequence of three of 14 elements, then HALT; 512 of transfers and their neighbours; calls nested 1, 2, 3 and 127 deep with nine ways to fill the code between CALL and RET | 577,382 |
| `lockstep` | `SameDataOut`, `RtlHaltsToo` | 4913 programs on both CPUs: every sequence of three of 17 elements, then STORE and HALT, with a subroutine behind it | 284,529 |
| `shared_memory` | `TypeOK`, `MergeAgrees`, `OwnStoresStay`, `InputNotUndone`, `InputArrives`, `FrameArrives` | three processes on three bytes, with two runs of the C model | 836,633 |
| `uart` | `TypeOK`, `IdleMeansFree`, `ImplementsChannel`, `AllArrive` | three bytes on either board, in every phase of the clocks | 85,804 |
| `display` | `TypeOK`, `ClearedMeansBlank`, `ImplementsTerminal`, `ClearFinishes` | every sequence of stores, on a screen of 2 x 3 | 1,848,996 |
| `toolchain` | `TokensAreLexemes`, `TreeIsTheGrammars`, `AnalysedNeverGoesWrong`, `CrashesAreKnown`, `GeneratedAssembles`, `LabelsAreWhereBytesAre`, `RunsAsWritten`, `ProgramsHalt` | 24,821 texts; of the programs among them, 250 that keep the rules run on each CPU to an end | 580,832 |
| `rtl_after_halt` | `HaltStops` | **violated**, see section 6 | |
| `rtl_stale_flags` | `BranchSeesLatestFlags` | **violated** | |
| `lockstep_else_if` | `SameDataOut` | **violated** | |
| `display_at_cursor` | `TypedAtCursor` | **violated** | |
| `toolchain_calls` | `RunsAsWrittenAnyway` | **violated**, twice in one program | |

The properties, in words:

- `ImplementsIsa` (refinement, both CPUs): every behaviour is one of `NoobsIsa`.
  A wrong forward, a stale operand, a byte of the wrong path that takes effect,
  a flag seen too early, a lost or doubled instruction all violate it.
- `StallHasTransfer`: while `ifetch_en` is 0 a transfer that sets it again is in
  `exec_params`. `FetchResumes` is the liveness form of it.
- `SecondByteFollows`: no bubble between the two bytes of an instruction; the
  "Something wrong with OPCODE" exit (C) and the `fatal_err` assertion (RTL) are
  not reached.
- `DataBusExclusive`: the assertion `data_memory_access_error` of `noobs_cpu.v`.
- `ReturnCompletes`: after a RET the decoder sees instructions again.
- `ReturnsMatch`: fetching goes on behind the call that is being returned from.
  It is stated for stack pointers below 254: the pair of bytes that ends the page
  is read back from the page below, in both CPUs, so 127 calls can be nested from
  an empty stack and not 128.
- `BranchSeesLatestFlags`: a jump or call is taken or not as the flags say that
  all instructions in front of it leave, also those still in the pipeline.
  `NothingBehindHalt`: what is decoded after a HALT has no effect. Both depend on
  the program: those of `rtl_isa` keep them, `rtl_stale_flags` and
  `rtl_after_halt` have programs that do not.
- `SameDataOut`, `RtlHaltsToo`: what `run_tests.sh` compares, and that there is
  a second dump to compare; for programs that read no byte of data memory that
  nothing has written (`defined`).
- `MergeAgrees`: after a merge the private and the shared memory are equal,
  except in what input has written since.
- `OwnStoresStay`, `InputNotUndone`: a merge changes no byte that only the
  program writes, and writes no byte that only the input process writes,
  although it decides from a copy that is a turn old.
- `InputArrives`, `FrameArrives`: a byte does not wait for ever behind others
  that keep changing, as long as the C model runs.
- `IdleMeansFree`: a poll cannot answer "idle" while a byte is still on its way
  to the transmitter, which would ignore or overwrite it.
- `ImplementsChannel`, `AllArrive`: what arrives is what was stored, all of it.
- `ClearedMeansBlank`, `ClearFinishes`: however a clear is interrupted,
  requested again or mixed with other writes.
- `ImplementsTerminal`: no character is drawn in another mode or place than that
  of its store.
- `TokensAreLexemes`, `TreeIsTheGrammars`: lexer and parser find what the
  definition of the language says, they refuse exactly what is outside of it,
  and the tree is the only one there is.
- `AnalysedNeverGoesWrong`: what the analyser accepts does not meet an undeclared
  name, an array without index, a void value or a wrong number of arguments when
  it is interpreted.
- `CrashesAreKnown`: a traceback has one of two known causes.
- `GeneratedAssembles`: the assembler refuses a generated file only for a missing
  `main` or a name that looks like one of the generator's own.
- `LabelsAreWhereBytesAre`: PASS-2 is where PASS-1 said it would be at each label,
  for files of the format that README.md:206 describes (`WellFormed`): a directive
  comes first, and a data line of several bytes has a label.
- `RunsAsWritten`: a program that keeps the rules and halts on either CPU leaves in
  its global variables what `NoobsCMeaning` says. `ProgramsHalt`: it does halt.

Bounds. A program is three menu elements long because the pipeline holds at
most three instructions: every neighbourhood in it occurs, in straight-line
code, as a jump target and across a call. The menus have each kind of
instruction at least once, with operands that make carry, borrow and zero occur
and that hit the memory-mapped registers. Jumps of the C model's menu lead also
into the middle of instructions. Data memories keep the code's size (2048, the
testbench's 4096); four programs move the stack to the end of it, so that a push
crosses it. Recursion 127 deep is the most that the stack page holds. The
lockstep menu is the one in which the CPUs might come to differ: branches on Z, NZ and
OVF behind a carry and a borrow, SR and SP loaded and stored, CR and R3 stored,
indirect access, calls. A byte without a value is 0 or 255. Its only RET ends the
subroutine: a RET on an empty stack returns to a byte nobody wrote, of which no more
can be said than that the program is not `defined`.

The toolchain's texts are: every string of up to three of 15 characters at which
lexemes of different kinds meet, and of four of the seven that make comments,
escapes and prefixes; every initialiser of up to four of 11 tokens, and those in
which three binary operators of different or of equal levels meet unary ones;
five programs that use every construct, with each token left out or replaced by
seven others; every ordered pair of 35 statements, right
and wrong ones, in a `main` with global variables, an array and four functions;
and 16 whole programs, four of them of the kind in `examples/`. Where the
reference definitions enumerate all readings, `MAX_TEXT` (8 characters) and
`MAX_TOKENS` (30) say up to which length they are asked. `FUEL` (60) is more than
any of the programs needs that end, except the `while (1)` of the LED and loops
that count through all bytes. The assembler is also given all of its mnemonics,
files it refuses, lines before the first directive, labels that start with a digit, and
sections in another order. The CPUs are `NoobsIsa`, which
`c_model_isa` and `rtl_isa` show them to implement.

The shared memory's three bytes are one that only the program writes, one for
input only and one for both; the merge handles bytes independently, so more of
them add neighbours of the same three kinds. Two runs of the C model are one
that leaves a segment behind and one that finds it. The UART's bits are five
fast cycles long and a CPU cycle one to three (436 + 1 and 32 or 268 in the
designs): what matters is that a CPU cycle is not longer than nine bits and that a
bit has a middle, which `UartAssumption` states, and that the phases drift
against each other. The bytes
are all zeros, all ones and an asymmetric mix. The display's 2 x 3 cells in a
4 x 4 register space have a first, an inner and a last column, a wrap of the
row, and places off the screen in both directions.

Programs that end in an endless loop are finite in state, as all registers are
bounded; nothing is cut off by a constraint. Deadlock is checked in every run:
`Terminated` lets an ended process stay as it is, and a halted RTL goes on
ticking.

Fairness. `FairSpec` of the C model is weak fairness of `Next`: `main()` is one
sequential loop without waiting, so it keeps making its next call. That of the
RTL is weak fairness of the clock edge (`tb_top.v:115`). `NoobsLockstep` has
weak fairness of the two runs' next step. The shared memory has weak fairness of
the C model's and of the display's loop, neither of which waits for anyone; none
of the input process, which waits for a user. A crash needs no fairness and is
allowed for in the liveness properties. The UART and the display have weak
fairness of their clocks; which of the two UART clocks ticks is bounded by
`phase`, not by fairness. The program is never forced to store. The toolchain
has weak fairness of `Execute`, the simulator's loop or the clock, and of nothing
else: a compilation may be given up at any point.

## 4. Proofs

TLAPS checks, for every value of the constants that satisfies the assumptions:
both CPUs for every size of the memories, every program and every data; the
assembler for every file of its documented format; the shared memory for every size and every choice of the bytes the two sides write;
the UART for both boards, every baud rate, ratio of the clocks and number of
bytes; the display for every size of the screen.

| Theorem | States |
|---|---|
| `TypeCorrect` | `Spec => []TypeOK` for the C model |
| `StallCorrect` | `Spec => []StallHasTransfer` |
| `SecondByteCorrect` of `NoobsCModel_proofs` | `Spec => []SecondByteFollows` |
| `IsaCorrect` | `Spec /\ PrefetchIntact => ImplementsIsa`: the C model refines `NoobsIsa` |
| `InBoundsIsaCorrect` | `Spec /\ []StoresInData => ImplementsIsa` |
| `RtlTypeCorrect` | `Spec => []TypeOK` for the RTL |
| `BusCorrect` | `Spec => []DataBusExclusive` |
| `SecondByteCorrect` of `NoobsRtl_proofs` | `Spec => []SecondByteFollows` for the RTL |
| `AluAgrees` | the nine-bit ALU of the RTL and the C model's of sixteen bits have the same lower byte and show the same flags, for every operation and all operands |
| `RtlIsaCorrect` | `Spec /\ []NothingBehindHalt /\ []BranchSeesLatestFlags => ImplementsIsa`: the RTL refines `NoobsIsa` |
| `SettledIsaCorrect` | `Spec /\ []HaltsEndCode /\ []BranchesSettle => ImplementsIsa` |
| `LatestFlagsCorrect` | `Spec /\ []HaltsEndCode /\ []BranchesSettle => []BranchSeesLatestFlags` |
| `BehindHaltCorrect` | `Spec /\ []HaltsEndCode /\ []BranchesSettle => []NothingBehindHalt` |
| `HaltCorrect` | `Spec /\ []HaltsEndCode /\ []BranchesSettle => HaltStops`, an action property |
| `ReturnsCorrect` | `StackSpec /\ []StackKept => ReturnsMatch`, an action property |
| `LabelsCorrect` | `AsmSpec(file) => []LabelsAreWhereBytesAre`, for every `file` with `IsFile(file)`, a list of lines |
| `SharedTypeCorrect` | `Spec => []TypeOK` for the shared memory |
| `MergeCorrect` | `Spec => []MergeAgrees` |
| `OwnStoresCorrect` | `Spec => OwnStoresStay`, an action property |
| `InputCorrect` | `Spec => InputNotUndone`, an action property |
| `UartTypeCorrect` | `Spec => []TypeOK` for the UART |
| `IdleCorrect` | `Spec => []IdleMeansFree` |
| `ChannelCorrect` | `Spec => ImplementsChannel`: the UART refines `NoobsChannel` |
| `DisplayTypeCorrect` | `Spec => []TypeOK` for the display |
| `ClearCorrect` | `Spec => []ClearedMeansBlank` |
| `TerminalCorrect` | `Spec => ImplementsTerminal`: the display refines `NoobsTerminal` |

The assumptions for the C model: the instruction memory holds a two-byte
instruction and at most 2048 bytes (`NoobsCpu_defines.h:6`), since a CALL pushes
eleven bits of the return address (`NoobsCpu.c:276`), the data memory the eight register addresses, programs and data are
bytes and fit their memories, and a stray read returns a byte. For the shared
memory: it is not empty, 0 is a byte, the bytes written lie within it, input
writes at least one byte, and the C model is started at least once. For the RTL:
the PC has one to twelve bits (twelve in the code) and reaches every instruction, and every address
of the 12-bit data bus is a byte of the memory (`tb/data_mem.v:41`; on the
Nexys A7, with half of it, the upper addresses fold). For the UART: a bit takes
at least three fast cycles, or it has no middle to be sampled at, and a cycle of the
CPU at most the nine bits before the stop bit. With a longer one the strobe of the Nexys A7
is still there when the transmitter is idle again, and the byte is sent twice: TLC
finds this from three fast cycles more on, so a frame of ten bits, which an
earlier version of the assumption asked for, is not enough. For the display: rows and columns fit the registers
that count them, a row register has room for one more row than the screen, where
the clear unit stops, and NUL and the carriage return are not drawn.

**C model.** `TypeOK` is inductive by itself. The argument goes by parts of the
state (`NextControl`, `NextMemory`, `NextRegister`, `NextDecode`), each of which
needs the operators it is computed from to be bounded: `AluResultType`,
`WithFlagsType`, `CrAfterType`, `AddressType`, `LoadType`, `StoreType` and others
in `NoobsDefs_proofs`.

`StallHasTransfer` is not inductive. When the second byte of a JMP stops the
fetch, that a JMP is in `exec_params` is known only from its first byte, one
turn earlier. The inductive invariant is

    IInv == TypeOK /\ StallHasTransfer /\ SecondBytePending

where `SecondBytePending` says that between its two bytes an instruction has
its control already in `exec_params`, is not enabled yet, and that fetching goes
on. `ExecuteKeeps`, `IdecodeKeeps` and `IfetchKeeps` show that each of the three
calls keeps it; `SecondByteFollows` follows from it because only kinds with a
second byte set `imm_mode` (`SecondByteKind`).

`ImplementsIsa` is the second part of `NoobsCModel_proofs`. What the three
calls know of the instruction under way is

    IsaInv == status = "running" => Fetched /\ Stages /\ UnderWay

`Fetched`: a byte handed to `idecode()` is what the memory holds. `Stages`: which
enables may be set in which phase, above all that nothing is decoded behind a
transfer before `execute()` has decided it. `UnderWay`: `exec_params` is what the
first byte at `exec_pc` calls for (`Started`), with the register values as they
still are, and, once enabled, its second byte too (`Completed`). That `execute()`
then does what `NoobsIsa` does is one lemma per group of kinds (`ComputeStep`,
`MemoryStep`, `TransferStep`, ...); `idecode()` is a step of `NoobsIsa` where it
alone acts (SET_BCZ, CLR_BC, the illegal USR) and a stutter elsewhere, and
`ifetch()` where it ends the run (HALT, the end of the memory). `StepRefines`
puts them together.

The theorem cannot do without a hypothesis on the program: a store that overwrites
the one byte fetched ahead is executed by `NoobsIsa` as the new byte and by the C
model as the old one. `PrefetchIntact` excludes that byte and nothing
else. `InBoundsIsaCorrect` has a hypothesis one can check on a
program instead: its STOREs stay inside the data memory. Its CALLs may push
outside, since nothing is fetched yet when they do (`OnlyStoresHit`).

**Shared memory.** What holds at the end of a merge has to be known in the
middle of it:

    IInv == TypeOK /\ MergeAgrees /\ MergedBelow /\ ProgramCells /\ OtherCells

`MergedBelow`: what the loop has passed agrees. `ProgramCells`: a byte that only
the program writes is in the segment as `last_dmem_copy` has it above the loop
and as `data_mem` has it below, so the comparison never finds a difference that
is not the program's own store. `OtherCells`: a byte the program does not write
equals its copy until the loop reaches it, so it is never written out. Starting
again on a segment that a dead run has left is covered, because the first thing
a run does is to overwrite all of it (`CopyOut`).

**RTL.** The three invariants are about instructions in different stages, so the
inductive one says what the stages know of each other:

    IInv == TypeOK /\ FetchGoesOn /\ BetweenBytes /\ BusProtocol

`BetweenBytes`: while the second byte of an instruction is awaited it is in
`inst_reg`, because a first byte is decoded only when no return is being restored
(the decoder sees zeros then, and zero has no second byte) and only HALT, which
has none either, ends the fetching. `BusProtocol`: `store_upper` and
`store_lower` follow a CALL by one and by two cycles (`ex.ctrl`, `ex1.ctrl`), an
instruction with an address is followed by the bubble of its second byte, and a
RET by NOPs, since `func_ret` is set with it. Of the nine ways to read and write
the bus in one cycle five need two instructions in one stage, and the others a
CALL, RET or STORE where a bubble or a NOP must be (`InvBus`). The condition
`~halted` matters: behind a HALT a CALL stays in `ex.ctrl` and goes on pushing,
which is the finding of `rtl_after_halt`, but then no RET starts any more.

`ImplementsIsa` again is the second part of the module. Its invariant
says what the refinement has to know of the instructions in flight:

    IsaInv == /\ sr \in FlagValues /\ (ex.en => ~ex.imm_vld)
              /\ halted => Stopped
              /\ ~halted => ReturnStages /\ Fetched /\ HalfDecoded /\ FullyDecoded

`Fetched`: the byte to be decoded is what the memory holds in front of the `PC`.
`HalfDecoded`: between its two bytes an instruction has in `ex` what its first byte
calls for (`StartedWith`), a branch is decided already, and only an ALU
instruction in front of it may still write back. `FullyDecoded`: otherwise `ex` holds
nothing that takes a second byte. `ReturnStages`: a RET is in one of its four cycles
(`PopsLower`, `PopsUpper`, `Redirects`, `Masked`), each of which leaves the others'
flip-flops alone. `Stopped`: behind a HALT only an ALU instruction is left.

The argument goes edge by edge. An edge that decodes no last byte only carries on
what the mapping has counted already: `Settled` shows it for registers, flags,
CR, memory and stack pointer in turn (`RegsSettle`, `FlagsSettle`,
`ControlSettles`, `MemorySettles`, `StackSettles`), `PcWaits` and
`ReturnProceeds` for the program counter, whose value in the middle of a return is
spread over the memory and two registers. An edge that decodes a
last byte is one step of `NoobsIsa` (whose ALU is that of `NoobsDefs`, to which
`AluAgrees` leads the RTL's): one lemma per kind of instruction
(`ControlStep`, `RegisterAluStep`, `ReturnStep`, `ImmediateAluStep`, `LoadStep`,
`StoreStep`, `JumpStep`, `CallStep`, `CallNotTakenStep`). For two-byte
instructions `BeforeSecond`, `AfterSecond` and `KeptBySecond` say what the program
sees before and after that edge. `StepRefines` puts them together.

Both hypotheses are needed: without `BranchSeesLatestFlags` a branch behind a
register-form ALU instruction goes the wrong way (`rtl_stale_flags`), without
`NothingBehindHalt` a CALL behind a HALT pushes and a SET_BCZ there changes CR
(`rtl_after_halt`). They speak of wires; `SettledIsaCorrect` has instead what a
programmer can keep to: no conditional branch directly behind an ALU instruction on
registers, no branch directly behind a STORE to CR (`BranchesSettle`), and neither
CALL nor a control instruction directly behind a HALT (`HaltsEndCode`). The
assembler's conditional mnemonics, which start with CLR_BC, keep to the first by
construction. TLC finds that every program of `rtl_isa` meets these two as well.

For these programs the two wire-level rules are theorems themselves
(`LatestFlagsCorrect`, `BehindHaltCorrect`), and so is `HaltStops`, which
`rtl_after_halt` refutes for others: `SettledInvariance` carries `BehindHalt`, what
is known of the byte decoded after a HALT, together with `IsaInv`, since each is
needed for the next step of the other. That a branch sees the latest flags needs
that nothing in front of it can still change them: a RET clears them two cycles later,
but no branch is decoded meanwhile (`WhileReturning`).

**Call stack.** `ReturnsMatch` compares a history variable with bytes in a memory that
STOREs can write, so the theorem has a hypothesis on the program:
`StackKept` lets no STORE hit a cell that is in use and none to CR change the page
while a call has still to return. STORE to SP is allowed, and starts a new stack.
The cells are counted from the top of the stack, around the page:

    StackHeld == OnTheWay /\ Held(data_mem, PageOf(cr), Top, frames, IF store_lower THEN 2 ELSE 1)

`Held`: the return address `frames[i]` is in cells `2i - 1` and `2i`. A call pushes its two
bytes in two cycles and a return pops them in two others, so `Top` is ahead of or
behind `sp_lsb` in between, and `OnTheWay` says which bytes are in `ret_addr0` and
`ret_addr1` meanwhile. That the cycles of a call and of a return never overlap is
`OnePhase`, from the stages of a return (`Returns`, the part of `IsaInv` that needs no
hypothesis) and `BusProtocol`. Each of the five cycles has a lemma (`UpperStep`, `LowerStep`,
`LowerPopStep`, `UpperPopStep`, `ResumeStep`), `OtherStep` is all the rest, with
the STOREs. With 128 frames the cells of the page are used up: a further
push overwrites the oldest pair and `Newest` forgets it (`UpperPushed`). What the
hardware reads back from the page below is left out where `sp_lsb` is too high, as in
the property. `StackInv` was checked with TLC on the programs of `rtl_isa`, all of
which meet `StackKept`.

**Assembler.** How many bytes stand in front of a line is a recursive sum, of which
nothing can be proved here by induction. The invariant does without: it says that there
are three tables `d`, `c` and `s`, with the counters and the section at the start of every
line read so far, that they go on from line to line as PASS-1 counts (`Counted`) and
that the symbol table has its addresses from there (`Entered`). PASS-1 extends the
tables by a line, PASS-2 finds in them what it has put out (`FirstPass`,
`SecondPass`). That the two cascades of conditions on the mnemonic agree is
`SizeIsLength`. The property's own condition, `WellFormed`, is used twice: PASS-2
begins in the section in which PASS-1 ended, so that only a directive in the first line
brings it back into step, and a data line without a label must have the one byte
that PASS-1 counts. `IsFile` only says what a file is: a list of lines, of which those
of data have lists of bytes. It asks nothing of labels, mnemonics, operands or the order
of the sections.

**UART.** `IdleMeansFree` needs `AccessAlone`: an access is on the bus only when
the strobe of the last store is over, and, one fast edge later, its copy in the
first synchronising flip-flop too. A slow cycle has at least one fast edge, so a
poll that finds the transmitter idle finds the crossing empty.

`ImplementsChannel` adds what is in the transmitter, on the line and in the receiver:

    ChannelInv == IInv /\ WriteKnown /\ InFrame /\ Quiet /\ Account /\ Strobe

`Account` says where each byte is that was stored and has not arrived: behind its
frame in the receiver, in the transmitter, or in the crossing, at most one in
each, and with the value stored. `InFrame` keeps transmitter and
receiver in step: the line shows the bit at the transmitter's position, and the
receiver has shifted in the bits whose middle is past (`SampledAt`). `Quiet` is the
line between two frames. `Strobe` says that a strobe is used once: on the
iCEStick because it has passed the first flip-flop, on the Nexys A7 because the
frame it started is at least as old as the strobe and both end with the CPU's cycle
first. An arriving byte is `Channel!Arrive`, a store `Channel!Store`, all else a
stutter.

**Display.** `ClearedMeansBlank` needs to know how far the clear unit has come:
`BlankBehind` orders the cells as the unit visits them and says that in clear
mode all before its place are blank; a request in any other mode starts at the
first cell, one during a clear does not set it back. The refinement needs only
the types. `TerminalStep` goes by mode and register: outside clear mode the write
under way is done by the next edge (`WriteDone`), so the step's own store is what
the screen with the next write under way differs by; in clear mode the edge blanks
one cell (`ClearStep`), and a store that leaves the mode starts no write.

Each `IInv` and `IsaInv` was model-checked before it was proved.

A caution for who extends the proofs: the SMT translation of this tlapm is not
reliable when `Len(...)` and membership in a set of functions whose domain may
hold 0 are in one obligation. The modules whose state has such functions (memories,
screens) therefore use no `Len`, and declare the input bytes as a function on
`1 .. INPUT_BYTES`; obligations with `FALSE` as the goal and the same hypotheses
fail, as they must. A leaf that fails under SMT and holds a large numeral keeps
Zenon busy for minutes; such leaves cite `SMT`.

Only model-checked: the lockstep comparison, the compiler, and all liveness,
which needs ENABLED. What a recursive definition yields for every input cannot
be proved here either, and the compiler is recursive throughout; the modules
with theorems have no such definition.

## 5. Not modelled

- The power-on reset of the iCEStick, its clock divider and the Nexys A7's reset
  button; the RTL under a reset in mid-program.
- The testbench's loading, cycle limit and dump, and how the suite starts the
  two simulations: its comparison is `lockstep`.
- A program that stores to the UART without polling, on the strength of a delay
  (`.../sources_1/blinky.asm:50`): how long a delay loop takes against a frame is
  a matter of real clock rates.
- The assembler's reading of a line (white space, comments, numbers written as
  operands) and its debug output. Only labels are modelled as targets, since the
  compiler writes no addresses. An instruction in a data section, which the
  assembler takes for numbers, is left out too.
- The compiler's messages with their lines and columns, the output of `--lex` and
  `--ast`, and where it puts its files.
- `gen_fpga_mem.pl` (one text in, another out), pixel generation and fonts, pin
  and timing files, the vendored Xilinx database (`artix7/`) and its tools.

Proofs that are still worth doing: `SameDataOut`, from the two refinements. It
takes an invariant that relates the two CPUs between their runs through a third copy
of `NoobsIsa`, and a rule for programs on which `FLAG_CLEARING`, `SP_CARRIES` and
`STRICT` make no difference.

## 6. Where code and documents disagree

Checked by a run that finds the counterexample:

- **Else-if** (`lockstep_else_if`): the C model clears the flags at every JMP,
  taken or not (`NoobsCpu.c:87`), the RTL only at a taken one. `JMPZ a` followed
  by `JMPNZ b` jumps on the RTL and falls through on the C model.
- **Stale flags** (`rtl_stale_flags`): the RTL decides a jump when its first byte
  is decoded (`idecode.v:388`). Behind a one-byte ALU instruction this is one
  instruction too early. The assembler's `JMPZ`, `JMPNZ` and `JMPOVF` start with
  two or three one-byte instructions and are not affected; a bare `JMP` with
  condition bits set is.
- **HALT** (`rtl_after_halt`): a CALL already fetched behind a HALT pushes its
  return address (`idecode.v:133` lacks `~halted`).
- **Cursor** (`display_at_cursor`): in auto mode the column advances in the cycle
  of the store (`.../sources_1/blinky_soc.v:321`) and the character is written a
  cycle later, in the next column. The first character of a line appears in its
  second column, the 40th in its first. README.md:743 describes a terminal whose
  cursor advances with each character.
- **Arguments** (`toolchain_calls`): they are computed from the last to the first
  and wait in their registers (`codegen.py:361`). `add(x + 1, 2)` computes `x + 1`
  with R1, where the 2 is waiting, and calls `add` with R1 = 1 (`codegen.py:25`
  promises the arguments in R0, R1, R2).
- **Temporaries** (the same run): in `x + inc(2)` the value of `x` waits in
  `__tmp0` while `inc` runs, and `inc` uses `__tmp0` for an operand of its own.
  `_push_tmp` (`codegen.py:552`) looks for "the next free" slot (`codegen.py:43`) in
  the function at hand only. The run ends with 3 in `sum` and 5 in `next`, where
  either of the two statements should give 4.

The compiler's other limits are the rules of `NoobsCRules`, under which
`RunsAsWritten` holds; without them programs are compiled to something else, in
silence:

- `CalleesKeepTemporaries`: `__tmp0` to `__tmp3` belong to all functions, as above.
- `CharFunctionsReturn`: a `char` function whose end is reached falls into the next
  function. `compiler_guide.html:674` lists it among the errors that are found.
- `NoRecursion`: `compiler_guide.html:736` says NoobsC "explicitly disallows" it,
  README.md:520 that nothing checks it; nothing does.
- `LiteralInitialisers`: README.md:542 has no initialisers of global variables;
  literal ones work, all others are accepted and dropped (`codegen.py:142`).
- `NoLateShadowing`: before the declaration of a local name the analyser takes the
  name for the global variable, the generator for the local one.
- `NoArrayInFor`: an array declared in a `for` gets one byte.
- `MainHasNoParameters`: a `main` with parameters is not refused, and nothing
  gives them values.
- `TwiceIsOnce`: the index of `a[f()] += 1` is computed twice.

Four parameters are a traceback (`CrashesAreKnown`), where README.md:540 has a
"compile error"; so is a character literal that the end of the file cuts off. The
grammar of `parser.py:26` allows `char a[2] = 5;`, the method refuses it.
`(a + (b + (c + (d + e))))`, the example of README.md:553 for an expression too
deep, compiles: only the left operands wait. Names that collide with generated
labels (`__tmp0`, or `f_x` beside a parameter `x` of `f`) and a missing `main` are
found by the assembler at the earliest.

Seen while modelling, without a run of their own: `README.md:167` has SR updated
by memory accesses, which neither CPU does; `README.md:159` calls address 6 the
upper bits of SP, it is the lower eight; `README.md:131` has the decode stage
stall the fetch for a second byte, it never does; `README.md:51` has 2 KB of
instruction memory, of which the C model cannot fetch the last byte
(`NoobsCpu.c:544`); a bare `JMP` is "unconditional" (`README.md:335`) only while
CR's condition bits are clear. Nothing ever sets ST_OVF
(`execute.v:219`), which `README.md:172` describes. `cmodel/README:15` offers to
keep the shared view after the C model has finished, but
`data_memory_share.h:63` removes the segment then. The Nexys A7's "CPU Reset
Button" stops `cpu_clk` (`.../sources_1/blinky_soc.v:86`, 104), so that the
synchronous reset of the CPU and its registers never sees an edge while it is
pressed. A program of more than 2040 bytes of data has its last addresses
cut to eleven bits (`noobsASM.pl:236`), one of more than 1784 shares the page of the
stack; neither is reported. PASS-1 counts one byte of a data line that has several
and no label (`noobsASM.pl:97`), so that all data labels behind it are too low, and the
section is not reset between the passes (`noobsASM.pl:47`, 166): a line before the first
directive is skipped by PASS-1 and emitted by PASS-2. Neither is reported, though
neither is in the format of README.md:206. A code label may start with a digit in
spite of `README.md:217`: only data labels are tested (`noobsASM.pl:99`). A program that
reads data memory it has not written reads 0 on the C model and `X` in the testbench
(`tb/data_mem.v:41`); after a RET on an empty stack the C model goes on at address 0
and the RTL's PC is `X`. The assembler leaves the `code.txt` and `data.txt` of an
earlier run behind when it dies.
