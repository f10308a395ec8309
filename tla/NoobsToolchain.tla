---------------------------- MODULE NoobsToolchain ----------------------------
(***************************************************************************)
(* The compiler, the assembler and the machine their images run on: a      *)
(* source text is compiled, and if that succeeds its program is executed   *)
(* by the C model or by the RTL, as NoobsIsa describes the two. What the   *)
(* program should have done is what NoobsCMeaning says of its tree.        *)
(***************************************************************************)
EXTENDS NoobsCompiler

CONSTANTS
  INST_MEM_SIZE, DATA_MEM_SIZE, STRAY_BYTES,
  FUEL,            (* the calls and loop turns a program may take          *)
  MAX_TEXT,        (* the longest text whose tokens are compared           *)
  MAX_TOKENS       (* the longest token list whose tree is compared        *)

VARIABLES
  machine,         (* "cmodel" or "rtl", or "none" before the program runs  *)
  meant,           (* history: whether the program keeps the rules, and the
                      state in which it should end                          *)
  status, pc, imem, mem, regs, sr, cr, sp

cpuVars == <<status, pc, imem, mem, regs, sr, cr, sp>>
toolVars == <<compilerVars, machine, meant, cpuVars>>

\* The two machines run no program of their own.
CModel == INSTANCE NoobsIsa WITH
  FLAG_CLEARING <- {<<"JMP", TRUE>>, <<"JMP", FALSE>>},
  SP_CARRIES    <- TRUE,
  PC_SPACE      <- 65536,
  FETCH_LIMIT   <- INST_MEM_SIZE - 1,
  STRICT        <- TRUE,
  Programs      <- {},
  DataImages    <- {}

Rtl == INSTANCE NoobsIsa WITH
  FLAG_CLEARING <- {<<"JMP", TRUE>>, <<"CALL", TRUE>>, <<"RET", TRUE>>},
  SP_CARRIES    <- FALSE,
  PC_SPACE      <- 2048,
  FETCH_LIMIT   <- 2050,
  STRICT        <- FALSE,
  Programs      <- {},
  DataImages    <- {}

Program == INSTANCE NoobsCRules

ToolInit ==
  /\ CompilerInit
  /\ machine = "none" /\ meant = [disciplined |-> FALSE, status |-> "none"]
  /\ status = "off" /\ pc = 0 /\ imem = <<>> /\ mem = <<>>
  /\ regs = [r \in 0..3 |-> 0] /\ sr = 0 /\ cr = 28 /\ sp = 0

Compile == CompilerNext /\ UNCHANGED <<machine, meant, cpuVars>>

\* The compiler is gone when the program is loaded: of its state the labels'
\* addresses are kept, by which the results are found.
Load ==
  /\ phase = "written" /\ source # ""
  /\ meant' = [disciplined |-> Program!Disciplined] @@ Program!Run
  /\ machine' \in {"cmodel", "rtl"}
  /\ phase' = "running" /\ status' = "running"
  /\ imem' = CModel!LoadInstructions(code_mem)
  /\ mem' = CModel!LoadData(data_mem)
  /\ tokens' = <<>> /\ tree' = <<>> /\ codegen' = CodeGen /\ asm' = <<>>
  /\ code_mem' = <<>> /\ data_mem' = <<>>
  /\ UNCHANGED <<source, flag, at, symbols, error, pass, line, section,
                 symbol_table, data_index, code_index, pc, regs, sr, cr, sp>>

Execute ==
  /\ phase = "running"
  /\ \/ machine = "cmodel" /\ CModel!Next
     \/ machine = "rtl" /\ Rtl!Next
  /\ UNCHANGED <<compilerVars, machine, meant>>

ToolNext == Compile \/ Load \/ Execute

ToolSpec == ToolInit /\ [][ToolNext]_toolVars

\* A machine that runs goes on: the simulator's loop, or the clock.
FairToolSpec == ToolSpec /\ WF_toolVars(Execute)

-----------------------------------------------------------------------------
(* What the toolchain promises.                                            *)

Grammar == INSTANCE NoobsCGrammar

AllRead == tokens # <<>> /\ Last(tokens).type = "EOF"

\* The lexer finds the tokens that the text has by definition: it splits it
\* at the longest lexeme each time, whatever comments, prefixes of numbers and
\* two-character operators meet, and it fails only if the text has no tokens.
TokensAreLexemes ==
  Len(source) <= MAX_TEXT =>
    /\ phase = "parse" /\ at = 1 => Grammar!Tokenized = [ok |-> TRUE, tokens |-> tokens]
    /\ error # "" /\ ~AllRead /\ source # "" => ~Grammar!Tokenized.ok

\* The parser accepts the token lists of the grammar and no others, and the
\* tree it builds is the only one the grammar has for them: precedence,
\* associativity and the end of each construct come out as written.
TreeIsTheGrammars ==
  Len(tokens) <= MAX_TOKENS =>
    /\ phase = "hoist" => Grammar!Programs(1, Len(tokens) - 1) = {tree}
    /\ error = "ParseError" => Grammar!Programs(1, Len(tokens) - 1) = {}

\* A program that the analyser accepted does not break a rule about names
\* when it runs, unless a local name hides a global one half way through, or
\* main has parameters, for which the start of the program has no values.
AnalysedNeverGoesWrong ==
  phase = "generate" /\ at = 1 /\ Program!NoLateShadowing /\ Program!MainHasNoParameters
    => Program!Run.status # "wrong"

\* An exception that the driver does not catch is raised by a character
\* literal that the end of the file cuts off and by a fourth parameter, and
\* by nothing else: in particular no break reaches the generator that is in
\* no loop.
CrashesAreKnown ==
  phase = "crashed" =>
    \/ ~AllRead /\ Peek(Len(source)) \in {"'", "\\"}
    \/ \E d \in Range(tree) : d.node = "FuncDecl" /\ Len(d.params) > 3

\* What the generator writes can be assembled: its labels are all different
\* and all there, if the program has a main and no name of it holds a digit
\* or an underscore, which the generator's own labels do.
GeneratedAssembles ==
  error = "Assembler failed." /\ source # "" =>
    \/ ~\E d \in Range(tree) : d.node = "FuncDecl" /\ d.name = "main"
    \/ \E t \in Range(tokens) : t.type = "IDENT" /\ ~(Chars(t.name) \subseteq LETTERS)

\* The interpreter comes to an end of the program, and its results count.
HasMeaning == phase = "running" /\ meant.disciplined /\ meant.status = "ok"

\* Where the bytes of a global variable are, by the label's address.
CellsInMemory(name) ==
  [k \in DOMAIN meant.globals[name].cells |-> CModel!Read(mem, symbol_table[name] + k - 1)]

\* When the compiled program halts, on either machine, its global variables
\* have the values that the source gives them, if the source keeps the rules
\* of NoobsCRules. It does not end in a fatal error.
RunsAsWritten ==
  HasMeaning =>
    /\ status # "fatal"
    /\ status = "halted" =>
         \A n \in DOMAIN meant.globals : CellsInMemory(n) = meant.globals[n].cells

\* The same, asked of programs that need not keep those rules.
RunsAsWrittenAnyway ==
  phase = "running" /\ status = "halted" /\ meant.status = "ok" =>
    \A n \in DOMAIN meant.globals : CellsInMemory(n) = meant.globals[n].cells

\* A program that ends by its source halts on the machine.
ProgramsHalt == HasMeaning ~> status = "halted"

=============================================================================
