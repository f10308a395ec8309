---------------------------- MODULE NoobsCompiler ----------------------------
(***************************************************************************)
(* The driver of the compiler (utils/NoobsC/noobsc.py): the five phases,   *)
(* each of which runs only if the one before it succeeded. A phase that    *)
(* loops over tokens, declarations or lines makes one step for each. The   *)
(* exceptions of the compiler's own are caught, reported and end it with   *)
(* exit code 1; an IndexError is not caught and ends it with a traceback.  *)
(***************************************************************************)
EXTENDS NoobsCLexer, NoobsCParser, NoobsCSemantic, NoobsCCodegen, NoobsAssembler

CONSTANTS
  Sources,         (* the texts considered: pairs of a flag and a text      *)
  Assemblies       (* assembly files that are given to the assembler alone  *)

VARIABLES
  flag,            (* "--lex", "--ast", "--asm" or ""                       *)
  phase,           (* "lex", "parse", "hoist", "analyse", "generate",
                      "assemble"; then "written", "printed", "refused"
                      (exit code 1) or "crashed" (traceback)                *)
  at,              (* where the phase's loop is                             *)
  tree,            (* the declarations of the program                       *)
  codegen,         (* the CodeGen object                                    *)
  error            (* the exception that ended the compilation              *)

\* Each phase's own.
lexVars   == <<source, tokens>>
driveVars == <<flag, phase, at, tree, symbols, codegen, error>>
compilerVars == <<lexVars, driveVars, asmVars>>

CompilerInit ==
  /\ \/ /\ \E s \in Sources : flag = s[1] /\ source = s[2]
        /\ phase = "lex" /\ asm = <<>> /\ pass = "idle" /\ AsmFresh
     \/ /\ flag = "" /\ source = ""
        /\ phase = "assemble" /\ \E file \in Assemblies : AsmInit(file)
  /\ at = 1 /\ tokens = <<>> /\ tree = <<>> /\ symbols = <<>>
  /\ codegen = CodeGen /\ error = ""

-----------------------------------------------------------------------------
\* What the driver does with an exception.
Fail(exception) ==
  /\ error' = exception
  /\ phase' = IF exception = "IndexError" THEN "crashed" ELSE "refused"
  /\ UNCHANGED <<source, tokens, flag, at, tree, symbols, codegen, asmVars>>

Enter(next) == phase' = next /\ at' = 1 /\ UNCHANGED <<flag, error>>

Advance(next) == at' = next /\ UNCHANGED <<flag, phase, error>>

LexFails ==
  /\ phase = "lex" /\ NextToken(at).raised # ""
  /\ Fail(NextToken(at).raised)

Lex ==
  LET scan == NextToken(at)
  IN  /\ phase = "lex" /\ scan.raised = ""
      /\ tokens' = Append(tokens, scan.token)
      /\ IF scan.token.type # "EOF" THEN Advance(scan.next)
         ELSE Enter(IF flag = "--lex" THEN "printed" ELSE "parse")
      /\ UNCHANGED <<source, tree, symbols, codegen, asmVars>>

AddDeclaration(decl) ==
  \/ /\ decl.next = 0
     /\ Fail("ParseError")
  \/ /\ decl.next # 0
     /\ tree' = Append(tree, decl.node)
     /\ Advance(decl.next)
     /\ UNCHANGED <<lexVars, symbols, codegen, asmVars>>

ParseOne ==
  phase = "parse" /\ TypeAt(at) # "EOF" /\ AddDeclaration(ParseDeclaration(at))

ParseEnds ==
  /\ phase = "parse" /\ TypeAt(at) = "EOF"
  /\ Enter(IF flag = "--ast" THEN "printed" ELSE "hoist")
  /\ UNCHANGED <<lexVars, tree, symbols, codegen, asmVars>>

HoistFails == phase = "hoist" /\ Duplicates(tree) /\ Fail("SemanticError")

Hoist ==
  /\ phase = "hoist" /\ ~Duplicates(tree)
  /\ symbols' = Hoisted(tree)
  /\ Enter("analyse")
  /\ UNCHANGED <<lexVars, tree, codegen, asmVars>>

AnalyseFails ==
  /\ phase = "analyse" /\ at <= Len(tree) /\ ~CheckDecl(tree[at])
  /\ Fail("SemanticError")

Analyse ==
  /\ phase = "analyse" /\ at <= Len(tree) /\ CheckDecl(tree[at])
  /\ Advance(at + 1)
  /\ UNCHANGED <<lexVars, tree, symbols, codegen, asmVars>>

AnalyseEnds ==
  /\ phase = "analyse" /\ at > Len(tree)
  /\ codegen' = CodeStart
  /\ Enter("generate")
  /\ UNCHANGED <<lexVars, tree, symbols, asmVars>>

\* The generator as it is behind the next declaration.
Generated ==
  IF tree[at].node = "FuncDecl" THEN GenFunc(codegen, tree[at]) ELSE codegen

GoOnWith(g) ==
  \/ /\ g.raised # ""
     /\ Fail(g.raised)
  \/ /\ g.raised = ""
     /\ codegen' = g
     /\ Advance(at + 1)
     /\ UNCHANGED <<lexVars, tree, symbols, asmVars>>

Generate == phase = "generate" /\ at <= Len(tree) /\ GoOnWith(Generated)

\* The .asm file is written; with --asm it is all there is.
WriteAssembly ==
  /\ phase = "generate" /\ at > Len(tree)
  /\ asm' = DataSection(tree) \o codegen.out
  /\ Enter(IF flag = "--asm" THEN "printed" ELSE "assemble")
  /\ pass' = IF flag = "--asm" THEN pass ELSE "pass1"
  /\ UNCHANGED <<lexVars, tree, symbols, codegen, line, section,
                 symbol_table, data_index, code_index, data_mem, code_mem>>

Assemble == phase = "assemble" /\ AsmNext /\ UNCHANGED <<lexVars, driveVars>>

AssembleFails == phase = "assemble" /\ pass = "died" /\ Fail("Assembler failed.")

AssembleEnds ==
  /\ phase = "assemble" /\ pass = "done"
  /\ Enter("written")
  /\ UNCHANGED <<lexVars, tree, symbols, codegen, asmVars>>

CompilerNext ==
  \/ LexFails \/ Lex \/ ParseOne \/ ParseEnds
  \/ HoistFails \/ Hoist \/ AnalyseFails \/ Analyse \/ AnalyseEnds
  \/ Generate \/ WriteAssembly
  \/ Assemble \/ AssembleFails \/ AssembleEnds

=============================================================================
