----------------------------- MODULE NoobsCRules -----------------------------
(***************************************************************************)
(* Rules a NoobsC program has to keep besides those the compiler checks,   *)
(* if its code is to do what the program says. Each is a limit of the      *)
(* generator (utils/NoobsC/codegen.py): registers and temporaries are      *)
(* shared by all calls, locals are static, some cases are not looked at.   *)
(***************************************************************************)
EXTENDS NoobsCMeaning

RECURSIVE ExprsIn(_)
ExprsIn(e) ==
  {e} \cup
  (CASE e.node = "ArrayIndex" -> ExprsIn(e.index)
     [] e.node = "FuncCall"   -> UNION {ExprsIn(e.args[k]) : k \in DOMAIN e.args}
     [] e.node = "Assign"     -> ExprsIn(e.target) \cup ExprsIn(e.value)
     [] e.node = "BinOp"      -> ExprsIn(e.left) \cup ExprsIn(e.right)
     [] e.node \in {"UnaryOp", "PostfixOp"} -> ExprsIn(e.operand)
     [] OTHER -> {})

\* The expressions a statement itself holds, in no block of its own.
OwnExprs(s) ==
  {e \in CASE s.node = "VarDecl" -> {s.init}
           [] s.node \in {"IfStmt", "WhileStmt"} -> {s.cond}
           [] s.node = "ForStmt" -> {s.cond, s.update}
           [] s.node \in {"ExprStmt", "ReturnStmt"} -> {s.expr}
           [] OTHER -> {}
   : e # None}

ExprsOf(func) ==
  UNION {UNION {ExprsIn(e) : e \in OwnExprs(s)} : s \in StmtsOf(func.body)}

AllExprs == UNION {ExprsOf(func) : func \in Funcs}

Calls(exprs) == {e.name : e \in {x \in exprs : x.node = "FuncCall"}}

\* The functions a function calls, directly or not.
Reached[n \in Nat, func \in Funcs] ==
  IF n = 0 THEN {}
  ELSE Calls(ExprsOf(func)) \cup
       UNION {Reached[n - 1, f] : f \in {g \in Funcs : g.name \in Calls(ExprsOf(func))}}

Callees(func) == Reached[Cardinality(Funcs), func]

-----------------------------------------------------------------------------
\* Locals are static: a function is not active twice.
NoRecursion == \A func \in Funcs : func.name \notin Callees(func)

\* An operand that waits while another one is computed, and where: in a
\* temporary, which a callee may use for its own operands.
SavesBefore(e) ==
  CASE e.node = "BinOp" /\ e.op \in {"&&", "||"} -> {}
    [] e.node = "BinOp" /\ e.op \in {">", "<="}  -> {e.left}
    [] e.node = "BinOp" /\ e.op \notin {"&&", "||", ">", "<="} -> {e.right}
    [] e.node = "Assign" /\ e.target.node = "ArrayIndex" -> {e.target.index}
    [] OTHER -> {}

UsesTemporaries(exprs) ==
  \E e \in exprs : \/ e.node = "PostfixOp" \/ SavesBefore(e) # {}
                   \/ e.node = "Assign" /\ e.op # "="

CalleesKeepTemporaries ==
  \A e \in AllExprs : \A waitsFor \in SavesBefore(e) :
    \A f \in Funcs : f.name \in Calls(ExprsIn(waitsFor)) =>
      \A g \in Funcs : g.name \in {f.name} \cup Callees(f) =>
        ~UsesTemporaries(ExprsOf(g))

\* Arguments wait in R1 and R2 while the ones before them are computed.
LeavesRegisters(e) ==
  \A x \in ExprsIn(e) :
    \/ x.node \in {"IntLit", "CharLit", "Var", "ArrayIndex", "UnaryOp", "PostfixOp"}
    \/ x.node = "Assign" /\ x.op = "="

ArgumentsWait ==
  \A e \in AllExprs : e.node = "FuncCall" =>
    \A k \in 1..(Len(e.args) - 1) : LeavesRegisters(e.args[k])

\* The index of a compound assignment's target is computed twice.
TwiceIsOnce ==
  \A e \in AllExprs : e.node = "Assign" /\ e.op # "=" /\ e.target.node = "ArrayIndex" =>
    \A x \in ExprsIn(e.target.index) : x.node \notin {"Assign", "PostfixOp", "FuncCall"}

\* Behind a char function there is no RET but the ones of its returns.
RECURSIVE EndsInReturn(_)
EndsInReturn(block) ==
  /\ block.stmts # <<>>
  /\ LET s == Last(block.stmts)
     IN  \/ s.node = "ReturnStmt"
         \/ /\ s.node = "IfStmt" /\ s.else_block # None
            /\ EndsInReturn(s.then_block) /\ EndsInReturn(s.else_block)

CharFunctionsReturn ==
  \A func \in Funcs : func.return_type = "char" => EndsInReturn(func.body)

\* The analyser takes a name for the global one as far as the declaration of
\* a local one, the generator never does.
NoLateShadowing ==
  \A func \in Funcs : Names(LocalDecls(func)) \cap Names(Funcs \cup Globals) = {}

\* An array that a for statement declares has room for one element.
NoArrayInFor ==
  \A func \in Funcs : \A s \in StmtsOf(func.body) :
    s.node = "ForStmt" /\ s.init.node = "VarDecl" => s.init.size = 0

\* An initialiser of a global variable that is no literal is dropped.
LiteralInitialisers ==
  \A d \in Globals : d.init.node \in {"None", "IntLit", "CharLit"}

\* The program starts with a call of main that has no arguments.
MainHasNoParameters == \A f \in Funcs : f.name = "main" => f.params = <<>>

Disciplined ==
  /\ NoRecursion /\ CalleesKeepTemporaries /\ ArgumentsWait /\ TwiceIsOnce
  /\ CharFunctionsReturn /\ NoLateShadowing /\ NoArrayInFor
  /\ LiteralInitialisers /\ MainHasNoParameters

=============================================================================
