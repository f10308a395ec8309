---------------------------- MODULE NoobsCMeaning ----------------------------
(***************************************************************************)
(* What a NoobsC program means, whatever the compiler makes of it: an      *)
(* interpreter of the tree. It is the language of README.md and of C:      *)
(* bytes that wrap around, a fresh frame for each call, locals that have   *)
(* no value until they are given one. Where C leaves the order of          *)
(* evaluation open, the compiler's is taken. Operations that the language  *)
(* does not have end in "undefined", violated rules about names in         *)
(* "wrong".                                                                *)
(***************************************************************************)
EXTENDS NoobsCAst, Integers, FiniteSets, SequencesExt

LOCAL INSTANCE Bitwise

VARIABLE tree         (* the declarations of the program                    *)

CONSTANT FUEL         (* the calls and loop turns a program may take        *)

Funcs   == {tree[k] : k \in {j \in DOMAIN tree : tree[j].node = "FuncDecl"}}
Globals == {tree[k] : k \in {j \in DOMAIN tree : tree[j].node = "VarDecl"}}

Named(name, decls) == CHOOSE d \in decls : d.name = name
Names(decls)       == {d.name : d \in decls}

-----------------------------------------------------------------------------
(* The statements and expressions inside another.                          *)

RECURSIVE StmtsOf(_)
StmtsOf(block) ==
  UNION {LET s == block.stmts[k]
         IN  {s} \cup
             (CASE s.node = "IfStmt" ->
                     StmtsOf(s.then_block) \cup
                     (IF s.else_block = None THEN {} ELSE StmtsOf(s.else_block))
                [] s.node = "WhileStmt" -> StmtsOf(s.body)
                [] s.node = "ForStmt"   -> ({s.init} \ {None}) \cup StmtsOf(s.body)
                [] OTHER -> {})
         : k \in DOMAIN block.stmts}

LocalDecls(func) == {s \in StmtsOf(func.body) : s.node = "VarDecl"}

-----------------------------------------------------------------------------
(* The state of the interpreter. A variable has a kind and cells; a cell,  *)
(* or the value of an expression, is a byte, NONE if it was never given    *)
(* one, or VOID for what a void function returns.                          *)

NONE == -1
VOID == -2

Cells(decl, value) ==
  [kind  |-> IF decl.size > 0 THEN "array" ELSE "scalar",
   cells |-> [k \in 1..(IF decl.size > 0 THEN decl.size ELSE 1) |-> value]]

Initial(decl) ==
  IF decl.init.node \in {"IntLit", "CharLit"} THEN decl.init.value % 256 ELSE 0

Start ==
  [status |-> "ok", value |-> NONE, control |-> "next", fuel |-> FUEL,
   frame |-> <<>>, returns |-> "void",
   globals |-> [n \in Names(Globals) |->
                  Cells(Named(n, Globals), Initial(Named(n, Globals)))]]

\* A call's frame: its parameters and every local of the function, wherever
\* in the body it is declared.
Frame(func, args) ==
  [n \in Range(func.params) \cup Names(LocalDecls(func)) |->
     IF n \in Range(func.params)
     THEN [kind |-> "scalar", cells |-> <<args[CHOOSE k \in DOMAIN args : func.params[k] = n]>>]
     ELSE Cells(Named(n, LocalDecls(func)), NONE)]

Ends(st, status)  == [st EXCEPT !.status = status]
Gives(st, value)  == [st EXCEPT !.value = value]

\* The value of an operand.
Needed(st) ==
  CASE st.status = "ok" /\ st.value = VOID -> Ends(st, "wrong")
    [] st.status = "ok" /\ st.value = NONE -> Ends(st, "undefined")
    [] OTHER -> st

\* What is done next, if nothing went wrong before.
Then(st, Continue(_)) == IF st.status = "ok" THEN Continue(st) ELSE st

NoVariable == [kind |-> "none", cells |-> <<>>]

Variable(st, name) ==
  CASE name \in DOMAIN st.frame -> st.frame[name]
    [] name \in DOMAIN st.globals \ DOMAIN st.frame -> st.globals[name]
    [] OTHER -> NoVariable

SetCell(st, name, k, value) ==
  IF name \in DOMAIN st.frame THEN [st EXCEPT !.frame[name].cells[k] = value]
  ELSE [st EXCEPT !.globals[name].cells[k] = value]

\* An assignment's value is the value that it stores.
Store(st, name, k, value) == Gives(SetCell(st, name, k, value), value)

Truth(b) == IF b THEN 1 ELSE 0

Apply(op, x, y) ==
  CASE op \in {"+", "+="} -> (x + y) % 256
    [] op \in {"-", "-="} -> (x - y) % 256
    [] op \in {"&", "&="} -> x & y
    [] op \in {"|", "|="} -> x | y
    [] op \in {"^", "^="} -> x ^^ y
    [] op = "==" -> Truth(x = y)
    [] op = "!=" -> Truth(x # y)
    [] op = "<"  -> Truth(x < y)
    [] op = ">"  -> Truth(x > y)
    [] op = "<=" -> Truth(x <= y)
    [] op = ">=" -> Truth(x >= y)
    [] OTHER     -> NONE

-----------------------------------------------------------------------------
RECURSIVE Eval(_, _), Call(_, _, _), ExecBlock(_, _, _), ExecLoop(_, _)

Operand(st, e) == Needed(Eval(st, e))

\* The element of a variable that a target names: its number, as the value.
Element(st, name) ==
  IF st.value >= Len(Variable(st, name).cells) THEN Ends(st, "undefined")
  ELSE Gives(st, st.value + 1)

Place(st, target) ==
  IF Variable(st, target.name).kind # (IF target.node = "Var" THEN "scalar" ELSE "array")
  THEN Ends(st, "wrong")
  ELSE IF target.node = "Var" THEN Gives(st, 1)
  ELSE Then(Operand(st, target.index), LAMBDA index : Element(index, target.name))

\* What is in the place that was found.
Fetch(st, name) ==
  Then(st, LAMBDA place : Gives(place, Variable(place, name).cells[place.value]))

EvalAssign(st, e) ==
  LET name == e.target.name
  IN  Then(Operand(st, e.value), LAMBDA new :
        Then(Place(new, e.target), LAMBDA place :
          IF e.op = "=" THEN Store(place, name, place.value, new.value)
          ELSE Then(Needed(Fetch(place, name)), LAMBDA old :
                 Store(old, name, place.value, Apply(e.op, old.value, new.value)))))

EvalPostfix(st, e) ==
  LET name == e.operand.name
      step == IF e.op = "++" THEN "+" ELSE "-"
  IN  IF e.operand.node # "Var" THEN Ends(st, "undefined")
      ELSE Then(Needed(Fetch(Place(st, e.operand), name)), LAMBDA old :
             Gives(SetCell(old, name, 1, Apply(step, old.value, 1)), old.value))

EvalBinOp(st, e) ==
  LET swapped == e.op \in {">", "<="}
  IN  Then(Operand(st, IF swapped THEN e.right ELSE e.left), LAMBDA one :
        IF e.op = "&&" /\ one.value = 0 THEN one
        ELSE IF e.op = "||" /\ one.value # 0 THEN Gives(one, 1)
        ELSE Then(Operand(one, IF swapped THEN e.left ELSE e.right), LAMBDA two :
               CASE e.op \in {"&&", "||"} -> Gives(two, Truth(two.value # 0))
                 [] swapped -> Needed(Gives(two, Apply(e.op, two.value, one.value)))
                 [] OTHER   -> Needed(Gives(two, Apply(e.op, one.value, two.value)))))

EvalUnary(st, e) ==
  Then(Operand(st, e.operand), LAMBDA operand :
    Gives(operand, CASE e.op = "~" -> 255 - operand.value
                     [] e.op = "-" -> (256 - operand.value) % 256
                     [] e.op = "!" -> Truth(operand.value = 0)))

\* The arguments from the last one to the first: values is what is known.
RECURSIVE EvalCall(_, _, _)
EvalCall(st, e, values) ==
  LET k == Len(e.args) - Len(values)
  IN  IF k = 0 THEN Call(st, e.name, values)
      ELSE Then(Operand(st, e.args[k]), LAMBDA arg :
             EvalCall(arg, e, <<arg.value>> \o values))

Eval(st, e) ==
  CASE st.status # "ok" -> st
    [] st.status = "ok" /\ e.node \in {"IntLit", "CharLit"} -> Gives(st, e.value % 256)
    [] st.status = "ok" /\ e.node \in {"Var", "ArrayIndex"} -> Fetch(Place(st, e), e.name)
    [] st.status = "ok" /\ e.node = "Assign"    -> EvalAssign(st, e)
    [] st.status = "ok" /\ e.node = "BinOp"     -> EvalBinOp(st, e)
    [] st.status = "ok" /\ e.node = "UnaryOp"   -> EvalUnary(st, e)
    [] st.status = "ok" /\ e.node = "PostfixOp" -> EvalPostfix(st, e)
    [] st.status = "ok" /\ e.node = "FuncCall"  -> EvalCall(st, e, <<>>)

\* Behind the body, in the caller's frame again. A break that is in no loop
\* ends in "wrong".
Return(st, body, type) ==
  IF body.status = "ok" /\ body.control = "break" THEN Ends(st, "wrong")
  ELSE [body EXCEPT !.frame = st.frame, !.returns = st.returns, !.control = "next",
                    !.value = CASE type = "void" -> VOID
                                [] type # "void" /\ body.control = "return" -> @
                                [] OTHER -> NONE]

Call(st, name, values) ==
  LET func  == Named(name, Funcs)
      enter == [st EXCEPT !.frame = Frame(func, values), !.returns = func.return_type,
                          !.value = NONE, !.fuel = @ - 1]
  IN  IF \/ name \in DOMAIN st.frame \/ name \notin Names(Funcs)
         \/ Len(values) # Len(func.params)
      THEN Ends(st, "wrong")
      ELSE IF st.fuel = 0 THEN Ends(st, "long")
      ELSE Return(st, ExecBlock(enter, func.body, 1), func.return_type)

-----------------------------------------------------------------------------
\* A loop, from the test on. A loop without a condition has None for one.
LoopTest(st, s) == IF s.cond = None THEN Gives(st, 1) ELSE Operand(st, s.cond)

LoopUpdate(st, s) ==
  IF s.node = "WhileStmt" \/ s.update = None THEN st ELSE Operand(st, s.update)

ExecLoop(st, s) ==
  Then(LoopTest(st, s), LAMBDA test :
    IF test.value = 0 THEN test
    ELSE IF st.fuel = 0 THEN Ends(st, "long")
    ELSE Then(ExecBlock(test, s.body, 1), LAMBDA body :
           CASE body.control = "return" -> body
             [] body.control = "break"  -> [body EXCEPT !.control = "next"]
             [] body.control = "next"   ->
                  Then(LoopUpdate(body, s), LAMBDA again :
                    ExecLoop([again EXCEPT !.fuel = @ - 1], s))))

Declare(st, s) ==
  IF s.init = None THEN [st EXCEPT !.frame[s.name] = Cells(s, NONE)]
  ELSE Then(Operand(st, s.init), LAMBDA new : SetCell(new, s.name, 1, new.value))

\* A void function returns no value; a value that is returned is a byte.
ExecReturn(st, s) ==
  IF s.expr = None THEN [st EXCEPT !.control = "return", !.value = NONE]
  ELSE IF st.returns = "void" THEN Ends(st, "wrong")
  ELSE [Operand(st, s.expr) EXCEPT !.control = "return"]

ExecIf(st, s) ==
  Then(Operand(st, s.cond), LAMBDA cond :
    CASE cond.value # 0 -> ExecBlock(cond, s.then_block, 1)
      [] cond.value = 0 /\ s.else_block # None -> ExecBlock(cond, s.else_block, 1)
      [] OTHER -> cond)

ExecStmt(st, s) ==
  CASE s.node = "VarDecl"    -> Declare(st, s)
    [] s.node = "ExprStmt"   -> Eval(st, s.expr)
    [] s.node = "IfStmt"     -> ExecIf(st, s)
    [] s.node = "WhileStmt"  -> ExecLoop(st, s)
    [] s.node = "ForStmt"    ->
         ExecLoop(IF s.init = None THEN st ELSE ExecBlock(st, Block(<<s.init>>), 1), s)
    [] s.node = "ReturnStmt" -> ExecReturn(st, s)
    [] s.node = "BreakStmt"  -> [st EXCEPT !.control = "break"]

\* The statements of a block from the k-th on.
ExecBlock(st, block, k) ==
  IF st.status # "ok" \/ st.control # "next" \/ k > Len(block.stmts) THEN st
  ELSE ExecBlock(ExecStmt(st, block.stmts[k]), block, k + 1)

\* The whole program.
Run ==
  IF "main" \in Names(Funcs) THEN Call(Start, "main", <<>>) ELSE Ends(Start, "undefined")

=============================================================================
