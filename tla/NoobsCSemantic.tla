---------------------------- MODULE NoobsCSemantic ----------------------------
(***************************************************************************)
(* Phase 3 of the compiler (utils/NoobsC/semantic.py): whether a program   *)
(* that follows the grammar also keeps the rules about names. Of a raised  *)
(* SemanticError it is kept that it was raised, not its message.           *)
(***************************************************************************)
EXTENDS NoobsCAst, TLC

VARIABLE symbols      (* the global scope: what each top-level name is      *)

-----------------------------------------------------------------------------
Variable(decl) == [kind |-> IF decl.size > 0 THEN "array" ELSE "scalar"]

\* Mutant: every function is registered as one that returns a value.
SymbolAllChar(decl) ==
  IF decl.node = "VarDecl" THEN Variable(decl)
  ELSE [kind |-> "func", return_type |-> "char", param_count |-> Len(decl.params)]

Symbol(decl) ==
  IF decl.node = "VarDecl" THEN Variable(decl)
  ELSE [kind |-> "func", return_type |-> decl.return_type,
        param_count |-> Len(decl.params)]

\* Pass 1: every top-level name is registered, which fails for a name that
\* occurs twice.
Duplicates(decls) == \E i, j \in DOMAIN decls : i < j /\ decls[i].name = decls[j].name

Hoisted(decls) ==
  [name \in {decls[i].name : i \in DOMAIN decls} |->
     Symbol(decls[CHOOSE i \in DOMAIN decls : decls[i].name = name])]

\* The local scope first, then the global one.
Lookup(name, locals) ==
  CASE name \in DOMAIN locals -> locals[name]
    [] name \in DOMAIN symbols \ DOMAIN locals -> symbols[name]
    [] OTHER -> [kind |-> "undeclared"]

-----------------------------------------------------------------------------
RECURSIVE CheckExpr(_, _, _)
CheckExpr(e, locals, value_required) ==
  CASE e.node \in {"IntLit", "CharLit"} -> TRUE
    [] e.node = "Var" -> Lookup(e.name, locals).kind = "scalar"
    [] e.node = "ArrayIndex" ->
         /\ Lookup(e.name, locals).kind = "array"
         /\ CheckExpr(e.index, locals, TRUE)
    [] e.node = "FuncCall" ->
         LET callee == Lookup(e.name, locals)
         IN  /\ callee.kind = "func"
             /\ value_required => callee.return_type # "void"
             /\ Len(e.args) = callee.param_count
             /\ \A k \in DOMAIN e.args : CheckExpr(e.args[k], locals, TRUE)
    [] e.node = "Assign" ->
         CheckExpr(e.target, locals, TRUE) /\ CheckExpr(e.value, locals, TRUE)
    [] e.node = "BinOp" ->
         CheckExpr(e.left, locals, TRUE) /\ CheckExpr(e.right, locals, TRUE)
    [] OTHER -> CheckExpr(e.operand, locals, TRUE)    \* UnaryOp, PostfixOp

-----------------------------------------------------------------------------
\* The local scope grows from statement to statement. ok turns FALSE with the
\* first error.
Scope(ok, locals) == [ok |-> ok, locals |-> locals]

Define(scope, name, symbol) ==
  Scope(scope.ok /\ name \notin DOMAIN scope.locals, scope.locals @@ (name :> symbol))

\* An expression that may be absent is checked in the scope.
Checks(scope, e) ==
  Scope(scope.ok /\ (e = None \/ CheckExpr(e, scope.locals, TRUE)), scope.locals)

RECURSIVE CheckStmt(_, _, _, _), CheckBlock(_, _, _, _)

CheckBlock(scope, block, func, depth) ==
  LET upTo[k \in 0..Len(block.stmts)] ==
        IF k = 0 THEN scope ELSE CheckStmt(upTo[k - 1], block.stmts[k], func, depth)
  IN  upTo[Len(block.stmts)]

\* depth is _loop_depth.
CheckStmt(scope, s, func, depth) ==
  CASE ~scope.ok -> scope
    [] scope.ok /\ s.node = "VarDecl" ->
         Checks(Define(scope, s.name, Variable(s)), s.init)
    [] scope.ok /\ s.node = "IfStmt" ->
         LET then == CheckBlock(Checks(scope, s.cond), s.then_block, func, depth)
         IN  IF s.else_block = None THEN then
             ELSE CheckBlock(then, s.else_block, func, depth)
    [] scope.ok /\ s.node = "WhileStmt" ->
         CheckBlock(Checks(scope, s.cond), s.body, func, depth + 1)
    [] scope.ok /\ s.node = "ForStmt" ->
         LET init == IF s.init = None THEN scope
                     ELSE CheckStmt(scope, s.init, func, depth)
         IN  CheckBlock(Checks(Checks(init, s.cond), s.update), s.body, func, depth + 1)
    [] scope.ok /\ s.node = "ReturnStmt" ->
         IF s.expr # None /\ func.return_type = "void" THEN Scope(FALSE, scope.locals)
         ELSE Checks(scope, s.expr)
    [] scope.ok /\ s.node = "BreakStmt" -> Scope(depth > 0, scope.locals)
    [] OTHER -> Scope(CheckExpr(s.expr, scope.locals, FALSE), scope.locals)

\* Mutant: a function's body counts as a loop.
CheckFuncInLoop(func) ==
  LET n == Len(func.params)
      params[k \in 0..n] ==
        IF k = 0 THEN Scope(TRUE, <<>>)
        ELSE Define(params[k - 1], func.params[k], [kind |-> "scalar"])
  IN  CheckBlock(params[n], func.body, func, 1).ok

\* _check_func(): parameters and locals share one scope.
CheckFunc(func) ==
  LET n == Len(func.params)
      params[k \in 0..n] ==
        IF k = 0 THEN Scope(TRUE, <<>>)
        ELSE Define(params[k - 1], func.params[k], [kind |-> "scalar"])
  IN  CheckBlock(params[n], func.body, func, 0).ok

\* Pass 2: variables need no check, not even their initialisers.
CheckDecl(decl) == decl.node = "FuncDecl" => CheckFunc(decl)

=============================================================================
