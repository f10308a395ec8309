------------------------------ MODULE NoobsCAst ------------------------------
(***************************************************************************)
(* The nodes of NoobsC's syntax tree (utils/NoobsC/ast_nodes.py), one      *)
(* constructor for each dataclass. A node keeps what the later phases read *)
(* of it; its line and column, which only error messages show, are left    *)
(* out. An absent child is None, the absent size of a scalar is 0.         *)
(***************************************************************************)
EXTENDS Naturals, Sequences

None == [node |-> "None"]

VarDecl(name, size, init) ==
  [node |-> "VarDecl", name |-> name, size |-> size, init |-> init]

FuncDecl(return_type, name, params, body) ==
  [node |-> "FuncDecl", return_type |-> return_type, name |-> name,
   params |-> params, body |-> body]

Block(stmts) == [node |-> "Block", stmts |-> stmts]

IfStmt(cond, then_block, else_block) ==
  [node |-> "IfStmt", cond |-> cond, then_block |-> then_block,
   else_block |-> else_block]

WhileStmt(cond, body) == [node |-> "WhileStmt", cond |-> cond, body |-> body]

ForStmt(init, cond, update, body) ==
  [node |-> "ForStmt", init |-> init, cond |-> cond, update |-> update,
   body |-> body]

ReturnStmt(expr) == [node |-> "ReturnStmt", expr |-> expr]
BreakStmt        == [node |-> "BreakStmt"]
ExprStmt(expr)   == [node |-> "ExprStmt", expr |-> expr]

Assign(op, target, value) ==
  [node |-> "Assign", op |-> op, target |-> target, value |-> value]

BinOp(op, left, right) ==
  [node |-> "BinOp", op |-> op, left |-> left, right |-> right]

UnaryOp(op, operand)   == [node |-> "UnaryOp", op |-> op, operand |-> operand]
PostfixOp(op, operand) == [node |-> "PostfixOp", op |-> op, operand |-> operand]

IntLit(value)  == [node |-> "IntLit", value |-> value]
CharLit(value) == [node |-> "CharLit", value |-> value]
Var(name)      == [node |-> "Var", name |-> name]

ArrayIndex(name, index) == [node |-> "ArrayIndex", name |-> name, index |-> index]
FuncCall(name, args)    == [node |-> "FuncCall", name |-> name, args |-> args]

=============================================================================
