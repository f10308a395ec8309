---------------------------- MODULE NoobsCCodegen ----------------------------
(***************************************************************************)
(* Phase 4 of the compiler (utils/NoobsC/codegen.py): the tree is turned   *)
(* into assembly. The CodeGen object is a record g that each operator      *)
(* takes and returns changed. A line of assembly is a record; labels are   *)
(* strings, because two of them may turn out to be the same.               *)
(***************************************************************************)
EXTENDS NoobsCAst, Integers, SequencesExt

CodeGen == [out |-> <<>>, label_n |-> 0, tmp_depth |-> 0, loop_ends |-> <<>>,
            func |-> "", locals |-> {}, raised |-> ""]

NUM_TMPS == 4

\* _REG_OP: the instruction of a binary operator, of "op=" too.
RegOp(op) ==
  CASE op \in {"+", "+="} -> "ADD"
    [] op \in {"-", "-="} -> "SUB"
    [] op \in {"&", "&="} -> "AND"
    [] op \in {"|", "|="} -> "OR"
    [] op \in {"^", "^="} -> "XOR"
    [] OTHER              -> "none"

COMPARISONS == {"==", "!=", "<", ">", "<=", ">="}

-----------------------------------------------------------------------------
(* Lines of assembly.                                                      *)

Line(op, regs, imm, target) ==
  [label |-> "", op |-> op, regs |-> regs, imm |-> imm, target |-> target]

Bare(op)            == Line(op, <<>>, 0, "")
RegReg(op, rd, rs)  == Line(op, <<rd, rs>>, 0, "")
Imm(op, rd, rs, n)  == Line(op, <<rd, rs>>, n, "")
Mem(op, r, label)   == Line(op, <<r>>, 0, label)
Jump(op, label)     == Line(op, <<>>, 0, label)

Labelled(label, line) == [line EXCEPT !.label = label]

Begin(name)         == [section |-> name]

\* A line of the data section.
Data(label, bytes) == [label |-> label, bytes |-> bytes]
Zeros(n)           == [k \in 1..n |-> 0]

Emit(g, lines)  == [g EXCEPT !.out = @ \o lines]

\* The first exception is the one that ends the run.
Raise(g, error) == IF g.raised = "" THEN [g EXCEPT !.raised = error] ELSE g

\* Mutant: labels are numbered by how many loops they are in.
LblByDepth(g, prefix) == "__" \o prefix \o "_" \o ToString(Len(g.loop_ends))

\* _lbl(): the label it returns, and the generator behind it.
Lbl(g, prefix) == "__" \o prefix \o "_" \o ToString(g.label_n)

Counted(g)     == [g EXCEPT !.label_n = @ + 1]

LocalLabel(func, name) == "__" \o func \o "_" \o name

VLabel(g, name) == IF name \in g.locals THEN LocalLabel(g.func, name) ELSE name

Slot(k) == "__tmp" \o ToString(k)

PushTmp(g) ==
  IF g.tmp_depth >= NUM_TMPS THEN Raise(g, "CodeGenError")
  ELSE [Emit(g, <<Mem("STORE", 0, Slot(g.tmp_depth))>>) EXCEPT !.tmp_depth = @ + 1]

\* The saved value is loaded into a register and its slot given back.
PopTmp(g, reg) ==
  [Emit(g, <<Mem("LOAD", reg, Slot(g.tmp_depth - 1))>>) EXCEPT !.tmp_depth = @ - 1]

\* Mutant: the indirect mode is left on.
IndirectStays(line) == <<Bare("SET_ADR_MODE"), line>>

Indirect(line) == <<Bare("SET_ADR_MODE"), line, Bare("RST_ADR_MODE")>>

-----------------------------------------------------------------------------
(* The data section.                                                       *)

GlobalData(decl) ==
  CASE decl.size > 0 -> Data(decl.name, Zeros(decl.size))
    [] decl.size = 0 /\ decl.init.node \in {"IntLit", "CharLit"} ->
         Data(decl.name, <<decl.init.value % 256>>)
    [] OTHER -> Data(decl.name, <<0>>)

RECURSIVE BlockStatics(_, _)
BlockStatics(block, func) ==
  LET statics(s) ==
        CASE s.node = "VarDecl" ->
               <<Data(LocalLabel(func, s.name), Zeros(IF s.size > 0 THEN s.size ELSE 1))>>
          [] s.node = "IfStmt" ->
               BlockStatics(s.then_block, func)
                 \o (IF s.else_block = None THEN <<>> ELSE BlockStatics(s.else_block, func))
          [] s.node = "WhileStmt" -> BlockStatics(s.body, func)
          [] s.node = "ForStmt" ->
               (IF s.init.node = "VarDecl"
                THEN <<Data(LocalLabel(func, s.init.name), <<0>>)>> ELSE <<>>)
                 \o BlockStatics(s.body, func)
          [] OTHER -> <<>>
  IN  FlattenSeq([k \in DOMAIN block.stmts |-> statics(block.stmts[k])])

FuncStatics(func) ==
  [k \in DOMAIN func.params |-> Data(LocalLabel(func.name, func.params[k]), <<0>>)]
    \o BlockStatics(func.body, func.name)

DataSection(decls) ==
  LET globals == SelectSeq(decls, LAMBDA d : d.node = "VarDecl")
      funcs   == SelectSeq(decls, LAMBDA d : d.node = "FuncDecl")
  IN  <<Begin("data")>>
        \o [k \in DOMAIN globals |-> GlobalData(globals[k])]
        \o FlattenSeq([k \in DOMAIN funcs |-> FuncStatics(funcs[k])])
        \o [k \in 1..NUM_TMPS |-> Data(Slot(k - 1), <<0>>)]

-----------------------------------------------------------------------------
(* Expressions. Each leaves its value in R0.                               *)

LoadConst(value) ==
  <<RegReg("XOR", 0, 0)>>
    \o (IF value % 256 # 0 THEN <<Imm("ADDI", 0, 0, value % 256)>> ELSE <<>>)

RECURSIVE GenExpr(_, _)

\* The arguments, the last one first, into R2, R1 and R0.
GenArg(g, e, k) ==
  IF Len(e.args) < k THEN g
  ELSE Emit(GenExpr(g, e.args[k]), IF k = 1 THEN <<>> ELSE <<Imm("ADDI", k - 1, 0, 0)>>)

GenCall(g, e) ==
  Emit(GenArg(GenArg(GenArg(g, e, 3), e, 2), e, 1), <<Jump("CALLNC", "__" \o e.name)>>)

\* R0 is stored into a variable, or into the element of an array.
StoreTarget(g, target) ==
  LET store   == Mem("STORE", 0, VLabel(g, target.name))
      indexed == Emit(GenExpr(PushTmp(g), target.index), <<Imm("ADDI", 3, 0, 0)>>)
  IN  IF target.node = "Var" THEN Emit(g, <<store>>)
      ELSE Emit(PopTmp(indexed, 0), Indirect(store))

\* "op=" reads the target again behind the value.
CombineWithTarget(g, e) ==
  Emit(PopTmp(GenExpr(PushTmp(g), e.target), 1), <<RegReg(RegOp(e.op), 0, 1)>>)

GenAssign(g, e) ==
  StoreTarget(IF e.op = "=" THEN GenExpr(g, e.value)
              ELSE CombineWithTarget(GenExpr(g, e.value), e), e.target)

\* Two operands in R0 and R1, the one for R0 evaluated first.
GenOperands(g, r0, r1) ==
  PopTmp(Emit(GenExpr(PushTmp(GenExpr(g, r0)), r1), <<Imm("ADDI", 1, 0, 0)>>), 0)

\* * / % are not supported, comparisons and && || only in conditions.
GenBinop(g, e) ==
  IF RegOp(e.op) = "none" THEN Raise(g, "CodeGenError")
  ELSE Emit(GenOperands(g, e.left, e.right), <<RegReg(RegOp(e.op), 0, 1)>>)

GenNot(g) ==
  LET t   == Lbl(g, "not_true")
      end == Lbl(Counted(g), "not_end")
  IN  Emit(Counted(Counted(g)),
           <<Imm("ADDI", 0, 0, 0), Jump("JMPZ", t), RegReg("XOR", 0, 0),
             Jump("JMPNC", end), Labelled(t, RegReg("XOR", 0, 0)),
             Imm("ADDI", 0, 0, 1), Labelled(end, Bare("NOP"))>>)

ApplyUnary(g, op) ==
  CASE op = "~" -> Emit(g, <<Imm("XORI", 0, 0, 255)>>)
    [] op = "-" -> Emit(g, <<Imm("XORI", 0, 0, 255), Imm("ADDI", 0, 0, 1)>>)
    [] op = "!" -> GenNot(g)

GenUnary(g, e) == ApplyUnary(GenExpr(g, e.operand), e.op)

\* Mutant: the new value is not stored.
GenPostfixNoStore(g, e) ==
  LET label == VLabel(g, e.operand.name)
      old   == PushTmp(Emit(g, <<Mem("LOAD", 0, label)>>))
      step  == IF e.op = "++" THEN Imm("ADDI", 0, 0, 1) ELSE Imm("SUBI", 0, 0, 1)
  IN  IF e.operand.node # "Var" THEN Raise(g, "CodeGenError")
      ELSE PopTmp(Emit(old, <<step>>), 0)

GenPostfix(g, e) ==
  LET label == VLabel(g, e.operand.name)
      old   == PushTmp(Emit(g, <<Mem("LOAD", 0, label)>>))
      step  == IF e.op = "++" THEN Imm("ADDI", 0, 0, 1) ELSE Imm("SUBI", 0, 0, 1)
  IN  IF e.operand.node # "Var" THEN Raise(g, "CodeGenError")
      ELSE PopTmp(Emit(old, <<step, Mem("STORE", 0, label)>>), 0)

GenExpr(g, e) ==
  CASE e.node \in {"IntLit", "CharLit"} -> Emit(g, LoadConst(e.value))
    [] e.node = "Var"        -> Emit(g, <<Mem("LOAD", 0, VLabel(g, e.name))>>)
    [] e.node = "ArrayIndex" ->
         Emit(GenExpr(g, e.index),
              <<Imm("ADDI", 3, 0, 0)>> \o Indirect(Mem("LOAD", 0, VLabel(g, e.name))))
    [] e.node = "FuncCall"   -> GenCall(g, e)
    [] e.node = "Assign"     -> GenAssign(g, e)
    [] e.node = "BinOp"      -> GenBinop(g, e)
    [] e.node = "UnaryOp"    -> GenUnary(g, e)
    [] e.node = "PostfixOp"  -> GenPostfix(g, e)

-----------------------------------------------------------------------------
(* Conditions.                                                             *)

\* The jump behind SUB R0,R1 that is taken if the comparison is false. > and
\* <= have their operands swapped.
CompareJump(g, op, false_lbl) ==
  LET skip == Lbl(g, "cmp_skip")
  IN  CASE op = "=="           -> Emit(g, <<Jump("JMPNZ", false_lbl)>>)
        [] op = "!="           -> Emit(g, <<Jump("JMPZ", false_lbl)>>)
        [] op \in {">=", "<="} -> Emit(g, <<Jump("JMPOVF", false_lbl)>>)
        [] op \in {"<", ">"}   ->
             Emit(Counted(g), <<Jump("JMPOVF", skip), Jump("JMPNC", false_lbl),
                                Labelled(skip, Bare("NOP"))>>)

IsBinOp(e, ops) == e.node = "BinOp" /\ e.op \in ops
IsNot(e)        == e.node = "UnaryOp" /\ e.op = "!"

RECURSIVE CondFalse(_, _, _)

\* Jumps to true_lbl if the condition is true.
CondTrue(g, cond, true_lbl) ==
  LET skip == Lbl(g, "cond_skip")
  IN  Emit(CondFalse(Counted(g), cond, skip),
           <<Jump("JMPNC", true_lbl), Labelled(skip, Bare("NOP"))>>)

\* Jumps to false_lbl if the condition is false.
CondFalse(g, cond, false_lbl) ==
  LET swapped    == cond.op \in {">", "<="}
      operands   == GenOperands(g, IF swapped THEN cond.right ELSE cond.left,
                                   IF swapped THEN cond.left ELSE cond.right)
      skip_right == Lbl(g, "or_skip")
  IN  CASE IsBinOp(cond, COMPARISONS) ->
             CompareJump(Emit(operands, <<RegReg("SUB", 0, 1)>>), cond.op, false_lbl)
        [] IsBinOp(cond, {"&&"}) ->
             CondFalse(CondFalse(g, cond.left, false_lbl), cond.right, false_lbl)
        [] IsBinOp(cond, {"||"}) ->
             Emit(CondFalse(CondTrue(Counted(g), cond.left, skip_right),
                            cond.right, false_lbl),
                  <<Labelled(skip_right, Bare("NOP"))>>)
        [] IsNot(cond) -> CondTrue(g, cond.operand, false_lbl)
        [] OTHER ->
             Emit(GenExpr(g, cond), <<Imm("ADDI", 0, 0, 0), Jump("JMPZ", false_lbl)>>)

-----------------------------------------------------------------------------
(* Statements.                                                             *)

RECURSIVE GenStmt(_, _)

\* What may be absent generates nothing.
GenOptional(g, expr)  == IF expr = None THEN g ELSE GenExpr(g, expr)
GenForInit(g, init)   == IF init = None THEN g ELSE GenStmt(g, init)
GenForCond(g, c, end) == IF c = None THEN g ELSE CondFalse(g, c, end)

GenBlock(g, block) ==
  LET upTo[k \in 0..Len(block.stmts)] ==
        IF k = 0 THEN g ELSE GenStmt(upTo[k - 1], block.stmts[k])
  IN  upTo[Len(block.stmts)]

GenElse(g, block, else_, end) ==
  IF block = None THEN g
  ELSE GenBlock(Emit(g, <<Jump("JMPNC", end), Labelled(else_, Bare("NOP"))>>), block)

GenIf(g, s) ==
  LET end    == Lbl(g, "if_end")
      else_  == Lbl(Counted(g), "else")
      start  == IF s.else_block = None THEN CondFalse(Counted(g), s.cond, end)
                ELSE CondFalse(Counted(Counted(g)), s.cond, else_)
  IN  Emit(GenElse(GenBlock(start, s.then_block), s.else_block, else_, end),
           <<Labelled(end, Bare("NOP"))>>)

EnterLoop(g, end) == [Counted(Counted(g)) EXCEPT !.loop_ends = Append(@, end)]

\* The jump back to the top, and the end.
CloseLoop(g, top, end) ==
  [Emit(g, <<Jump("JMPNC", top), Labelled(end, Bare("NOP"))>>)
     EXCEPT !.loop_ends = Front(@)]

GenWhile(g, s) ==
  LET top  == Lbl(g, "while")
      end  == Lbl(Counted(g), "while_end")
      cond == CondFalse(Emit(EnterLoop(g, end), <<Labelled(top, Bare("NOP"))>>),
                        s.cond, end)
  IN  CloseLoop(GenBlock(cond, s.body), top, end)

GenFor(g, s) ==
  LET top  == Lbl(g, "for")
      end  == Lbl(Counted(g), "for_end")
      init == GenForInit(EnterLoop(g, end), s.init)
      cond == GenForCond(Emit(init, <<Labelled(top, Bare("NOP"))>>), s.cond, end)
  IN  CloseLoop(GenOptional(GenBlock(cond, s.body), s.update), top, end)

\* break outside a loop, which the analyser refuses, would find no label.
GenStmt(g, s) ==
  CASE s.node = "VarDecl" ->
         IF s.init = None THEN g
         ELSE Emit(GenExpr(g, s.init), <<Mem("STORE", 0, VLabel(g, s.name))>>)
    [] s.node = "ExprStmt"  -> GenExpr(g, s.expr)
    [] s.node = "IfStmt"    -> GenIf(g, s)
    [] s.node = "WhileStmt" -> GenWhile(g, s)
    [] s.node = "ForStmt"   -> GenFor(g, s)
    [] s.node = "ReturnStmt" -> Emit(GenOptional(g, s.expr), <<Bare("RET")>>)
    [] s.node = "BreakStmt" ->
         IF g.loop_ends = <<>> THEN Raise(g, "IndexError")
         ELSE Emit(g, <<Jump("JMPNC", Last(g.loop_ends))>>)

-----------------------------------------------------------------------------
(* The code section.                                                       *)

RECURSIVE CollectLocals(_)
CollectLocals(block) ==
  UNION {LET s == block.stmts[k]
         IN  CASE s.node = "VarDecl" -> {s.name}
               [] s.node = "IfStmt" ->
                    CollectLocals(s.then_block) \cup
                    (IF s.else_block = None THEN {} ELSE CollectLocals(s.else_block))
               [] s.node = "WhileStmt" -> CollectLocals(s.body)
               [] s.node = "ForStmt" ->
                    CollectLocals(s.body) \cup
                    (IF s.init.node = "VarDecl" THEN {s.init.name} ELSE {})
               [] OTHER -> {}
         : k \in DOMAIN block.stmts}

\* The arguments are saved at the entry; there is no register for a fourth.
SaveArgs(func) ==
  IF func.params = <<>> THEN <<Bare("NOP")>>
  ELSE [k \in DOMAIN func.params |->
          Mem("STORE", k - 1, LocalLabel(func.name, func.params[k]))]

\* Only a void function gets a RET of its own at the end.
GenFunc(g, func) ==
  LET entry == [g EXCEPT !.func = func.name,
                         !.locals = Range(func.params) \cup CollectLocals(func.body)]
      save  == SaveArgs(func)
      body  == GenBlock(Emit(entry, <<Labelled("__" \o func.name, Head(save))>>
                                      \o Tail(save)), func.body)
  IN  IF Len(func.params) > 3 THEN Raise(g, "IndexError")
      ELSE IF func.return_type = "void" THEN Emit(body, <<Bare("RET")>>) ELSE body

CodeStart ==
  Emit(CodeGen, <<Begin("code"), Jump("CALLNC", "__main"), Bare("HALT")>>)

=============================================================================
