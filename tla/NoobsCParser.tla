----------------------------- MODULE NoobsCParser -----------------------------
(***************************************************************************)
(* Phase 2 of the compiler (utils/NoobsC/parser.py): recursive descent,    *)
(* one operator for each method. An operator takes the position of its     *)
(* first token and returns the node and the position behind it. Position 0 *)
(* stands for a raised ParseError: no token has it, so that everything     *)
(* parsed from there on ends at 0 too.                                     *)
(***************************************************************************)
EXTENDS NoobsCAst

VARIABLE tokens       (* the list of tokens, the last of which is EOF       *)

Parsed(node, next) == [node |-> node, next |-> next]
ParseError         == Parsed(None, 0)

\* _peek().type: behind the end the EOF again.
TypeAt(i) ==
  CASE i = 0           -> "error"
    [] i > Len(tokens) -> "EOF"
    [] OTHER           -> tokens[i].type

\* _expect(), for a token whose value is not needed.
Expect(i, type) == IF TypeAt(i) = type THEN i + 1 ELSE 0

\* The name of an expected identifier.
NameAt(i) == IF TypeAt(i) = "IDENT" THEN tokens[i].name ELSE ""

\* Gives the node up if the position behind it is lost.
Checked(node, next) == IF next = 0 THEN ParseError ELSE Parsed(node, next)

\* What was parsed, and the token that must follow it.
Closed(parsed, type) == Checked(parsed.node, Expect(parsed.next, type))

\* What is parsed behind it, and what is made of its node, if there is one.
Then(parsed, Continue(_)) == IF parsed.next = 0 THEN ParseError ELSE Continue(parsed)
Made(parsed, Node(_))     == Then(parsed, LAMBDA p : Parsed(Node(p.node), p.next))

ASSIGN_OPS == {"=", "+=", "-=", "&=", "|=", "^="}
UNARY_OPS  == {"!", "~", "-"}

\* The binary operators, from the lowest to the highest precedence, and the
\* level of an operator: 0 if it is none of them.
LEVELS == <<{"||"}, {"&&"}, {"|"}, {"^"}, {"&"}, {"==", "!="},
            {"<", ">", "<=", ">="}, {"+", "-"}, {"*", "/", "%"}>>

BINARY_OPS == UNION {LEVELS[k] : k \in 1..9}

LEVEL == [op \in BINARY_OPS |-> CHOOSE k \in 1..9 : op \in LEVELS[k]]

Level(op) == IF op \in BINARY_OPS THEN LEVEL[op] ELSE 0

-----------------------------------------------------------------------------
RECURSIVE ParseAssign(_), ParseBinary(_, _), ParseRest(_, _), ParseUnary(_)

ParseExpr(i) == ParseAssign(i)

\* A list of one or more, separated by commas, appended to nodes.
RECURSIVE ParseArgList(_, _)
ParseArgList(i, nodes) ==
  Then(Made(ParseExpr(i), LAMBDA arg : Append(nodes, arg)),
       LAMBDA args : IF TypeAt(args.next) = "," THEN ParseArgList(args.next + 1, args.node)
                     ELSE args)

ParseCall(i) ==
  Made(Closed(IF TypeAt(i + 2) = ")" THEN Parsed(<<>>, i + 2)
              ELSE ParseArgList(i + 2, <<>>), ")"),
       LAMBDA args : FuncCall(NameAt(i), args))

ParseIdentifier(i) ==
  CASE TypeAt(i + 1) = "[" ->
         Made(Closed(ParseExpr(i + 2), "]"), LAMBDA index : ArrayIndex(NameAt(i), index))
    [] TypeAt(i + 1) = "(" -> ParseCall(i)
    [] OTHER               -> Parsed(Var(NameAt(i)), i + 1)

ParsePrimary(i) ==
  CASE TypeAt(i) = "INT_LIT"  -> Parsed(IntLit(tokens[i].value), i + 1)
    [] TypeAt(i) = "CHAR_LIT" -> Parsed(CharLit(tokens[i].value), i + 1)
    [] TypeAt(i) = "IDENT"    -> ParseIdentifier(i)
    [] TypeAt(i) = "("        -> Closed(ParseExpr(i + 1), ")")
    [] OTHER                  -> ParseError

ParsePostfix(i) ==
  Then(ParsePrimary(i),
       LAMBDA primary :
         IF TypeAt(primary.next) \in {"++", "--"}
         THEN Parsed(PostfixOp(TypeAt(primary.next), primary.node), primary.next + 1)
         ELSE primary)

ParseUnary(i) ==
  IF TypeAt(i) \in UNARY_OPS
  THEN Made(ParseUnary(i + 1), LAMBDA operand : UnaryOp(TypeAt(i), operand))
  ELSE ParsePostfix(i)

\* The nine methods from _parse_logical_or() to _parse_multiply() differ in
\* their operators only. Each takes an operand of the next level and links
\* more to it, to the left, while it finds an operator of its own: behind a
\* unary operand, the operators of at least the level asked for are linked.
ParseBinary(i, level) == ParseRest(ParseUnary(i), level)

\* Mutant: operators of one level are linked to the right.
ParseRestRight(left, level) ==
  LET op == TypeAt(left.next)
  IN  IF Level(op) < level THEN left
      ELSE ParseRest(Made(ParseBinary(left.next + 1, Level(op)),
                          LAMBDA right : BinOp(op, left.node, right)), level)

ParseRest(left, level) ==
  LET op == TypeAt(left.next)
  IN  IF Level(op) < level THEN left
      ELSE ParseRest(Made(ParseBinary(left.next + 1, Level(op) + 1),
                          LAMBDA right : BinOp(op, left.node, right)), level)

AssignTo(left) ==
  LET op == TypeAt(left.next)
  IN  CASE op \notin ASSIGN_OPS -> left
        [] op \in ASSIGN_OPS /\ left.node.node \in {"Var", "ArrayIndex"} ->
             Made(ParseAssign(left.next + 1), LAMBDA value : Assign(op, left.node, value))
        [] OTHER -> ParseError

ParseAssign(i) == AssignTo(ParseBinary(i, 1))

-----------------------------------------------------------------------------
ParseExprStmt(i) == Made(Closed(ParseExpr(i), ";"), ExprStmt)

\* An array has a size and no initialiser.
ParseArrayDecl(i) ==
  LET name == Expect(i, "char")
      size == Expect(Expect(name, "IDENT"), "[")
  IN  IF TypeAt(size) # "INT_LIT" \/ tokens[size].value <= 0 THEN ParseError
      ELSE Checked(VarDecl(NameAt(name), tokens[size].value, None),
                   Expect(Expect(size + 1, "]"), ";"))

ParseScalarDecl(i) ==
  LET name == Expect(i, "char")
      next == Expect(name, "IDENT")
  IN  Made(Closed(IF TypeAt(next) = "=" THEN ParseExpr(next + 1) ELSE Parsed(None, next),
                  ";"),
           LAMBDA init : VarDecl(NameAt(name), 0, init))

ParseVarDecl(i) ==
  IF TypeAt(Expect(Expect(i, "char"), "IDENT")) = "["
  THEN ParseArrayDecl(i) ELSE ParseScalarDecl(i)

RECURSIVE ParseStatement(_), ParseStatements(_, _)

ParseBlock(i) ==
  Made(Closed(ParseStatements(Expect(i, "{"), <<>>), "}"), Block)

ParseStatements(i, stmts) ==
  IF TypeAt(i) \in {"}", "EOF", "error"} THEN Parsed(stmts, i)
  ELSE Then(ParseStatement(i),
            LAMBDA stmt : ParseStatements(stmt.next, Append(stmts, stmt.node)))

\* '(' expr ')' of if and while.
ParseCondition(i) == Closed(ParseExpr(Expect(i, "(")), ")")

ParseElse(i) ==
  IF TypeAt(i) = "else" THEN ParseBlock(i + 1) ELSE Parsed(None, i)

ParseIfStmt(i) ==
  Then(ParseCondition(i + 1), LAMBDA cond :
    Then(ParseBlock(cond.next), LAMBDA then :
      Made(ParseElse(then.next), LAMBDA else_ : IfStmt(cond.node, then.node, else_))))

ParseWhileStmt(i) ==
  Then(ParseCondition(i + 1), LAMBDA cond :
    Made(ParseBlock(cond.next), LAMBDA body : WhileStmt(cond.node, body)))

\* An expression that is absent if the token behind it comes at once.
ParseOptional(i, stop) ==
  Closed(IF TypeAt(i) = stop THEN Parsed(None, i) ELSE ParseExpr(i), stop)

ParseForInit(i) ==
  CASE TypeAt(i) = "char" -> ParseVarDecl(i)
    [] TypeAt(i) = ";"    -> Parsed(None, i + 1)
    [] OTHER              -> ParseExprStmt(i)

ParseForStmt(i) ==
  Then(ParseForInit(Expect(i + 1, "(")), LAMBDA init :
    Then(ParseOptional(init.next, ";"), LAMBDA cond :
      Then(ParseOptional(cond.next, ")"), LAMBDA update :
        Made(ParseBlock(update.next), LAMBDA body :
               ForStmt(init.node, cond.node, update.node, body)))))

ParseReturnStmt(i) == Made(ParseOptional(i + 1, ";"), ReturnStmt)

ParseStatement(i) ==
  CASE TypeAt(i) = "char"   -> ParseVarDecl(i)
    [] TypeAt(i) = "if"     -> ParseIfStmt(i)
    [] TypeAt(i) = "while"  -> ParseWhileStmt(i)
    [] TypeAt(i) = "for"    -> ParseForStmt(i)
    [] TypeAt(i) = "return" -> ParseReturnStmt(i)
    [] TypeAt(i) = "break"  -> Checked(BreakStmt, Expect(i + 1, ";"))
    [] OTHER                -> ParseExprStmt(i)

-----------------------------------------------------------------------------
RECURSIVE ParseParamList(_, _)
ParseParamList(i, params) ==
  LET name == Expect(i, "char")
      next == Expect(name, "IDENT")
      all  == Append(params, NameAt(name))
  IN  IF TypeAt(next) = "," THEN ParseParamList(next + 1, all) ELSE Parsed(all, next)

ParseParams(i) ==
  Closed(IF TypeAt(i) = ")" THEN Parsed(<<>>, i) ELSE ParseParamList(i, <<>>), ")")

ParseFuncDecl(i) ==
  Then(ParseParams(Expect(Expect(i + 1, "IDENT"), "(")), LAMBDA params :
    Made(ParseBlock(params.next), LAMBDA body :
           FuncDecl(TypeAt(i), NameAt(i + 1), params.node, body)))

\* Behind 'char' and a token, "(" starts a function's parameters.
ParseDeclaration(i) ==
  CASE TypeAt(i) = "void" \/ (TypeAt(i) = "char" /\ TypeAt(i + 2) = "(") ->
         ParseFuncDecl(i)
    [] TypeAt(i) = "char" /\ TypeAt(i + 2) # "(" -> ParseVarDecl(i)
    [] OTHER -> ParseError

=============================================================================
