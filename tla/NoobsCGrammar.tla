---------------------------- MODULE NoobsCGrammar ----------------------------
(***************************************************************************)
(* The language NoobsC by its definition, independent of how the compiler  *)
(* recognises it: which texts are lexemes, and the grammar that heads      *)
(* utils/NoobsC/parser.py. Each rule of the grammar is the set of the      *)
(* trees that a span of tokens has, so that a text outside the language    *)
(* has none and an ambiguous one more than one.                            *)
(***************************************************************************)
EXTENDS NoobsCAst, Integers, FiniteSets

VARIABLES source, tokens

LEN == Len(source)
At(i) == SubSeq(source, i, i)
Text(i, j) == SubSeq(source, i, j)

\* The classes of characters.
CharsOf(s) == {SubSeq(s, k, k) : k \in 1..Len(s)}
DIGIT  == CharsOf("0123456789")
LETTER == CharsOf("abcdefghijklmnopqrstuvwxyzABCDEFGHIJKLMNOPQRSTUVWXYZ_")
HEX    == CharsOf("0123456789abcdefABCDEF")
BLANK  == CharsOf(" \t\r\n")
ESCAPED == [n |-> 10, t |-> 9, r |-> 13]

WORDS == {"char", "void", "if", "else", "while", "for", "do", "return", "break"}
SIGNS ==
  {"++", "+=", "--", "-=", "&&", "&=", "||", "|=", "^=", "!=", "==", "<=", ">=",
   "+", "-", "&", "|", "^", "!", "=", "<", ">", "*", "/", "%", "~",
   "(", ")", "{", "}", "[", "]", ";", ","}

-----------------------------------------------------------------------------
(* Lexemes.                                                                *)

AllIn(i, j, class) == \A k \in i..j : At(k) \in class

\* The value of a digit, by its place in the row of digits.
Digit(ch) ==
  LET row == IF ch \in CharsOf("ABCDEF") THEN "0123456789ABCDEF" ELSE "0123456789abcdef"
  IN  (CHOOSE k \in 1..16 : SubSeq(row, k, k) = ch) - 1

Numeral(i, j, base) ==
  LET value[k \in (i - 1)..j] == IF k < i THEN 0 ELSE base * value[k - 1] + Digit(At(k))
  IN  value[j]

ASCII == " !\"#$%&'()*+,-./0123456789:;<=>?@ABCDEFGHIJKLMNOPQRSTUVWXYZ[\\]^_"
Code(ch) ==
  CASE ch = "\n" -> 10
    [] ch \in CharsOf(ASCII) -> 31 + CHOOSE k \in 1..Len(ASCII) : SubSeq(ASCII, k, k) = ch
    [] OTHER -> 96 + CHOOSE k \in 1..30 :
                  SubSeq("abcdefghijklmnopqrstuvwxyz{|}~", k, k) = ch

\* The tokens, at most one, that the text from i to j is.
Lexemes(i, j) ==
  CASE Text(i, j) \in WORDS \cup SIGNS -> {[type |-> Text(i, j)]}
    [] At(i) \in LETTER /\ AllIn(i, j, LETTER \cup DIGIT) /\ Text(i, j) \notin WORDS ->
         {[type |-> "IDENT", name |-> Text(i, j)]}
    [] AllIn(i, j, DIGIT) -> {[type |-> "INT_LIT", value |-> Numeral(i, j, 10)]}
    [] j >= i + 2 /\ Text(i, i + 1) \in {"0x", "0X"} /\ AllIn(i + 2, j, HEX) ->
         {[type |-> "INT_LIT", value |-> Numeral(i + 2, j, 16)]}
    [] j >= i + 2 /\ Text(i, i + 1) \in {"0b", "0B"} /\ AllIn(i + 2, j, {"0", "1"}) ->
         {[type |-> "INT_LIT", value |-> Numeral(i + 2, j, 2)]}
    [] j = i + 2 /\ At(i) = "'" /\ At(j) = "'" /\ At(i + 1) \notin {"'", "\\"} ->
         {[type |-> "CHAR_LIT", value |-> Code(At(i + 1))]}
    [] j = i + 3 /\ Text(i, i + 1) = "'\\" /\ At(j) = "'"
         /\ At(i + 2) \in {"n", "t", "r", "0", "\\", "'"} ->
         {[type |-> "CHAR_LIT",
           value |-> CASE At(i + 2) = "0" -> 0
                       [] At(i + 2) \in DOMAIN ESCAPED -> ESCAPED[At(i + 2)]
                       [] OTHER -> Code(At(i + 2))]}
    [] OTHER -> {}

\* White space, and comments: to the end of the line, or to the first "*/".
IsBlank(i, j) ==
  \/ AllIn(i, j, BLANK)
  \/ /\ j > i /\ Text(i, i + 1) = "//" /\ \A k \in i..j : At(k) # "\n"
  \/ /\ j > i + 2 /\ Text(i, i + 1) = "/*" /\ Text(j - 1, j) = "*/"
     /\ \A k \in (i + 2)..(j - 2) : Text(k, k + 1) # "*/"

\* What starts a longer lexeme or a comment has to go on as one.
Unfinished(i) == i < LEN /\ Text(i, i + 1) \in {"/*", "0x", "0X", "0b", "0B"}

\* Behind each lexeme the next one starts: the longest there is.
Longest(i) ==
  LET ends == {j \in i..LEN : IsBlank(i, j) \/ Lexemes(i, j) # {}}
  IN  IF ends = {} \/ (ends = {i} /\ Unfinished(i)) THEN 0
      ELSE CHOOSE j \in ends : \A k \in ends : k <= j

NoTokens == [ok |-> FALSE, tokens |-> <<>>]

\* The tokens of the text, if it is a sequence of lexemes.
Tokenized ==
  LET from[i \in 1..(LEN + 1)] ==
        IF i > LEN THEN [ok |-> TRUE, tokens |-> <<[type |-> "EOF"]>>]
        ELSE IF Longest(i) = 0 THEN NoTokens
        ELSE LET rest == from[Longest(i) + 1]
             IN  IF IsBlank(i, Longest(i)) \/ ~rest.ok THEN rest
                 ELSE [rest EXCEPT !.tokens =
                         <<CHOOSE t \in Lexemes(i, Longest(i)) : TRUE>> \o @]
  IN  from[1]

-----------------------------------------------------------------------------
(* The grammar, rule by rule. Tokens i to j are the span.                  *)

T(i) == tokens[i].type

OPERATORS == <<{"||"}, {"&&"}, {"|"}, {"^"}, {"&"}, {"==", "!="},
               {"<", ">", "<=", ">="}, {"+", "-"}, {"*", "/", "%"}>>

RECURSIVE Exprs(_, _), Binary(_, _, _), Unary(_, _), ExprLists(_, _)

\* primary
Primary(i, j) ==
  CASE i = j /\ T(i) = "INT_LIT"  -> {IntLit(tokens[i].value)}
    [] i = j /\ T(i) = "CHAR_LIT" -> {CharLit(tokens[i].value)}
    [] i = j /\ T(i) = "IDENT"    -> {Var(tokens[i].name)}
    [] i < j /\ T(i) = "(" /\ T(j) = ")" -> Exprs(i + 1, j - 1)
    [] i + 1 < j /\ T(i) = "IDENT" /\ T(i + 1) = "[" /\ T(j) = "]" ->
         {ArrayIndex(tokens[i].name, e) : e \in Exprs(i + 2, j - 1)}
    [] i + 1 < j /\ T(i) = "IDENT" /\ T(i + 1) = "(" /\ T(j) = ")" ->
         {FuncCall(tokens[i].name, a) :
            a \in IF j = i + 2 THEN {<<>>} ELSE ExprLists(i + 2, j - 1)}
    [] OTHER -> {}

\* arg_list
ExprLists(i, j) ==
  {<<e>> : e \in Exprs(i, j)} \cup
  UNION {UNION {{<<e>> \o rest : rest \in ExprLists(p + 1, j)} : e \in Exprs(i, p - 1)}
         : p \in {k \in (i + 1)..(j - 1) : T(k) = ","}}

\* postfix and unary
Unary(i, j) ==
  IF i > j THEN {}
  ELSE Primary(i, j)
         \cup (IF T(j) \in {"++", "--"}
               THEN {PostfixOp(T(j), e) : e \in Primary(i, j - 1)} ELSE {})
         \cup (IF T(i) \in {"!", "~", "-"}
               THEN {UnaryOp(T(i), e) : e \in Unary(i + 1, j)} ELSE {})

\* logical_or (k = 1) to multiply (k = 9): the last operator is at the top.
Binary(k, i, j) ==
  IF k > 9 THEN Unary(i, j)
  ELSE Binary(k + 1, i, j) \cup
       UNION {UNION {{BinOp(T(p), l, r) : l \in Binary(k, i, p - 1)}
                     : r \in Binary(k + 1, p + 1, j)}
              : p \in {q \in (i + 1)..(j - 1) : T(q) \in OPERATORS[k]}}

\* assign: what is assigned to is a variable or an element of an array.
Exprs(i, j) ==
  Binary(1, i, j) \cup
  UNION {UNION {{Assign(T(p), target, value) : value \in Exprs(p + 1, j)}
                : target \in {e \in Binary(1, i, p - 1) : e.node \in {"Var", "ArrayIndex"}}}
         : p \in {q \in (i + 1)..(j - 1) : T(q) \in {"=", "+=", "-=", "&=", "|=", "^="}}}

\* expr?
Optional(i, j) == IF i > j THEN {None} ELSE Exprs(i, j)

\* var_decl: an array has a size that is not 0, and no initialiser.
VarDecls(i, j) ==
  CASE ~(j >= i + 2 /\ T(i) = "char" /\ T(i + 1) = "IDENT" /\ T(j) = ";") -> {}
    [] j = i + 2 /\ T(i) = "char" /\ T(i + 1) = "IDENT" /\ T(j) = ";" ->
         {VarDecl(tokens[i + 1].name, 0, None)}
    [] OTHER ->
         IF T(i + 2) = "=" THEN {VarDecl(tokens[i + 1].name, 0, e) : e \in Exprs(i + 3, j - 1)}
         ELSE IF j = i + 5 /\ T(i + 2) = "[" /\ T(i + 3) = "INT_LIT" /\ T(i + 4) = "]"
         THEN {VarDecl(tokens[i + 1].name, n, None) : n \in {tokens[i + 3].value} \ {0}}
         ELSE {}

RECURSIVE StmtSeqs(_, _)

\* block
Blocks(i, j) ==
  IF i < j /\ T(i) = "{" /\ T(j) = "}" THEN {Block(s) : s \in StmtSeqs(i + 1, j - 1)} ELSE {}

ExprStmts(i, j) ==
  IF T(j) = ";" THEN {ExprStmt(e) : e \in Exprs(i, j - 1)} ELSE {}

\* The positions of a token strictly inside the span.
Inside(i, j, type) == {p \in (i + 1)..(j - 1) : T(p) = type}

IfStmts(i, j) ==
  UNION {UNION {{IfStmt(c, b, None) : b \in Blocks(p + 1, j)} \cup
                UNION {UNION {{IfStmt(c, b, e) : e \in Blocks(q + 1, j)}
                              : b \in Blocks(p + 1, q - 1)}
                       : q \in Inside(p, j, "else")}
                : c \in Exprs(i + 2, p - 1)}
         : p \in Inside(i + 1, j, ")")}

WhileStmts(i, j) ==
  UNION {UNION {{WhileStmt(c, b) : b \in Blocks(p + 1, j)} : c \in Exprs(i + 2, p - 1)}
         : p \in Inside(i + 1, j, ")")}

\* for_init ends at t[1], the condition before t[2], the update before t[3].
ForStmts(i, j) ==
  UNION {UNION {UNION {UNION {{ForStmt(init, c, u, b) : b \in Blocks(t[3] + 1, j)}
                              : u \in Optional(t[2] + 1, t[3] - 1)}
                       : c \in Optional(t[1] + 1, t[2] - 1)}
                : init \in IF t[1] = i + 2 THEN {None}
                           ELSE VarDecls(i + 2, t[1]) \cup ExprStmts(i + 2, t[1])}
         : t \in {u \in Inside(i + 1, j, ";") \X Inside(i + 1, j, ";") \X Inside(i + 1, j, ")") :
                    u[1] < u[2] /\ u[2] < u[3]}}

Stmts(i, j) ==
  CASE T(j) \notin {";", "}"} -> {}
    [] T(j) \in {";", "}"} /\ T(i) = "if" /\ T(i + 1) = "("    -> IfStmts(i, j)
    [] T(j) \in {";", "}"} /\ T(i) = "while" /\ T(i + 1) = "(" -> WhileStmts(i, j)
    [] T(j) \in {";", "}"} /\ T(i) = "for" /\ T(i + 1) = "("   -> ForStmts(i, j)
    [] T(j) = ";" /\ T(i) = "char"   -> VarDecls(i, j)
    [] T(j) = ";" /\ T(i) = "return" -> {ReturnStmt(e) : e \in Optional(i + 1, j - 1)}
    [] T(j) = ";" /\ T(i) = "break"  -> IF j = i + 1 THEN {BreakStmt} ELSE {}
    [] OTHER -> ExprStmts(i, j)

\* statement*
StmtSeqs(i, j) ==
  IF i > j THEN {<<>>}
  ELSE UNION {UNION {{<<s>> \o rest : rest \in StmtSeqs(p + 1, j)} : s \in Stmts(i, p)}
              : p \in i..j}

\* param_list: commas between pairs of 'char' and a name.
ParamLists(i, j) ==
  CASE i > j -> {<<>>}
    [] i <= j /\ (j - i + 2) % 3 = 0
         /\ \A k \in i..j : T(k) = <<"char", "IDENT", ",">>[((k - i) % 3) + 1] ->
         {[n \in 1..((j - i + 2) \div 3) |-> tokens[i + 3 * n - 2].name]}
    [] OTHER -> {}

FuncDecls(i, j) ==
  IF ~(j > i + 2 /\ T(i) \in {"char", "void"} /\ T(i + 1) = "IDENT" /\ T(i + 2) = "(")
  THEN {}
  ELSE UNION {UNION {{FuncDecl(T(i), tokens[i + 1].name, ps, b) : b \in Blocks(p + 1, j)}
                     : ps \in ParamLists(i + 3, p - 1)}
              : p \in Inside(i + 2, j, ")")}

\* program
RECURSIVE Programs(_, _)
Programs(i, j) ==
  IF i > j THEN {<<>>}
  ELSE UNION {UNION {{<<d>> \o rest : rest \in Programs(p + 1, j)}
                     : d \in VarDecls(i, p) \cup FuncDecls(i, p)}
              : p \in i..j}

=============================================================================
