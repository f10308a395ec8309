--------------------------- MODULE MCNoobsToolchain ---------------------------
(* The toolchain on short texts, on programs with a token changed or left   *)
(* out, on all pairs of statements of a menu and on whole programs.         *)
EXTENDS NoobsToolchain

MCStrayBytes == {0}

\* All strings of n of the characters.
RECURSIVE Strings(_, _)
Strings(n, chars) ==
  IF n = 0 THEN {""} ELSE {s \o c : s \in Strings(n - 1, chars), c \in chars}

\* Where lexemes of different kinds meet.
Texts ==
  UNION {Strings(n, Chars("01xbaF'\\n/*+=&! ")) : n \in 1..3}
    \cup Strings(4, Chars("0x'\\/*\n"))
    \cup {"/*/**/", "/**/*/1", "/***/1", "a/*b*/1", "//a\n1", "'a", "'\\n'", "0b102", "0XaG",
          "\t1\r\n", "'}'", "a@", "_a1", "ifx", "if", "'~' ' '"}

\* A list of lexemes, written with blanks between them.
RECURSIVE Written(_)
Written(s) == IF s = <<>> THEN "" ELSE Head(s) \o " " \o Written(Tail(s))

\* Expressions of up to four tokens, as an initialiser.
Operands == {"x", "1", "(", ")", "[", "]", "-", "+", "=", "++", ","}

ExprTexts ==
  {"char y = " \o Written(s) \o ";" : s \in UNION {[1..n -> Operands] : n \in 1..4}}

\* Expressions in which operators of different levels and of one level meet.
LevelTexts ==
  {"char y = x " \o a \o " ~z " \o b \o " !w " \o c \o " 1;" :
     a \in {"||", "|", "+", "-="}, b \in {"&&", "^", "==", "-"}, c \in {"&", "<", "*", "="}}

\* Well-formed programs, each token of which is left out or replaced.
Bases == {
  <<"char", "a", "[", "2", "]", ";", "char", "b", "=", "1", ";">>,
  <<"void", "f", "(", "char", "p", ",", "char", "q", ")", "{", "}">>,
  <<"char", "f", "(", ")", "{", "if", "(", "x", ")", "{", "}", "else", "{", "break", ";", "}", "}">>,
  <<"void", "f", "(", ")", "{", "for", "(", "char", "i", ";", "i", ";", "i", "++", ")",
    "{", "return", ";", "}", "}">>,
  <<"void", "f", "(", ")", "{", "while", "(", "a", "[", "x", "]", ")", "{", "g", "(", "1",
    ",", "x", ")", ";", "}", "}">> }

Edited(s) ==
  {s} \cup {SubSeq(s, 1, k - 1) \o e \o SubSeq(s, k + 1, Len(s)) :
              k \in DOMAIN s,
              e \in {<<>>, <<";">>, <<"x">>, <<")">>, <<"}">>, <<",">>, <<"char">>, <<"(", "x", ")">>}}

EditedTexts == {Written(t) : t \in UNION {Edited(s) : s \in Bases}}

-----------------------------------------------------------------------------
\* Statements of a main that knows g, h, the array a, and some functions.
Context ==
  "char g = 5; char h = 0xFE; char a[3]; "
  \o "char id(char p) { return p; } "
  \o "char sub(char p, char q) { return p - q; } "
  \o "char sel(char p, char q, char r) { if (p) { return q; } else { return r; } } "
  \o "void put(char p) { g = p + 1; if (p > g) { return; } h = 7; } "

Statements == {
  "g = h + 3;", "g -= h - 1;", "h = -g ^ ~h;", "a[g - 4] = h--;", "h = a[1]++;",
  "a[id(1)] = 200 | h;", "g = !(h & 1);", "g++; a[a[0]] = g;", "g = sub(g, 2);",
  "h = sel(h, a[0], g - 252);", "put(h); g = g + g;", "h = id(g) + h; g = id(3) - 1;",
  "char i; for (i = 0; i < 3; i++) { a[i] = i + g; }",
  "char j = 2; while (j) { j -= 1; if (j == 1) { break; } }",
  "if (g > h && !(h <= 2) || g != 5) { g = 1; } else { h = 2; }",
  "if (g >= h) { h = 1; } if (!(g < 9) || a[0]) { g = 2; }",
  "for (;;) { if (h == 0) { break; } h = h + 1; }",
  "return;", "{", "break;", "return 1;", "a = 1;", "g[0] = 1;", "put = 1;", "g = put(1);",
  "g();", "sub(1);", "nope = 1;", "id(a[2]);", "char g = 1;", "a[3] = 1;", "g = g == 1;",
  "char k; k += 1;", "g = (1 + (2 + (3 + (4 + (5 + g)))));", "char put; put(1);" }

MainTexts ==
  {Context \o "void main() { " \o s \o " " \o t \o " }" : s \in Statements, t \in Statements}

\* Whole programs: four of the examples' kind, and programs that the rules of
\* the later phases concern.
Whole == {
  "char result; char fib(char n) { char a; char b; char tmp; a = 0; b = 1;"
    \o " while (n) { tmp = b; b = a + b; a = tmp; n = n - 1; } return a; }"
    \o " void main() { result = fib(10); }",
  "char result; char mul(char a, char b) { char acc; acc = 0;"
    \o " while (b) { acc = acc + a; b = b - 1; } return acc; } void main() { result = mul(6, 7); }",
  "char data[4]; char done; void fill() { data[0] = 5; data[1] = 1; data[2] = 15; data[3] = 2; }"
    \o " void sort() { char i; char j; char tmp; char swapped; i = 0;"
    \o " while (i < 4) { swapped = 0; j = 0; while (j < 3) { if (data[j] > data[j + 1]) {"
    \o " tmp = data[j]; data[j] = data[j + 1]; data[j + 1] = tmp; swapped = 1; } j = j + 1; }"
    \o " if (!swapped) { break; } i = i + 1; } done = 1; } void main() { fill(); sort(); }",
  "char led; void main() { led = 0; while (1) { led = led ^ 0xFF; } }",
  "char x; char x; void main() { }", "char x = 'A'; char y = 300; void main() { y++; }",
  "void f(char a, char b, char c, char d) { } void main() { }",
  "void f() { }", "char main;", "char __tmp0; void main() { }",
  "void f(char x) { } void f_x() { } void main() { f(1); f_x(); }",
  "void main() { char x; char x; }", "void main() { if (1) { char x = 1; } x = 2; }",
  "void main(char p) { }", "char f() { } void main() { f(); }",
  "char f(char n) { if (n) { return f(n - 1); } return 0; } void main() { f(3); }" }

MCSources ==
  {<<"", s>> : s \in Texts \cup ExprTexts \cup LevelTexts \cup EditedTexts
                       \cup MainTexts \cup Whole}
    \cup {<<f, s>> : f \in {"--lex", "--ast", "--asm"}, s \in {"", "1", "char x;", "void f() { }"}}

\* The assembler alone: every instruction, what it refuses, and lines before
\* the first directive or in the wrong section.
MCAssemblies ==
  {<<Begin("data"), Data("x", <<1, 2>>), Data("", <<3>>), Data("y", <<4>>), Begin("code"), l,
     Labelled("end", Mem("LOAD", 2, "y")), Labelled("1st", Bare("HALT"))>> :
     l \in {Line(op, <<1, 2>>, 7, "end") : op \in DOMAIN OP_CODE \cup {"MOV"}}}
    \cup {<<Begin("data"), Data("x", <<1>>), Data("x", <<2>>)>>,
          <<Begin("data"), Data("1st", <<1>>)>>,
          <<Begin("code"), Jump("JMP", "nowhere")>>, <<Begin("code"), Data("x", <<1>>)>>,
          <<Begin("code"), Labelled("l", Bare("NOP")), Labelled("l", Bare("RET"))>>,
          <<Labelled("l", Bare("NOP")), Bare("HALT")>>,
          <<Bare("NOP"), Begin("code"), Labelled("l", Bare("NOP")), Jump("JMPNC", "l"),
            Begin("data"), Data("d", <<1, 2>>), Begin("code"), Mem("STORE", 1, "d")>>}

\* The violation: an argument that is computed while another one waits, and a
\* left operand that waits while a function is called.
MCCallSources ==
  {<<"", "char sum; char next; char add(char a, char b) { return a + b; }"
          \o " char inc(char a) { return a + 1; }"
          \o " void main() { char x = 1; sum = add(x + 1, 2); next = x + inc(2); }">>}
MCNoAssemblies == {}

=============================================================================
