----------------------------- MODULE NoobsCLexer -----------------------------
(***************************************************************************)
(* Phase 1 of the compiler (utils/NoobsC/lexer.py): the characters of the  *)
(* source text are grouped into tokens. The text is a string, a character  *)
(* a string of length one, a position counts from 1. Keywords, operators   *)
(* and punctuation are their own token types; line and column, which only  *)
(* error messages show, are left out.                                      *)
(***************************************************************************)
EXTENDS Naturals, Sequences

VARIABLE source       (* the text of the .nc file                           *)

-----------------------------------------------------------------------------
\* The characters of a string, and those of the texts considered.
Chars(s) == {SubSeq(s, k, k) : k \in 1..Len(s)}

\* ASCII from 32 on and from 97 on, and with them all but the backquote.
FROM_BLANK == " !\"#$%&'()*+,-./0123456789:;<=>?@ABCDEFGHIJKLMNOPQRSTUVWXYZ[\\]^_"
FROM_A     == "abcdefghijklmnopqrstuvwxyz{|}~"

HEX_DIGITS == "0123456789abcdef"
HEX_UPPER  == "0123456789ABCDEF"

WHITESPACE == Chars(" \t\r\n")
DIGITS     == Chars("0123456789")
LETTERS    == Chars("ABCDEFGHIJKLMNOPQRSTUVWXYZabcdefghijklmnopqrstuvwxyz")
IN_LINE    == Chars(FROM_BLANK \o FROM_A \o "\t\r")

Place(ch, s) == CHOOSE k \in 1..Len(s) : SubSeq(s, k, k) = ch

\* ord()
Ord(ch) ==
  CASE ch = "\t" -> 9
    [] ch = "\n" -> 10
    [] ch = "\r" -> 13
    [] ch \in Chars(FROM_BLANK) -> Place(ch, FROM_BLANK) + 31
    [] OTHER     -> Place(ch, FROM_A) + 96

KEYWORDS == {"char", "void", "if", "else", "while", "for", "do", "return", "break"}

TWO_CHARACTERS ==
  {"++", "+=", "--", "-=", "&&", "&=", "||", "|=", "^=", "!=", "==", "<=", ">="}

SINGLE == Chars("+-&|^!=<>*/%~(){}[];,")

-----------------------------------------------------------------------------
\* _peek(): the character at i, or nothing at the end of the text.
Peek(i) == IF i \in 1..Len(source) THEN SubSeq(source, i, i) ELSE ""

\* The first position at or behind i whose character is not one of chars.
RECURSIVE Past(_, _)
Past(i, chars) == IF Peek(i) \in chars THEN Past(i + 1, chars) ELSE i

\* The position behind the first "*/" at or behind i, or 0.
RECURSIVE CommentEnd(_)
CommentEnd(i) ==
  CASE i > Len(source)                     -> 0
    [] Peek(i) = "*" /\ Peek(i + 1) = "/" -> i + 2
    [] OTHER                              -> CommentEnd(i + 1)

\* Where the next token starts, or 0 if a block comment is not closed.
RECURSIVE SkipWhitespaceAndComments(_)
SkipWhitespaceAndComments(i) ==
  CASE Peek(i) \in WHITESPACE ->
         SkipWhitespaceAndComments(Past(i, WHITESPACE))
    [] Peek(i) = "/" /\ Peek(i + 1) = "/" ->
         SkipWhitespaceAndComments(Past(i, IN_LINE))
    [] Peek(i) = "/" /\ Peek(i + 1) = "*" ->
         LET end == CommentEnd(i + 2)
         IN  IF end = 0 THEN 0 ELSE SkipWhitespaceAndComments(end)
    [] OTHER -> i

\* What a scanner returns: a token and the position behind it, or the
\* exception it raises: LexError, or IndexError for reading past the end.
Scanned(token, next) == [raised |-> "", token |-> token, next |-> next]
Raised(error)        == [raised |-> error]

RECURSIVE ToInt(_, _, _)
ToInt(first, last, base) ==
  IF last < first THEN 0
  ELSE LET ch == Peek(last)
       IN  base * ToInt(first, last - 1, base)
             + Place(ch, IF ch \in Chars(HEX_DIGITS) THEN HEX_DIGITS ELSE HEX_UPPER) - 1

\* Mutant: behind 0b, any decimal digit is taken.
DigitsOfTwo(base) ==
  IF base = 16 THEN Chars(HEX_DIGITS) \cup Chars(HEX_UPPER) ELSE DIGITS

DigitsOf(base) ==
  CASE base = 2  -> {"0", "1"}
    [] base = 10 -> DIGITS
    [] OTHER     -> Chars(HEX_DIGITS) \cup Chars(HEX_UPPER)

ScanNumber(i) ==
  LET base  == CASE Peek(i) = "0" /\ Peek(i + 1) \in {"x", "X"} -> 16
                 [] Peek(i) = "0" /\ Peek(i + 1) \in {"b", "B"} -> 2
                 [] OTHER -> 10
      first == IF base = 10 THEN i ELSE i + 2
      next  == Past(first, DigitsOf(base))
  IN  IF next = first THEN Raised("LexError")
      ELSE Scanned([type |-> "INT_LIT", value |-> ToInt(first, next - 1, base)], next)

\* escape_map
Escape(ch) ==
  CASE ch = "n" -> 10
    [] ch = "t" -> 9
    [] ch = "r" -> 13
    [] ch = "0" -> 0
    [] OTHER    -> Ord(ch)        \* backslash and quote

ScanCharLit(i) ==
  LET escaped == Peek(i + 1) = "\\"
      at      == IF escaped THEN i + 2 ELSE i + 1
      ch      == Peek(at)
  IN  CASE Peek(i + 1) = "'"                     -> Raised("LexError")
        [] ch = ""                               -> Raised("IndexError")
        [] escaped /\ ch \notin Chars("ntr0\\'") /\ ch # "" -> Raised("LexError")
        [] OTHER ->
             IF Peek(at + 1) # "'" THEN Raised("LexError")
             ELSE Scanned([type |-> "CHAR_LIT",
                           value |-> IF escaped THEN Escape(ch) ELSE Ord(ch)], at + 2)

ScanIdentOrKeyword(i) ==
  LET next == Past(i, LETTERS \cup DIGITS \cup {"_"})
      text == SubSeq(source, i, next - 1)
  IN  Scanned(IF text \in KEYWORDS THEN [type |-> text]
              ELSE [type |-> "IDENT", name |-> text], next)

NextToken(from) ==
  LET i    == SkipWhitespaceAndComments(from)
      ch   == Peek(i)
      pair == ch \o Peek(i + 1)
  IN  CASE i = 0                        -> Raised("LexError")
        [] i > Len(source)              -> Scanned([type |-> "EOF"], i)
        [] ch \in DIGITS                -> ScanNumber(i)
        [] ch = "'"                     -> ScanCharLit(i)
        [] ch \in LETTERS \cup {"_"}    -> ScanIdentOrKeyword(i)
        [] pair \in TWO_CHARACTERS      -> Scanned([type |-> pair], i + 2)
        [] pair \notin TWO_CHARACTERS /\ ch \in SINGLE -> Scanned([type |-> ch], i + 1)
        [] OTHER                        -> Raised("LexError")

=============================================================================
