------------------------ MODULE NoobsAssembler_proofs ------------------------
(***************************************************************************)
(* The two passes of the assembler agree, for every well-formed file: a    *)
(* label's address is the number of bytes in front of its line. How many   *)
(* these are would be a recursive definition; instead the proof carries    *)
(* the tables of PASS-1 along, which give each line the two counters and   *)
(* the section at its start.                                               *)
(***************************************************************************)
EXTENDS NoobsAssembler, TLAPS

IsList(s) == \E S : s \in Seq(S)

Sections == {"none", "data", "code"}

\* A file is a list of lines; those of data hold a list of bytes.
IsFile(file) ==
  /\ IsList(file)
  /\ \A k \in DOMAIN file :
       /\ IsDirective(file[k]) => file[k].section \in {"data", "code"}
       /\ IsData(file[k]) => IsList(file[k].bytes)

\* A line that counts in a section, when the section at its start is now.
LineIn(l, now, sc) == ~IsDirective(l) /\ now = sc

\* The counters and the section behind line k.
LineCounted(file, d, c, s, k) ==
  /\ d[k + 1] = IF LineIn(file[k], s[k], "data") THEN d[k] + DataSize(file[k]) ELSE d[k]
  /\ c[k + 1] = IF LineIn(file[k], s[k], "code") THEN c[k] + CodeSize(file[k]) ELSE c[k]
  /\ s[k + 1] = IF IsDirective(file[k]) THEN file[k].section ELSE s[k]

\* The counters and sections of the first n lines of a file.
Counted(file, d, c, s, n) ==
  /\ d \in [1..n -> Nat] /\ c \in [1..n -> Nat] /\ s \in [1..n -> Sections]
  /\ d[1] = 0 /\ c[1] = 0 /\ s[1] = "none"
  /\ \A k \in 1..(n - 1) : LineCounted(file, d, c, s, k)

\* The labels of the lines in front of line n have their addresses.
LineEntered(file, table, d, c, s, k) ==
  ~IsDirective(file[k]) /\ s[k] # "none" /\ file[k].label # "" =>
    /\ file[k].label \in DOMAIN table
    /\ table[file[k].label] = IF s[k] = "data" THEN d[k] + 8 ELSE c[k]

Entered(file, table, d, c, s, n) ==
  \A k \in 1..(n - 1) : LineEntered(file, table, d, c, s, k)

FirstPass ==
  \E d, c, s :
    /\ Counted(asm, d, c, s, line) /\ Entered(asm, symbol_table, d, c, s, line)
    /\ data_index = d[line] /\ code_index = c[line] /\ section = s[line]

\* Behind its first line a file that begins with a directive is in a section.
SecondPass ==
  WellFormed =>
    \E d, c, s :
      /\ Counted(asm, d, c, s, Len(asm) + 1)
      /\ Entered(asm, symbol_table, d, c, s, Len(asm) + 1)
      /\ Len(code_mem) = c[line] /\ Len(data_mem) = d[line]
      /\ line > 1 => section = s[line] /\ section # "none"

AsmInv ==
  /\ IsFile(asm)
  /\ pass \in {"pass1", "pass2", "done", "died"}
  /\ line \in 1..(Len(asm) + 1) /\ section \in Sections
  /\ IsList(code_mem) /\ IsList(data_mem)
  /\ pass = "pass1" => FirstPass /\ code_mem = <<>> /\ data_mem = <<>>
  /\ pass = "pass2" => SecondPass

-----------------------------------------------------------------------------
\* Lists, whatever their elements.
LEMMA ListsJoin ==
  ASSUME NEW s, NEW t, IsList(s), IsList(t)
  PROVE  /\ IsList(s \o t)
         /\ Len(s) \in Nat /\ Len(t) \in Nat /\ Len(s \o t) = Len(s) + Len(t)
<1>1. PICK S, T : s \in Seq(S) /\ t \in Seq(T)
  BY DEF IsList
<1>2. s \in Seq(S \cup T) /\ t \in Seq(S \cup T)
  BY <1>1
<1> QED
  BY <1>2 DEF IsList

\* The lists of which the bytes of a line are made.
LEMMA ShortLists ==
  /\ IsList(<<>>) /\ Len(<<>>) = 0
  /\ \A a : IsList(<<a>>) /\ Len(<<a>>) = 1
  /\ \A a, b : IsList(<<a, b>>) /\ Len(<<a, b>>) = 2
  /\ \A a, b, c : IsList(<<a, b, c>>) /\ Len(<<a, b, c>>) = 3
<1>1. ASSUME NEW a, NEW b, NEW c
      PROVE  /\ IsList(<<>>) /\ IsList(<<a>>) /\ IsList(<<a, b>>) /\ IsList(<<a, b, c>>)
             /\ Len(<<>>) = 0 /\ Len(<<a>>) = 1 /\ Len(<<a, b>>) = 2 /\ Len(<<a, b, c>>) = 3
  <2> DEFINE S == {a, b, c}
  <2>1. <<>> \in Seq(S) /\ <<a>> \in Seq(S) /\ <<a, b>> \in Seq(S) /\ <<a, b, c>> \in Seq(S)
    OBVIOUS
  <2>2. Len(<<>>) = 0 /\ Len(<<a>>) = 1 /\ Len(<<a, b>>) = 2 /\ Len(<<a, b, c>>) = 3
    OBVIOUS
  <2> HIDE DEF S
  <2> QED
    BY <2>1, <2>2 DEF IsList
<1> QED
  BY <1>1, Zenon

\* What is counted in PASS-1 is what is emitted in PASS-2: the cascade of
\* conditions on the mnemonic is the same in both.
LEMMA SizeIsLength ==
  ASSUME NEW l, Opcode(l) = l.op
  PROVE  IsList(Encode(l)) /\ Len(Encode(l)) = CodeSize(l)
<1> USE DEF IMMEDIATE, ON_ZERO, ON_NZ, ON_OVF, ALWAYS, MEMORY, TRANSFER
<1> DEFINE opcode == OP_CODE[l.op]
           address == symbol_table[l.target]
<1>1. CASE l.op \in IMMEDIATE
  <2>1. CodeSize(l) = 2
    BY <1>1 DEF CodeSize
  <2>2. Encode(l) = <<opcode + 4 * l.regs[1] + l.regs[2], l.imm>>
    BY <1>1 DEF Encode
  <2> HIDE DEF opcode
  <2>3. IsList(Encode(l))
    BY <2>2, ShortLists
  <2> QED
    BY <2>1, <2>2, <2>3
<1>2. CASE l.op \in TRANSFER
  <2> DEFINE high == opcode + ((address \div 256) % 8)
             low  == address % 256
  <2>1. Encode(l) = Prefix(l.op) \o <<high, low>>
    BY <1>2 DEF Encode, AddressBytes
  <2> HIDE DEF high, low
  <2>2. CASE l.op \in ON_ZERO
    <3>1. CodeSize(l) = 4
      BY <2>2 DEF CodeSize
    <3>2. PICK p, q : Prefix(l.op) = <<p, q>>
      BY <2>2 DEF Prefix
    <3> QED
      BY <2>1, <3>1, <3>2, ListsJoin, ShortLists
  <2>3. CASE l.op \in ON_NZ
    <3>1. CodeSize(l) = 4
      BY <2>3 DEF CodeSize
    <3>2. PICK p, q : Prefix(l.op) = <<p, q>>
      BY <2>3 DEF Prefix
    <3> QED
      BY <2>1, <3>1, <3>2, ListsJoin, ShortLists
  <2>4. CASE l.op \in ON_OVF
    <3>1. CodeSize(l) = 5
      BY <2>4 DEF CodeSize
    <3>2. PICK p, q, r : Prefix(l.op) = <<p, q, r>>
      BY <2>4 DEF Prefix
    <3> QED
      BY <2>1, <3>1, <3>2, ListsJoin, ShortLists
  <2>5. CASE l.op \in ALWAYS
    <3>1. CodeSize(l) = 3
      BY <2>5 DEF CodeSize
    <3>2. PICK p : Prefix(l.op) = <<p>>
      BY <2>5 DEF Prefix
    <3> QED
      BY <2>1, <3>1, <3>2, ListsJoin, ShortLists
  <2>6. CASE l.op \in {"JMP", "CALL"}
    <3>1. CodeSize(l) = 2
      BY <2>6 DEF CodeSize
    <3>2. Prefix(l.op) = <<>>
      BY <2>6 DEF Prefix
    <3> QED
      BY <2>1, <3>1, <3>2, ListsJoin, ShortLists
  <2> QED
    BY <1>2, <2>2, <2>3, <2>4, <2>5, <2>6
<1>3. CASE l.op \in MEMORY
  <2>1. CodeSize(l) = 2
    BY <1>3 DEF CodeSize
  <2>2. PICK high, low : Encode(l) = <<high, low>>
    BY <1>3 DEF Encode, AddressBytes
  <2>3. IsList(Encode(l))
    BY <2>2, ShortLists
  <2> QED
    BY <2>1, <2>2, <2>3
<1>4. CASE l.op \notin IMMEDIATE \cup TRANSFER \cup MEMORY
  <2>1. CodeSize(l) = 1
    BY <1>4 DEF CodeSize
  <2>2. PICK only : Encode(l) = <<only>>
    BY <1>4 DEF Encode
  <2>3. IsList(Encode(l))
    BY <2>2, ShortLists
  <2> QED
    BY <2>1, <2>2, <2>3
<1> QED
  BY <1>1, <1>2, <1>3, <1>4

\* A line that PASS-2 encodes has an opcode, as no line of data has.
LEMMA EncodedSize ==
  ASSUME NEW l, ~Undefined(l)
  PROVE  IsList(Encode(l)) /\ Len(Encode(l)) = CodeSize(l)
<1>1. "number" \notin DOMAIN OP_CODE
  BY DEF OP_CODE
<1>2. Opcode(l) = l.op
  BY <1>1 DEF Undefined, Opcode
<1> QED
  BY <1>2, SizeIsLength

-----------------------------------------------------------------------------
(* PASS-1.                                                                 *)

\* A line of code counts for at least a byte.
LEMMA CodeSizeType ==
  ASSUME NEW l
  PROVE  CodeSize(l) \in Nat
BY DEF CodeSize

\* The elements of a list are numbered from 1.
LEMMA ListLength ==
  ASSUME NEW s, IsList(s)
  PROVE  Len(s) \in Nat /\ DOMAIN s = 1..Len(s)
BY DEF IsList

\* One more line is counted.
LEMMA CountersGrow ==
  ASSUME NEW n \in Nat \ {0}, NEW t \in [1..n -> Nat], NEW m \in Nat
  PROVE  \E u : /\ u \in [1..(n + 1) -> Nat] /\ u[n + 1] = m
               /\ \A k \in 1..n : u[k] = t[k]
<1> DEFINE u == [k \in 1..(n + 1) |-> IF k = n + 1 THEN m ELSE t[k]]
<1>1. u \in [1..(n + 1) -> Nat]
  OBVIOUS
<1>2. u[n + 1] = m
  OBVIOUS
<1>3. \A k \in 1..n : u[k] = t[k]
  OBVIOUS
<1> HIDE DEF u
<1> QED
  BY <1>1, <1>2, <1>3

LEMMA SectionsGrow ==
  ASSUME NEW n \in Nat \ {0}, NEW t \in [1..n -> Sections], NEW m \in Sections
  PROVE  \E u : /\ u \in [1..(n + 1) -> Sections] /\ u[n + 1] = m
               /\ \A k \in 1..n : u[k] = t[k]
<1> DEFINE u == [k \in 1..(n + 1) |-> IF k = n + 1 THEN m ELSE t[k]]
<1>1. u \in [1..(n + 1) -> Sections]
  OBVIOUS
<1>2. u[n + 1] = m
  OBVIOUS
<1>3. \A k \in 1..n : u[k] = t[k]
  OBVIOUS
<1> HIDE DEF u
<1> QED
  BY <1>1, <1>2, <1>3

\* The lines up to the next one are those in front of it and itself.
LEMMA UpTo ==
  \A n \in Nat : \A k \in 1..(n + 1) : k <= n => k \in 1..n
OBVIOUS

LEMMA BehindTheFirst ==
  \A n \in Nat : \A k \in 1..n : k # 1 => k > 1
OBVIOUS

\* The tables are right line by line.
LEMMA AllLines ==
  ASSUME NEW file, NEW table, NEW d, NEW c, NEW s, NEW n \in Nat
  PROVE  /\ /\ d \in [1..(n + 1) -> Nat] /\ c \in [1..(n + 1) -> Nat]
            /\ s \in [1..(n + 1) -> Sections]
            /\ d[1] = 0 /\ c[1] = 0 /\ s[1] = "none"
            /\ \A k \in 1..n : LineCounted(file, d, c, s, k)
            => Counted(file, d, c, s, n + 1)
         /\ Entered(file, table, d, c, s, n + 1)
              <=> \A k \in 1..n : LineEntered(file, table, d, c, s, k)
<1>1. n + 1 - 1 = n
  OBVIOUS
<1>2. ASSUME d \in [1..(n + 1) -> Nat], c \in [1..(n + 1) -> Nat],
             s \in [1..(n + 1) -> Sections], d[1] = 0, c[1] = 0, s[1] = "none",
             \A k \in 1..n : LineCounted(file, d, c, s, k)
      PROVE  Counted(file, d, c, s, n + 1)
  BY <1>1, <1>2 DEF Counted
<1>3. Entered(file, table, d, c, s, n + 1)
        <=> \A k \in 1..n : LineEntered(file, table, d, c, s, k)
  BY <1>1 DEF Entered
<1> QED
  BY <1>2, <1>3

\* The line that is read is one of the file.
LEMMA LineRead ==
  ASSUME AsmInv, NEW p, Reading(p)
  PROVE  Len(asm) \in Nat /\ line \in 1..Len(asm) /\ DOMAIN asm = 1..Len(asm)
<1>1. Len(asm) \in Nat /\ DOMAIN asm = 1..Len(asm)
  BY ListLength DEF AsmInv, IsFile
<1>2. line \in 1..(Len(asm) + 1) /\ line <= Len(asm)
  BY DEF AsmInv, Reading
<1> QED
  BY <1>1, <1>2

\* What a line of PASS-1 does: it enters its label, if it is in a section,
\* with the counter in front of it, and counts its bytes.
Pass1Line ==
  /\ Reading("pass1") /\ asm' = asm /\ line' = line + 1
  /\ section' = IF IsDirective(asm[line]) THEN asm[line].section ELSE section
  /\ data_index' = IF LineIn(asm[line], section, "data")
                   THEN data_index + DataSize(asm[line]) ELSE data_index
  /\ code_index' = IF LineIn(asm[line], section, "code")
                   THEN code_index + CodeSize(asm[line]) ELSE code_index
  /\ LineIn(asm[line], section, "data") =>
       IsData(asm[line]) /\ ~Redefines(asm[line]) /\ EnterLabel(asm[line].label, data_index + 8)
  /\ LineIn(asm[line], section, "code") =>
       ~Redefines(asm[line]) /\ EnterLabel(asm[line].label, code_index)
  /\ ~LineIn(asm[line], section, "data") /\ ~LineIn(asm[line], section, "code") =>
       symbol_table' = symbol_table

\* A label entered in PASS-1 takes nothing away from the others.
LEMMA TableKept ==
  ASSUME AsmInv, Pass1Line
  PROVE  \A x \in DOMAIN symbol_table :
           x \in DOMAIN symbol_table' /\ symbol_table'[x] = symbol_table[x]
<1>1. CASE LineIn(asm[line], section, "data")
  BY <1>1 DEF Pass1Line, EnterLabel, Redefines
<1>2. CASE LineIn(asm[line], section, "code")
  BY <1>2 DEF Pass1Line, EnterLabel, Redefines
<1>3. CASE ~LineIn(asm[line], section, "data") /\ ~LineIn(asm[line], section, "code")
  BY <1>3 DEF Pass1Line
<1> QED
  BY <1>1, <1>2, <1>3

\* A line's label is entered with the counter in front of the line.
LEMMA TablesGrow ==
  ASSUME AsmInv, Pass1Line
  PROVE  FirstPass' /\ section' \in Sections
<1> DEFINE l == asm[line]
<1>1. Len(asm) \in Nat /\ line \in 1..Len(asm) /\ DOMAIN asm = 1..Len(asm)
  BY LineRead DEF Pass1Line
<1>2. line \in Nat \ {0}
  BY <1>1
<1>3. PICK d, c, s : /\ Counted(asm, d, c, s, line) /\ Entered(asm, symbol_table, d, c, s, line)
                     /\ data_index = d[line] /\ code_index = c[line] /\ section = s[line]
  BY DEF AsmInv, Pass1Line, Reading, FirstPass
<1>4. /\ d \in [1..line -> Nat] /\ c \in [1..line -> Nat] /\ s \in [1..line -> Sections]
      /\ d[1] = 0 /\ c[1] = 0 /\ s[1] = "none"
      /\ \A k \in 1..(line - 1) : LineCounted(asm, d, c, s, k)
  BY <1>3 DEF Counted
<1>5. data_index' \in Nat /\ code_index' \in Nat
  <2>1. IsData(l) => DataSize(l) \in Nat
    BY <1>1, ListLength DEF AsmInv, IsFile, DataSize
  <2>2. CodeSize(l) \in Nat
    BY CodeSizeType
  <2>3. d[line] \in Nat /\ c[line] \in Nat
    BY <1>2, <1>4
  <2> QED
    BY <1>3, <2>1, <2>2, <2>3 DEF Pass1Line
<1>6. section' \in Sections
  BY <1>1 DEF AsmInv, IsFile, Pass1Line, Sections
<1>7. PICK d2 : /\ d2 \in [1..(line + 1) -> Nat] /\ d2[line + 1] = data_index'
                /\ \A k \in 1..line : d2[k] = d[k]
  <2>1. d \in [1..line -> Nat] /\ data_index' \in Nat
    BY <1>4, <1>5
  <2> QED
    BY <1>2, <2>1, CountersGrow, Zenon
<1>8. PICK c2 : /\ c2 \in [1..(line + 1) -> Nat] /\ c2[line + 1] = code_index'
                /\ \A k \in 1..line : c2[k] = c[k]
  <2>1. c \in [1..line -> Nat] /\ code_index' \in Nat
    BY <1>4, <1>5
  <2> QED
    BY <1>2, <2>1, CountersGrow, Zenon
<1>9. PICK s2 : /\ s2 \in [1..(line + 1) -> Sections] /\ s2[line + 1] = section'
                /\ \A k \in 1..line : s2[k] = s[k]
  <2>1. s \in [1..line -> Sections] /\ section' \in Sections
    BY <1>4, <1>6
  <2> QED
    BY <1>2, <2>1, SectionsGrow, Zenon
<1>10. ASSUME NEW k \in 1..line, k # line
       PROVE  k \in 1..(line - 1) /\ k + 1 \in 1..line
  BY <1>2, <1>10
<1>11. Counted(asm, d2, c2, s2, line)'
  <2>1. d2[1] = 0 /\ c2[1] = 0 /\ s2[1] = "none"
    BY <1>2, <1>4, <1>7, <1>8, <1>9
  <2>2. ASSUME NEW k \in 1..line
        PROVE  LineCounted(asm, d2, c2, s2, k)
    <3>1. CASE k = line
      BY <1>3, <1>7, <1>8, <1>9, <3>1 DEF LineCounted, Pass1Line
    <3>2. CASE k # line
      <4>1. LineCounted(asm, d, c, s, k)
        BY <1>4, <1>10, <3>2
      <4>2. /\ d2[k] = d[k] /\ c2[k] = c[k] /\ s2[k] = s[k]
            /\ d2[k + 1] = d[k + 1] /\ c2[k + 1] = c[k + 1] /\ s2[k + 1] = s[k + 1]
        BY <1>7, <1>8, <1>9, <1>10, <3>2
      <4> QED
        BY <4>1, <4>2 DEF LineCounted
    <3> QED
      BY <3>1, <3>2
  <2>3. /\ d2 \in [1..(line + 1) -> Nat] /\ c2 \in [1..(line + 1) -> Nat]
        /\ s2 \in [1..(line + 1) -> Sections]
    BY <1>7, <1>8, <1>9
  <2>4. Counted(asm, d2, c2, s2, line + 1)
    BY <1>2, <2>1, <2>2, <2>3, AllLines, Zenon
  <2> QED
    BY <2>4 DEF Pass1Line
<1>12. Entered(asm, symbol_table, d2, c2, s2, line)'
  <2>1. ASSUME NEW k \in 1..line
        PROVE  LineEntered(asm, symbol_table', d2, c2, s2, k)
    <3>1. d2[k] = d[k] /\ c2[k] = c[k] /\ s2[k] = s[k]
      BY <1>7, <1>8, <1>9
    <3>2. CASE k = line
      <4>1. section \in Sections
        BY DEF AsmInv
      <4> QED
        BY <1>3, <3>1, <3>2, <4>1 DEF EnterLabel, LineEntered, LineIn, Pass1Line, Sections
    <3>3. CASE k # line
      <4>1. k \in 1..(line - 1)
        BY <1>10, <3>3
      <4>2. LineEntered(asm, symbol_table, d, c, s, k)
        BY <1>3, <4>1 DEF Entered
      <4> QED
        BY <3>1, <4>2, TableKept DEF LineEntered
    <3> QED
      BY <3>2, <3>3
  <2>2. Entered(asm, symbol_table', d2, c2, s2, line + 1)
    BY <1>2, <2>1, AllLines, Zenon
  <2> QED
    BY <2>2 DEF Pass1Line
<1>13. data_index' = d2[line'] /\ code_index' = c2[line'] /\ section' = s2[line']
  BY <1>7, <1>8, <1>9 DEF Pass1Line
<1> QED
  BY <1>6, <1>11, <1>12, <1>13 DEF FirstPass

\* The lines of PASS-1 that do not end it are such steps.
LEMMA Pass1Steps ==
  ASSUME AsmInv, pass = "pass1", Directive \/ Skip \/ Pass1Data \/ Pass1Code
  PROVE  Pass1Line
<1>1. CASE Directive
  BY <1>1 DEF Directive, Reading, Pass1Line, LineIn
<1>2. CASE Skip
  BY <1>2 DEF Skip, Reading, InSection, Pass1Line, LineIn
<1>3. CASE Pass1Data
  BY <1>3 DEF Pass1Data, InSection, Pass1Line, LineIn
<1>4. CASE Pass1Code
  BY <1>4 DEF Pass1Code, InSection, Pass1Line, LineIn
<1> QED
  BY <1>1, <1>2, <1>3, <1>4

-----------------------------------------------------------------------------
(* PASS-2.                                                                 *)

\* The end of the file in PASS-1: its tables hold for the whole file.
LEMMA SecondPassStarts ==
  ASSUME AsmInv, StartPass2
  PROVE  SecondPass'
<1>1. line = Len(asm) + 1 /\ line' = 1
  BY ListLength DEF AsmInv, IsFile, StartPass2
<1>2. PICK d, c, s : Counted(asm, d, c, s, line) /\ Entered(asm, symbol_table, d, c, s, line)
  BY DEF AsmInv, StartPass2, FirstPass
<1>3. /\ Counted(asm, d, c, s, Len(asm) + 1)'
      /\ Entered(asm, symbol_table, d, c, s, Len(asm) + 1)'
  BY <1>1, <1>2 DEF StartPass2
<1>4. Len(code_mem') = c[line'] /\ Len(data_mem') = d[line'] /\ ~(line' > 1)
  BY <1>1, <1>2, ShortLists DEF AsmInv, StartPass2, Counted
<1> QED
  BY <1>3, <1>4 DEF SecondPass

\* What a line of PASS-2 does: it puts out its bytes, if it is in a section.
Pass2Line ==
  /\ Reading("pass2") /\ asm' = asm /\ symbol_table' = symbol_table /\ line' = line + 1
  /\ section' = IF IsDirective(asm[line]) THEN asm[line].section ELSE section
  /\ IF LineIn(asm[line], section, "data")
     THEN IsData(asm[line]) /\ data_mem' = data_mem \o asm[line].bytes
     ELSE data_mem' = data_mem
  /\ IF LineIn(asm[line], section, "code")
     THEN ~Undefined(asm[line]) /\ code_mem' = code_mem \o Encode(asm[line])
     ELSE code_mem' = code_mem

\* The memories grow by what PASS-1 counts, in a well-formed file.
LEMMA MemoriesGrow ==
  ASSUME AsmInv, Pass2Line
  PROVE  /\ IsList(data_mem') /\ IsList(code_mem')
         /\ Len(code_mem') = IF LineIn(asm[line], section, "code")
                             THEN Len(code_mem) + CodeSize(asm[line]) ELSE Len(code_mem)
         /\ WellFormed =>
              Len(data_mem') = IF LineIn(asm[line], section, "data")
                               THEN Len(data_mem) + DataSize(asm[line]) ELSE Len(data_mem)
<1>1. Len(asm) \in Nat /\ line \in 1..Len(asm) /\ DOMAIN asm = 1..Len(asm)
  BY LineRead DEF Pass2Line
<1>2. IsList(data_mem) /\ IsList(code_mem)
  BY DEF AsmInv
<1>3. CASE LineIn(asm[line], section, "data")
  <2>1. IsList(asm[line].bytes)
    BY <1>1, <1>3 DEF AsmInv, IsFile, Pass2Line
  <2>2. IsList(data_mem') /\ Len(data_mem') = Len(data_mem) + Len(asm[line].bytes)
    BY <1>2, <1>3, <2>1, ListsJoin DEF Pass2Line
  <2>3. WellFormed => DataSize(asm[line]) = Len(asm[line].bytes)
    BY <1>1, <1>3 DEF WellFormed, DataSize, Pass2Line
  <2>4. ~LineIn(asm[line], section, "code") /\ code_mem' = code_mem
    BY <1>3 DEF LineIn, Pass2Line
  <2> QED
    BY <1>2, <1>3, <2>2, <2>3, <2>4
<1>4. CASE LineIn(asm[line], section, "code")
  <2>1. IsList(Encode(asm[line])) /\ Len(Encode(asm[line])) = CodeSize(asm[line])
    BY <1>4, EncodedSize DEF Pass2Line
  <2>2. IsList(code_mem') /\ Len(code_mem') = Len(code_mem) + CodeSize(asm[line])
    BY <1>2, <1>4, <2>1, ListsJoin DEF Pass2Line
  <2>3. ~LineIn(asm[line], section, "data") /\ data_mem' = data_mem
    BY <1>4 DEF LineIn, Pass2Line
  <2> QED
    BY <1>2, <1>4, <2>2, <2>3
<1>5. CASE ~LineIn(asm[line], section, "data") /\ ~LineIn(asm[line], section, "code")
  BY <1>2, <1>5 DEF Pass2Line
<1> QED
  BY <1>3, <1>4, <1>5

\* A line of PASS-2 puts out what PASS-1 has counted.
LEMMA LineEmitted ==
  ASSUME AsmInv, Pass2Line
  PROVE  SecondPass' /\ section' \in Sections
<1>1. Len(asm) \in Nat /\ line \in 1..Len(asm) /\ DOMAIN asm = 1..Len(asm)
  BY LineRead DEF Pass2Line
<1>2. section' \in Sections
  BY <1>1 DEF AsmInv, IsFile, Pass2Line, Sections
<1>3. WellFormed' <=> WellFormed
  BY DEF WellFormed, Pass2Line
<1>4. ASSUME WellFormed
      PROVE  \E d, c, s :
               /\ Counted(asm, d, c, s, Len(asm) + 1)
               /\ Entered(asm, symbol_table, d, c, s, Len(asm) + 1)
               /\ Len(code_mem') = c[line'] /\ Len(data_mem') = d[line']
               /\ line' > 1 => section' = s[line'] /\ section' # "none"
  <2>1. PICK d, c, s :
          /\ Counted(asm, d, c, s, Len(asm) + 1)
          /\ Entered(asm, symbol_table, d, c, s, Len(asm) + 1)
          /\ Len(code_mem) = c[line] /\ Len(data_mem) = d[line]
          /\ line > 1 => section = s[line] /\ section # "none"
    BY <1>4 DEF AsmInv, Pass2Line, Reading, SecondPass
  <2>2. LineCounted(asm, d, c, s, line)
    <3>1. \A k \in 1..(Len(asm) + 1 - 1) : LineCounted(asm, d, c, s, k)
      BY <2>1 DEF Counted
    <3> QED
      BY <1>1, <3>1
  <2>3. IsDirective(asm[line]) => asm[line].section \in {"data", "code"}
    BY <1>1 DEF AsmInv, IsFile
  <2>4. section = s[line] \/ IsDirective(asm[line])
    <3>1. line = 1 => IsDirective(asm[line])
      BY <1>4 DEF WellFormed
    <3> QED
      BY <1>1, <2>1, <3>1
  <2>5. section' = s[line + 1] /\ section' # "none"
    <3>1. CASE IsDirective(asm[line])
      BY <2>2, <2>3, <3>1 DEF LineCounted, Pass2Line
    <3>2. CASE ~IsDirective(asm[line])
      <4>1. line # 1
        BY <1>4, <3>2 DEF WellFormed
      <4>2. section = s[line] /\ section # "none"
        BY <1>1, <2>1, <4>1
      <4> QED
        BY <2>2, <3>2, <4>2 DEF LineCounted, Pass2Line
    <3> QED
      BY <3>1, <3>2
  <2>6. \A sc : LineIn(asm[line], section, sc) <=> LineIn(asm[line], s[line], sc)
    BY <2>4 DEF LineIn
  <2>7. Len(code_mem') = c[line + 1] /\ Len(data_mem') = d[line + 1]
    BY <1>4, <2>1, <2>2, <2>6, MemoriesGrow DEF LineCounted
  <2>8. line' = line + 1
    BY DEF Pass2Line
  <2> QED
    BY <2>1, <2>5, <2>7, <2>8
<1>5. asm' = asm /\ symbol_table' = symbol_table
  BY DEF Pass2Line
<1>6. SecondPass'
  BY <1>3, <1>4, <1>5 DEF SecondPass
<1> QED
  BY <1>2, <1>6

\* The lines of PASS-2 that do not end it are such steps.
LEMMA Pass2Steps ==
  ASSUME AsmInv, pass = "pass2", Directive \/ Skip \/ Pass2Data \/ Pass2Code
  PROVE  Pass2Line
<1>1. CASE Directive
  BY <1>1 DEF Directive, Reading, Pass2Line, LineIn
<1>2. CASE Skip
  BY <1>2 DEF Skip, Reading, InSection, Pass2Line, LineIn
<1>3. CASE Pass2Data
  BY <1>3 DEF Pass2Data, InSection, Pass2Line, LineIn
<1>4. CASE Pass2Code
  BY <1>4 DEF Pass2Code, InSection, Pass2Line, LineIn
<1> QED
  BY <1>1, <1>2, <1>3, <1>4

-----------------------------------------------------------------------------
\* Every line of both passes keeps the counters and the table as they are meant.
LEMMA AsmInductive ==
  ASSUME AsmInv, [AsmNext]_asmVars
  PROVE  AsmInv'
<1>1. CASE UNCHANGED asmVars
  <2>1. UNCHANGED <<asm, pass, line, section, symbol_table, data_index, code_index,
                    data_mem, code_mem>>
    BY <1>1 DEF asmVars
  <2>2. FirstPass => FirstPass'
    BY <2>1 DEF FirstPass
  <2>3. SecondPass => SecondPass'
    <3>1. WellFormed' <=> WellFormed
      BY <2>1 DEF WellFormed
    <3> QED
      BY <2>1, <3>1 DEF SecondPass
  <2> QED
    BY <2>1, <2>2, <2>3 DEF AsmInv, IsFile
<1>2. CASE AsmNext
  <2>1. IsFile(asm)' /\ line' \in 1..(Len(asm') + 1)
    BY <1>2, ListLength DEF AsmNext, Directive, Skip, Pass1IllegalName, Pass1Redefined, Die,
       Pass1Data, Pass1Code, StartPass2, Pass2Undefined, Pass2Data, Pass2Code, WriteImages,
       Reading, AsmInv, IsFile
  <2>2. CASE Pass1IllegalName \/ Pass1Redefined \/ Pass2Undefined \/ WriteImages
    BY <2>1, <2>2 DEF Pass1IllegalName, Pass1Redefined, Pass2Undefined, WriteImages, Die, AsmInv
  <2>3. CASE pass = "pass1" /\ (Directive \/ Skip \/ Pass1Data \/ Pass1Code)
    <3>1. FirstPass' /\ section' \in Sections
      BY <2>3, Pass1Steps, TablesGrow
    <3>2. UNCHANGED <<pass, data_mem, code_mem>>
      BY <2>3 DEF Directive, Skip, Pass1Data, Pass1Code
    <3> QED
      BY <2>1, <2>3, <3>1, <3>2 DEF AsmInv
  <2>4. CASE StartPass2
    <3>1. SecondPass'
      BY <2>4, SecondPassStarts
    <3> QED
      BY <2>1, <2>4, <3>1 DEF StartPass2, AsmInv
  <2>5. CASE pass = "pass2" /\ (Directive \/ Skip \/ Pass2Data \/ Pass2Code)
    <3>1. /\ SecondPass' /\ section' \in Sections
          /\ IsList(data_mem') /\ IsList(code_mem')
      BY <2>5, Pass2Steps, LineEmitted, MemoriesGrow
    <3>2. UNCHANGED pass
      BY <2>5 DEF Directive, Skip, Pass2Data, Pass2Code
    <3> QED
      BY <2>1, <2>5, <3>1, <3>2 DEF AsmInv
  <2>6. /\ Directive \/ Skip => pass = "pass1" \/ pass = "pass2"
        /\ Pass1Data \/ Pass1Code => pass = "pass1"
        /\ Pass2Data \/ Pass2Code => pass = "pass2"
    BY DEF Directive, Skip, Pass1Data, Pass1Code, Pass2Data, Pass2Code, Reading
  <2> QED
    BY <1>2, <2>2, <2>3, <2>4, <2>5, <2>6 DEF AsmNext
<1> QED
  BY <1>1, <1>2

\* In PASS-2 a label of a line has the address of the line's first byte.
LEMMA LabelsAgree ==
  ASSUME AsmInv
  PROVE  LabelsAreWhereBytesAre
<1> SUFFICES ASSUME Reading("pass2"), ~IsDirective(asm[line]), asm[line].label # "", WellFormed
             PROVE  symbol_table[asm[line].label] =
                      IF section = "data" THEN Len(data_mem) + 8 ELSE Len(code_mem)
  BY DEF LabelsAreWhereBytesAre
<1>1. PICK d, c, s : /\ Entered(asm, symbol_table, d, c, s, Len(asm) + 1)
                     /\ Len(code_mem) = c[line] /\ Len(data_mem) = d[line]
                     /\ line > 1 => section = s[line] /\ section # "none"
  BY DEF AsmInv, Reading, SecondPass
<1>2. Len(asm) \in Nat /\ line \in 1..Len(asm)
  BY LineRead
<1>3. section = s[line] /\ section # "none"
  <2>1. line # 1
    BY DEF WellFormed
  <2>2. line > 1
    BY <1>2, <2>1, BehindTheFirst, Zenon
  <2> QED
    BY <1>1, <2>2, Zenon
<1>4. LineEntered(asm, symbol_table, d, c, s, line)
  BY <1>1, <1>2, AllLines, Zenon
<1> QED
  BY <1>1, <1>3, <1>4 DEF LineEntered

\* For every file that begins with a directive and has no data line of several
\* bytes without a label, with any mnemonics, labels, operands and order of the
\* sections: the address that PASS-1 gives a label is where PASS-2 puts the
\* bytes of its line.
THEOREM LabelsCorrect ==
  ASSUME NEW file, IsFile(file)
  PROVE  AsmSpec(file) => []LabelsAreWhereBytesAre
<1>1. AsmInit(file) => AsmInv
  <2> SUFFICES ASSUME AsmInit(file) PROVE AsmInv
    OBVIOUS
  <2> DEFINE t == [k \in 1..1 |-> 0]
             s == [k \in 1..1 |-> "none"]
  <2>1. IsFile(asm) /\ line = 1 /\ Len(asm) \in Nat /\ section = "none"
    BY ListLength DEF AsmInit, AsmFresh, IsFile
  <2>2. Counted(asm, t, t, s, line) /\ Entered(asm, symbol_table, t, t, s, line)
    BY <2>1 DEF Counted, Entered, Sections
  <2>3. data_index = t[line] /\ code_index = t[line] /\ section = s[line]
    BY <2>1 DEF AsmInit, AsmFresh
  <2> HIDE DEF t, s
  <2>4. FirstPass
    BY <2>2, <2>3 DEF FirstPass
  <2> QED
    BY <2>1, <2>4, ShortLists DEF AsmInit, AsmFresh, AsmInv, Sections
<1>2. AsmInv /\ [AsmNext]_asmVars => AsmInv'
  BY AsmInductive
<1>3. AsmInv => LabelsAreWhereBytesAre
  BY LabelsAgree
<1> QED
  BY <1>1, <1>2, <1>3, PTL DEF AsmSpec

===============================================================================
