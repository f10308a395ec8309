------------------------- MODULE NoobsCallStack_proofs -------------------------
(***************************************************************************)
(* Every RET of the pipeline goes back behind its CALL, for all programs   *)
(* that leave the stack in the data memory to the hardware, however deep   *)
(* their calls are nested. The cells of the stack are counted from its     *)
(* top, downwards and around the page: the return address frames[i] has    *)
(* its lower byte in cell 2i - 1 and its upper byte in cell 2i.            *)
(***************************************************************************)
EXTENDS NoobsCallStack, NoobsRtl_proofs, SequenceTheorems

\* The page that CR selects, and its cells below a stack pointer.
PageOf(c) == (c \div 4) % 8

Cell(page, top, k) == page * 256 + ((top + 256 - k) % 256)

\* The stack pointer after pushes, and what of an address is pushed first.
Above(top, n) == (top + n) % 256
Upper(a) == a \div 256

\* The memory holds the return addresses s, from the first cell on; from the
\* second one in the cycle between the two pushes.
Held(mem, page, top, s, first) ==
  \A i \in 1..Len(s) :
    /\ Read(mem, Cell(page, top, 2 * i)) = s[i] \div 256
    /\ i # 1 \/ first = 1 => Read(mem, Cell(page, top, 2 * i - 1)) = s[i] % 256

\* The return address a has come in front of s, as far as there is room.
Added(a, s, t) ==
  /\ t \in Seq(PcSpace) /\ Len(t) \in 1..ROOM /\ t[1] = a
  /\ \A i \in 2..Len(t) : i - 1 \in 1..Len(s) /\ t[i] = s[i - 1]

\* The program's part: no STORE writes a cell that is in use, and none changes
\* the page under a call that has still to return.
StackKept ==
  Retiring({"ST"}) =>
    /\ m_wr => \A k \in 1..(2 * Len(frames)) : m_addr # Cell(PageOf(cr), sp_lsb, k)
    /\ ex.addr = 4 /\ frames # <<>> => PageOf(m_wr_data) = PageOf(cr)

\* The stack pointer above the newest frame: of a call, one byte is still to be
\* pushed; of a return, one or both have been popped.
Top ==
  (sp_lsb + (IF store_lower \/ restore_upper THEN 1 ELSE IF ret_addr_en THEN 2 ELSE 0)) % 256

\* A call that is being decoded has the address behind it latched.
CallLatched ==
  ex.ctrl = "CALL" => ret_addr0 = PC % 256 /\ ret_addr1 = PC \div 256

\* The bytes that are on their way to the memory or back, as long as no pair
\* wraps around the page.
OnTheWay ==
  frames # <<>> =>
    /\ store_lower => ret_addr0 = frames[1] % 256
    /\ restore_upper /\ sp_lsb < 255 => ret_addr0 = frames[1] % 256
    /\ ret_addr_en /\ sp_lsb < 254 =>
         ret_addr0 = frames[1] % 256 /\ ret_addr1 = frames[1] \div 256

StackHeld ==
  OnTheWay /\ Held(data_mem, PageOf(cr), Top, frames, IF store_lower THEN 2 ELSE 1)

StackInv ==
  /\ frames \in Seq(PcSpace) /\ Len(frames) <= ROOM
  /\ Returns
  /\ halted => ~ret_addr_en /\ ~restore_upper
  /\ ~halted =>
       /\ ret_addr_en => ex1.ctrl \notin AddressKinds
       /\ CallLatched /\ StackHeld

-----------------------------------------------------------------------------
(* The cells of a page.                                                    *)

\* The pages are those of CR's bits 4:2; the control instructions change none.
LEMMA PageFacts ==
  ASSUME NEW c \in BYTE
  PROVE  /\ PageOf(c) \in 0..7
         /\ \A sp : StackAddr(c, sp) = PageOf(c) * 256 + sp
         /\ \A kind : PageOf(CrAfter(kind, c)) = PageOf(c)
<1>1. PageOf(c) \in 0..7
  BY DEF PageOf, BYTE
<1>2. \A sp : StackAddr(c, sp) = PageOf(c) * 256 + sp
  BY DEF PageOf, StackAddr
<1>3. ASSUME NEW b \in BYTE, NEW w \in {1, 2, 32}
      PROVE  /\ SetBit(b, w) \in BYTE /\ ClearBit(b, w) \in BYTE
             /\ PageOf(SetBit(b, w)) = PageOf(b) /\ PageOf(ClearBit(b, w)) = PageOf(b)
  <2>1. ASSUME w \in {1, 2} PROVE SetBit(b, w) \div 4 = b \div 4 /\ ClearBit(b, w) \div 4 = b \div 4
    <3>1. PICK q \in 0..63, r \in {0, 1, 2, 3} : b = 4 * q + r
      <4>1. b \div 4 \in 0..63 /\ b % 4 \in {0, 1, 2, 3} /\ b = 4 * (b \div 4) + (b % 4)
        BY DEF BYTE
      <4> QED
        BY <4>1
    <3>2. Bit(b, 1) = r % 2 /\ Bit(b, 2) = r \div 2
      BY <3>1 DEF Bit
    <3>3. \A n \in {0, 1, 2, 3} : (4 * q + n) \div 4 = q
      BY <3>1
    <3> QED
      BY <2>1, <3>1, <3>2, <3>3 DEF SetBit, ClearBit
  <2>2. ASSUME w = 32
        PROVE  /\ (SetBit(b, w) \div 4) % 8 = (b \div 4) % 8
               /\ (ClearBit(b, w) \div 4) % 8 = (b \div 4) % 8
    <3>1. PICK q \in 0..7, r \in 0..31 : b = 32 * q + r
      <4>1. b \div 32 \in 0..7 /\ b % 32 \in 0..31 /\ b = 32 * (b \div 32) + (b % 32)
        BY DEF BYTE
      <4> QED
        BY <4>1
    <3>2. Bit(b, 32) = q % 2
      BY <3>1 DEF Bit
    <3>3. \A n \in 0..8 : ((32 * n + r) \div 4) % 8 = r \div 4
      BY <3>1
    <3>4. /\ b + 32 = 32 * (q + 1) + r /\ q + 1 \in 0..8
          /\ q # 0 => b - 32 = 32 * (q - 1) + r /\ q - 1 \in 0..8
      BY <3>1
    <3> QED
      BY <2>2, <3>1, <3>2, <3>3, <3>4 DEF SetBit, ClearBit
  <2>3. SetBit(b, w) \in BYTE /\ ClearBit(b, w) \in BYTE
    BY DEF SetBit, ClearBit, Bit, BYTE
  <2> QED
    BY <2>1, <2>2, <2>3 DEF PageOf
<1>4. \A kind : PageOf(CrAfter(kind, c)) = PageOf(c)
  <2> SUFFICES ASSUME NEW kind PROVE PageOf(CrAfter(kind, c)) = PageOf(c)
    OBVIOUS
  <2>1. /\ PageOf(SetBit(c, CR_BCZ)) = PageOf(c) /\ PageOf(SetBit(c, CR_BCNZ)) = PageOf(c)
        /\ PageOf(SetBit(c, CR_ADR_MODE)) = PageOf(c)
        /\ PageOf(ClearBit(c, CR_ADR_MODE)) = PageOf(c)
        /\ PageOf(ClearBit(ClearBit(c, CR_BCZ), CR_BCNZ)) = PageOf(c)
    BY <1>3 DEF CR_BCZ, CR_BCNZ, CR_ADR_MODE
  <2> QED
    BY <2>1 DEF CrAfter
<1> QED
  BY <1>1, <1>2, <1>4

\* An 8-bit counter after one overflow at most.
LEMMA Wraps ==
  ASSUME NEW n \in 0..511
  PROVE  /\ n < 256 => n % 256 = n
         /\ ~(n < 256) => n % 256 = n - 256
OBVIOUS

\* No cell of the page is another one.
LEMMA CellsDiffer ==
  ASSUME NEW page \in 0..7, NEW top \in BYTE, NEW j \in 1..256, NEW k \in 1..256, j # k
  PROVE  Cell(page, top, j) # Cell(page, top, k)
<1>1. PICK a \in 0..511 : a = top + 256 - j
  BY DEF BYTE
<1>2. PICK b \in 0..511 : b = top + 256 - k
  BY DEF BYTE
<1>3. a # b /\ a - b < 256 /\ b - a < 256
  BY <1>1, <1>2 DEF BYTE
<1>4. /\ a < 256 => a % 256 = a
      /\ ~(a < 256) => a % 256 = a - 256
  BY <1>1, Wraps, Zenon
<1>5. /\ b < 256 => b % 256 = b
      /\ ~(b < 256) => b % 256 = b - 256
  BY <1>2, Wraps, Zenon
<1>6. PICK u, v : u = a % 256 /\ v = b % 256
  OBVIOUS
<1>7. u \in 0..255 /\ v \in 0..255 /\ u # v
  <2>1. (a < 256 => u = a) /\ (~(a < 256) => u = a - 256)
    BY <1>4, <1>6
  <2>2. (b < 256 => v = b) /\ (~(b < 256) => v = b - 256)
    BY <1>5, <1>6
  <2> QED
    BY <1>1, <1>2, <1>3, <2>1, <2>2
<1> QED
  BY <1>1, <1>2, <1>6, <1>7 DEF Cell

\* The two cells that a call writes are none of the older ones.
LEMMA CellsAbove ==
  ASSUME NEW page \in 0..7, NEW top \in BYTE
  PROVE  /\ \A k \in 3..256 : Cell(page, top, k) # Cell(page, top, 2)
         /\ \A k \in 2..256 : Cell(page, top, k) # Cell(page, top, 1)
<1>1. ASSUME NEW k \in 3..256 PROVE Cell(page, top, k) # Cell(page, top, 2)
  <2>1. k \in 1..256 /\ 2 \in 1..256 /\ k # 2
    OBVIOUS
  <2> QED
    BY <2>1, CellsDiffer, Zenon
<1>2. ASSUME NEW k \in 2..256 PROVE Cell(page, top, k) # Cell(page, top, 1)
  <2>1. k \in 1..256 /\ 1 \in 1..256 /\ k # 1
    OBVIOUS
  <2> QED
    BY <2>1, CellsDiffer, Zenon
<1> QED
  BY <1>1, <1>2, Zenon

\* Two more bytes move every cell two down.
LEMMA CellsMove ==
  ASSUME NEW page \in 0..7, NEW top \in BYTE, NEW k \in 1..254
  PROVE  Cell(page, Above(top, 2), k + 2) = Cell(page, top, k)
<1>1. CASE top < 254
  <2>1. (top + 2) % 256 = top + 2
    BY <1>1 DEF BYTE
  <2>2. top + 2 + 256 - (k + 2) = top + 256 - k
    BY DEF BYTE
  <2> QED
    BY <2>1, <2>2 DEF Cell, Above
<1>2. CASE ~(top < 254)
  <2>1. PICK new \in {0, 1} : top = new + 254 /\ (top + 2) % 256 = new
    <3>1. top \in {254, 255}
      BY <1>2 DEF BYTE
    <3> QED
      BY <3>1
  <2>2. PICK n \in 0..255 : n = new + 256 - (k + 2)
    BY <2>1
  <2>3. top + 256 - k = n + 256
    BY <2>1, <2>2
  <2>4. n % 256 = n /\ (n + 256) % 256 = n
    BY <2>2
  <2> QED
    BY <2>1, <2>2, <2>3, <2>4 DEF Cell, Above
<1> QED
  BY <1>1, <1>2

\* The cell at a stack pointer is the one below the next.
LEMMA CellsAtTop ==
  ASSUME NEW page \in 0..7, NEW top \in BYTE
  PROVE  /\ Cell(page, (top + 1) % 256, 1) = page * 256 + top
         /\ Cell(page, (top + 2) % 256, 2) = page * 256 + top
BY DEF Cell, BYTE

\* What a pop reads, unless it leaves the page.
LEMMA CellBelow ==
  ASSUME NEW page \in 0..7, NEW sp \in 0..254
  PROVE  /\ (page * 256 + (sp + 1) + 4095) % 4096 = Cell(page, (sp + 1) % 256, 1)
         /\ (page * 256 + (sp + 1) + 4095) % 4096 = Cell(page, (sp + 2) % 256, 2)
<1>1. (page * 256 + (sp + 1) + 4095) % 4096 = page * 256 + sp
  OBVIOUS
<1> QED
  BY <1>1, CellsAtTop DEF BYTE

-----------------------------------------------------------------------------
(* What a push and a pop do to the frames that are held.                   *)

\* What a write leaves in the other cells.
LEMMA ReadWrite ==
  ASSUME NEW mem, NEW a, NEW v
  PROVE  /\ Read(Write(mem, a, v), a) = v
         /\ \A b : b # a => Read(Write(mem, a, v), b) = Read(mem, b)
BY DEF Read, Write

\* The first elements of a sequence.
LEMMA Prefix ==
  ASSUME NEW S, NEW u \in Seq(S), NEW n \in Nat, Len(u) = n, NEW m \in 1..n
  PROVE  /\ SubSeq(u, 1, m) \in Seq(S) /\ Len(SubSeq(u, 1, m)) = m
         /\ \A i \in 1..m : SubSeq(u, 1, m)[i] = u[i]
<1>1. 1 \in Int /\ m \in Int /\ 1 <= m /\ m - 1 + 1 = m
  OBVIOUS
<1>2. \A i \in 1..m : i \in 1..n /\ 1 + i - 1 = i
  OBVIOUS
<1>3. \A i \in 1..n : u[i] \in S
  BY ElementOfSeq
<1>4. \A i \in 1..m : u[i] \in S
  BY <1>2, <1>3
<1>5. SubSeq(u, 1, m) \in Seq(S)
  BY <1>1, <1>4, SubSeqProperties, Zenon
<1>6. Len(SubSeq(u, 1, m)) = IF 1 <= m THEN m - 1 + 1 ELSE 0
  BY <1>1, <1>4, SubSeqProperties, Zenon
<1>7. \A i \in 1..(m - 1 + 1) : SubSeq(u, 1, m)[i] = u[1 + i - 1]
  BY <1>1, <1>4, SubSeqProperties
<1> QED
  BY <1>1, <1>2, <1>5, <1>6, <1>7

\* A frame more, and those that the page has no room for no longer.
LEMMA FrameInFront ==
  ASSUME NEW S, NEW s \in Seq(S), NEW a \in S, NEW n \in Nat, n = Len(s)
  PROVE  /\ <<a>> \o s \in Seq(S) /\ Len(<<a>> \o s) = 1 + n
         /\ (<<a>> \o s)[1] = a
         /\ \A i \in 2..(1 + n) : (<<a>> \o s)[i] = s[i - 1]
<1>1. <<a>> \in Seq(S) /\ Len(<<a>>) = 1 /\ <<a>>[1] = a
  OBVIOUS
<1>2. \A i \in 1..(1 + n) : (<<a>> \o s)[i] = IF i <= 1 THEN <<a>>[i] ELSE s[i - 1]
  BY <1>1, ConcatProperties
<1> QED
  BY <1>1, <1>2, ConcatProperties

\* Counting frames up to the room there is.
LEMMA UpToRoom ==
  ASSUME NEW n \in Nat
  PROVE  /\ 1 + n <= ROOM => 1 + n \in 1..ROOM /\ ~(1 + n > ROOM)
         /\ ~(1 + n <= ROOM) => 1 + n > ROOM /\ ROOM \in 1..(1 + n)
         /\ ~(1 + n <= ROOM) => \A i \in 2..ROOM : i \in 2..(1 + n)
         /\ 1 \in 1..ROOM /\ ROOM \in 1..ROOM /\ \A i \in 2..ROOM : i \in 1..ROOM
         /\ \A i \in 2..(1 + n) : i - 1 \in 1..n
         /\ 1 + n \in Nat
BY DEF ROOM

\* What is kept are the newest frames.
LEMMA NewestFrames ==
  ASSUME NEW S, NEW v \in Seq(S), NEW n \in Nat, Len(v) = 1 + n
  PROVE  /\ Newest(v) \in Seq(S) /\ Len(Newest(v)) \in 1..ROOM
         /\ Newest(v)[1] = v[1]
         /\ \A i \in 2..Len(Newest(v)) : i \in 2..(1 + n) /\ Newest(v)[i] = v[i]
<1>1. CASE 1 + n <= ROOM
  <2>1. Newest(v) = v
    BY <1>1, UpToRoom DEF Newest
  <2> QED
    BY <1>1, <2>1, UpToRoom
<1>2. CASE ~(1 + n <= ROOM)
  <2>1. Newest(v) = SubSeq(v, 1, ROOM)
    BY <1>2, UpToRoom DEF Newest
  <2>2. ROOM \in 1..(1 + n) /\ 1 + n \in Nat
    BY <1>2, UpToRoom
  <2>3. /\ SubSeq(v, 1, ROOM) \in Seq(S) /\ Len(SubSeq(v, 1, ROOM)) = ROOM
        /\ \A i \in 1..ROOM : SubSeq(v, 1, ROOM)[i] = v[i]
    BY <2>2, Prefix, Zenon
  <2> QED
    BY <1>2, <2>1, <2>3, UpToRoom
<1> QED
  BY <1>1, <1>2

\* A call adds the address behind it.
LEMMA FrameAdded ==
  ASSUME NEW s \in Seq(PcSpace), NEW a \in PcSpace
  PROVE  Added(a, s, Newest(<<a>> \o s))
<1>1. PICK n \in Nat : n = Len(s)
  BY LenProperties
<1> PICK u : u = <<a>> \o s
  OBVIOUS
<1>2. /\ u \in Seq(PcSpace) /\ Len(u) = 1 + n /\ u[1] = a
      /\ \A i \in 2..(1 + n) : u[i] = s[i - 1]
  BY <1>1, FrameInFront
<1>3. /\ Newest(u) \in Seq(PcSpace) /\ Len(Newest(u)) \in 1..ROOM
      /\ Newest(u)[1] = u[1]
      /\ \A i \in 2..Len(Newest(u)) : i \in 2..(1 + n) /\ Newest(u)[i] = u[i]
  BY <1>2, NewestFrames
<1>4. \A i \in 2..(1 + n) : i - 1 \in 1..n
  OBVIOUS
<1> QED
  BY <1>1, <1>2, <1>3, <1>4 DEF Added

\* The upper byte is pushed first. The frame in the two cells that a push into
\* a full page goes to is forgotten.
LEMMA UpperPushed ==
  ASSUME NEW mem, NEW page \in 0..7, NEW top \in BYTE,
         NEW s \in Seq(PcSpace), Held(mem, page, top, s, 1),
         NEW a, NEW t, Added(a, s, t)
  PROVE  Held(Write(mem, Cell(page, Above(top, 2), 2), Upper(a)), page, Above(top, 2), t, 2)
<1>1. Len(t) \in 1..ROOM /\ t[1] = a
  BY DEF Added
<1>2. \A i \in 2..Len(t) : i - 1 \in 1..Len(s) /\ t[i] = s[i - 1]
  BY DEF Added
<1>3. PICK new \in BYTE : new = Above(top, 2) /\ new = (top + 2) % 256
  BY DEF BYTE, Above
<1>4. PICK m : m = Write(mem, Cell(page, new, 2), Upper(a))
  OBVIOUS
<1>5. ASSUME NEW k \in 3..256
      PROVE  Read(m, Cell(page, new, k)) = Read(mem, Cell(page, top, k - 2))
  <2>1. Cell(page, new, k) # Cell(page, new, 2)
    BY CellsAbove
  <2>2. PICK j \in 1..254 : j = k - 2 /\ k = j + 2
    <3>1. k - 2 \in 1..254 /\ k = k - 2 + 2
      OBVIOUS
    <3> QED
      BY <3>1, Zenon
  <2>3. Cell(page, new, j + 2) = Cell(page, top, j)
    <3>1. Cell(page, Above(top, 2), j + 2) = Cell(page, top, j)
      BY CellsMove
    <3> QED
      BY <1>3, <3>1
  <2>4. Read(m, Cell(page, new, k)) = Read(mem, Cell(page, new, k))
    BY <1>4, <2>1, ReadWrite
  <2> QED
    BY <2>2, <2>3, <2>4
<1>6. Read(m, Cell(page, new, 2)) = a \div 256
  BY <1>4, ReadWrite DEF Upper
<1>7. ASSUME NEW i \in 1..Len(t)
      PROVE  /\ Read(m, Cell(page, new, 2 * i)) = t[i] \div 256
             /\ i # 1 => Read(m, Cell(page, new, 2 * i - 1)) = t[i] % 256
  <2>1. CASE i = 1
    BY <1>1, <1>6, <2>1
  <2>2. CASE i # 1
    <3>1. i \in 2..Len(t) /\ i \in 2..128
      <4>1. PICK n \in 1..ROOM : n = Len(t)
        BY <1>1, Zenon
      <4>2. i \in 1..n
        BY <4>1, Zenon
      <4>3. i \in 2..n /\ i \in 2..128
        BY <2>2, <4>2 DEF ROOM
      <4> QED
        BY <4>1, <4>3, Zenon
    <3>2. /\ 2 * i \in 3..256 /\ 2 * i - 1 \in 3..256
          /\ 2 * i - 2 = 2 * (i - 1) /\ 2 * i - 1 - 2 = 2 * (i - 1) - 1
      BY <3>1
    <3>3. i - 1 \in 1..Len(s) /\ t[i] = s[i - 1]
      BY <1>2, <3>1, Zenon
    <3>4. /\ Read(mem, Cell(page, top, 2 * (i - 1))) = s[i - 1] \div 256
          /\ Read(mem, Cell(page, top, 2 * (i - 1) - 1)) = s[i - 1] % 256
      BY <3>3, Zenon DEF Held
    <3>5. /\ Read(m, Cell(page, new, 2 * i)) = Read(mem, Cell(page, top, 2 * i - 2))
          /\ Read(m, Cell(page, new, 2 * i - 1)) = Read(mem, Cell(page, top, 2 * i - 1 - 2))
      BY <1>5, <3>2, Zenon
    <3> QED
      BY <3>2, <3>3, <3>4, <3>5
  <2> QED
    BY <2>1, <2>2
<1>8. Held(m, page, new, t, 2)
  BY <1>7 DEF Held
<1> QED
  BY <1>3, <1>4, <1>8

\* Then the lower one.
LEMMA LowerPushed ==
  ASSUME NEW mem, NEW page \in 0..7, NEW top \in BYTE,
         NEW s \in Seq(PcSpace), Len(s) <= ROOM, Held(mem, page, top, s, 2),
         NEW v, s # <<>> => v = s[1] % 256
  PROVE  Held(Write(mem, Cell(page, top, 1), v), page, top, s, 1)
<1>1. PICK m : m = Write(mem, Cell(page, top, 1), v)
  OBVIOUS
<1>2. Len(s) \in Nat
  BY LenProperties
<1>3. ASSUME NEW k \in 2..256
      PROVE  Read(m, Cell(page, top, k)) = Read(mem, Cell(page, top, k))
  <2>1. Cell(page, top, k) # Cell(page, top, 1)
    BY CellsAbove
  <2> QED
    BY <1>1, <2>1, ReadWrite
<1>4. Read(m, Cell(page, top, 1)) = v
  BY <1>1, ReadWrite
<1>5. ASSUME NEW i \in 1..Len(s)
      PROVE  /\ Read(m, Cell(page, top, 2 * i)) = s[i] \div 256
             /\ Read(m, Cell(page, top, 2 * i - 1)) = s[i] % 256
  <2>1. 2 * i \in 2..256 /\ (i # 1 => 2 * i - 1 \in 2..256) /\ s # <<>>
    <3>1. i \in 1..128
      BY <1>2 DEF ROOM
    <3>2. s # <<>>
      BY <1>2, EmptySeq
    <3> QED
      BY <3>1, <3>2
  <2>2. /\ Read(mem, Cell(page, top, 2 * i)) = s[i] \div 256
        /\ i # 1 => Read(mem, Cell(page, top, 2 * i - 1)) = s[i] % 256
    BY Zenon DEF Held
  <2>3. Read(m, Cell(page, top, 2 * i)) = s[i] \div 256
    BY <1>3, <2>1, <2>2, Zenon
  <2>4. CASE i = 1
    <3>1. 2 * i - 1 = 1
      BY <2>4
    <3> QED
      BY <1>4, <2>1, <2>3, <2>4, <3>1, Zenon
  <2>5. CASE i # 1
    BY <1>3, <2>1, <2>2, <2>3, <2>5, Zenon
  <2> QED
    BY <2>4, <2>5
<1>6. Held(m, page, top, s, 1)
  BY <1>5, Zenon DEF Held
<1> QED
  BY <1>1, <1>6, Zenon

\* With its two bytes the newest frame is given up.
LEMMA FramePopped ==
  ASSUME NEW mem, NEW page \in 0..7, NEW top \in BYTE,
         NEW s \in Seq(PcSpace), Len(s) <= ROOM, s # <<>>,
         Held(mem, page, Above(top, 2), s, 1)
  PROVE  Held(mem, page, top, Tail(s), 1)
<1> DEFINE t == Tail(s)
<1>1. Len(s) \in Nat /\ Len(t) = Len(s) - 1 /\ \A i \in 1..Len(t) : t[i] = s[i + 1]
  BY LenProperties, HeadTailProperties
<1> HIDE DEF t
<1>2. ASSUME NEW i \in 1..Len(t)
      PROVE  /\ Read(mem, Cell(page, top, 2 * i)) = t[i] \div 256
             /\ Read(mem, Cell(page, top, 2 * i - 1)) = t[i] % 256
  <2>1. /\ i + 1 \in 1..Len(s)
        /\ 2 * i \in 1..254 /\ 2 * i - 1 \in 1..254
        /\ 2 * (i + 1) = 2 * i + 2 /\ 2 * (i + 1) - 1 = 2 * i - 1 + 2
    BY <1>1 DEF ROOM
  <2>2. /\ Read(mem, Cell(page, Above(top, 2), 2 * (i + 1))) = s[i + 1] \div 256
        /\ Read(mem, Cell(page, Above(top, 2), 2 * (i + 1) - 1)) = s[i + 1] % 256
    BY <2>1, Zenon DEF Held
  <2>3. /\ Cell(page, Above(top, 2), 2 * i + 2) = Cell(page, top, 2 * i)
        /\ Cell(page, Above(top, 2), 2 * i - 1 + 2) = Cell(page, top, 2 * i - 1)
    <3>1. PICK x \in 1..254, y \in 1..254 : x = 2 * i /\ y = 2 * i - 1
      BY <2>1, Zenon
    <3>2. /\ Cell(page, Above(top, 2), x + 2) = Cell(page, top, x)
          /\ Cell(page, Above(top, 2), y + 2) = Cell(page, top, y)
      BY CellsMove
    <3> QED
      BY <3>1, <3>2, Zenon
  <2> QED
    BY <1>1, <2>1, <2>2, <2>3
<1> QED
  BY <1>2, Zenon DEF Held, t

\* A write beside the stack.
LEMMA HeldBeside ==
  ASSUME NEW mem, NEW page \in 0..7, NEW top \in BYTE,
         NEW s \in Seq(PcSpace), Held(mem, page, top, s, 1),
         NEW a, NEW v, \A k \in 1..(2 * Len(s)) : a # Cell(page, top, k)
  PROVE  Held(Write(mem, a, v), page, top, s, 1)
<1>1. Len(s) \in Nat
  BY LenProperties
<1>2. ASSUME NEW i \in 1..Len(s)
      PROVE  /\ Read(Write(mem, a, v), Cell(page, top, 2 * i)) = s[i] \div 256
             /\ Read(Write(mem, a, v), Cell(page, top, 2 * i - 1)) = s[i] % 256
  <2>1. 2 * i \in 1..(2 * Len(s)) /\ 2 * i - 1 \in 1..(2 * Len(s))
    BY <1>1
  <2>2. /\ Read(mem, Cell(page, top, 2 * i)) = s[i] \div 256
        /\ Read(mem, Cell(page, top, 2 * i - 1)) = s[i] % 256
    BY Zenon DEF Held
  <2> QED
    BY <2>1, <2>2, ReadWrite
<1> QED
  BY <1>2, Zenon DEF Held

\* The cells of the newest frame, and of none.
LEMMA NewestHeld ==
  ASSUME NEW mem, NEW page, NEW top, NEW s \in Seq(PcSpace), s # <<>>,
         Held(mem, page, top, s, 1)
  PROVE  /\ Read(mem, Cell(page, top, 1)) = s[1] % 256
         /\ Read(mem, Cell(page, top, 2)) = s[1] \div 256
<1>1. PICK n \in Nat : n = Len(s)
  BY LenProperties
<1>2. n # 0
  BY <1>1, EmptySeq
<1>3. 1 \in 1..Len(s)
  BY <1>1, <1>2
<1>4. 2 * 1 = 2 /\ 2 * 1 - 1 = 1
  OBVIOUS
<1> QED
  BY <1>3, <1>4 DEF Held

\* The memory need not hold anything of no frames.
LEMMA NothingHeld ==
  ASSUME NEW mem, NEW page, NEW top, NEW s, s = <<>>
  PROVE  Held(mem, page, top, s, 1)
<1>1. Len(s) = 0
  OBVIOUS
<1>2. 1..Len(s) = {}
  BY <1>1
<1> QED
  BY <1>2, Zenon DEF Held

-----------------------------------------------------------------------------
(* Calls and returns in the pipeline.                                      *)

\* At most one of the five cycles that a call or a return keeps the stack busy
\* for is under way; then no STORE retires.
LEMMA OnePhase ==
  ASSUME IInv, StackInv, ~halted
  PROVE  /\ ex.ctrl \in AddressKinds => imm_mode /\ idecode_en /\ NoReturn /\ ex.en
         /\ restore_lower <=> PopsLower
         /\ restore_upper <=> PopsUpper
         /\ ret_addr_en <=> Redirects
         /\ store_upper => ~store_lower /\ Calling
         /\ store_upper \/ store_lower =>
              ~restore_lower /\ ~restore_upper /\ ~ret_addr_en
         /\ store_upper \/ store_lower \/ restore_lower \/ restore_upper \/ ret_addr_en =>
              ~Retiring({"ST"})
         /\ store_upper \/ store_lower => ~Retiring({"LD"})
         /\ Calling => store_upper
<1>1. ex.ctrl \in AddressKinds => imm_mode /\ idecode_en /\ NoReturn /\ ex.en
  BY DEF StackInv, Returns, IInv, BusProtocol, BetweenBytes
<1>2. Returns /\ ReturnStages
  BY DEF StackInv, Returns
<1>3. /\ restore_lower <=> PopsLower
      /\ restore_upper <=> PopsUpper
      /\ ret_addr_en <=> Redirects
  BY <1>2 DEF ReturnStages, restore_lower, restore_upper, Retiring, execute_en, NoReturn,
     PopsLower, PopsUpper, Redirects, Masked
<1>4. /\ store_upper <=> ex.ctrl = "CALL"
      /\ store_lower <=> ex1.ctrl = "CALL"
      /\ ex1.en /\ ex1.ctrl \in AddressKinds => ex.ctrl = "EXEC_NOP"
      /\ ex1.ctrl = "CALL" => ex.ctrl = "EXEC_NOP"
  BY DEF IInv, BusProtocol
<1>5. ret_addr_en => ex1.ctrl \notin AddressKinds
  BY DEF StackInv
<1>6. restore_lower => ex.ctrl = "RET"
  BY DEF restore_lower
<1>7. restore_upper => ex1.ctrl = "RET"
  BY DEF restore_upper, Retiring
<1>8. store_upper => ~restore_upper /\ ~ret_addr_en
  BY <1>1, <1>3, <1>4 DEF AddressKinds, NoReturn, PopsUpper, Redirects
<1> QED
  BY <1>1, <1>3, <1>4, <1>5, <1>6, <1>7, <1>8 DEF AddressKinds, Calling, execute_en, Retiring

\* What follows on each of them.
LEMMA NextPhase ==
  ASSUME IInv, StackInv, Next, ~halted
  PROVE  /\ store_lower' <=> store_upper
         /\ ~halted' => (restore_upper' <=> restore_lower)
         /\ ret_addr_en' <=> restore_upper
         /\ ret_addr_en' => ex1'.ctrl \notin AddressKinds
         /\ latch_ret_addr => ~store_upper /\ ~restore_lower /\ ~restore_upper /\ ~ret_addr_en
<1>1. /\ store_lower' = store_upper /\ ret_addr_en' = restore_upper
      /\ ex1'.en = execute_en /\ ex1'.ctrl = ex.ctrl
  BY DEF Next, Execute
<1>2. restore_upper' <=> restore_lower
  BY <1>1 DEF restore_upper, restore_lower, Retiring
<1>3. restore_upper => ex.ctrl \notin AddressKinds
  BY OnePhase DEF NoReturn, PopsUpper
<1>4. imm_mode => exec_ctrl_next = "EXEC_NOP"
  BY DEF exec_ctrl_next, IInv, BetweenBytes
<1>5. store_upper => ~latch_ret_addr
  <2>1. store_upper => ex.ctrl = "CALL"
    BY DEF IInv, BusProtocol
  <2> QED
    BY <1>4, <2>1, OnePhase DEF latch_ret_addr, AddressKinds
<1>6. ~NoReturn => ~latch_ret_addr
  <2> SUFFICES ASSUME ~NoReturn PROVE exec_ctrl_next # "CALL"
    BY DEF latch_ret_addr
  <2>1. ~imm_mode /\ Kind(curr_inst) = "NOP"
    BY WhileReturning DEF StackInv
  <2>2. ex.ctrl # "CALL"
    BY <2>1 DEF IInv, BusProtocol, AddressKinds
  <2> QED
    BY <2>1, <2>2 DEF exec_ctrl_next, AluOps
<1> QED
  BY <1>1, <1>2, <1>3, <1>5, <1>6, OnePhase DEF NoReturn, PopsLower, PopsUpper, Redirects

\* The page stays as long as no STORE to CR changes it.
LEMMA NextPage ==
  ASSUME IInv, Next, cr_update_en => PageOf(m_wr_data) = PageOf(cr)
  PROVE  PageOf(cr') = PageOf(cr) /\ PageOf(cr) \in 0..7
<1>1. cr \in BYTE /\ cr_base \in BYTE
  BY StatusType DEF IInv, TypeOK
<1>2. PageOf(cr_base) = PageOf(cr)
  BY DEF cr_base
<1>3. cr' = IF FirstByte(CrOps) THEN CrAfter(Kind(curr_inst), cr_base) ELSE cr_base
  BY DEF Next, Idecode
<1>4. PageOf(CrAfter(Kind(curr_inst), cr_base)) = PageOf(cr_base) /\ PageOf(cr) \in 0..7
  BY <1>1, PageFacts
<1> QED
  BY <1>2, <1>3, <1>4

\* A call that is decoded latches the address behind its two bytes.
LEMMA NextLatched ==
  ASSUME IInv, Returns, Next, ~halted, ~halted'
  PROVE  CallLatched'
<1> SUFFICES ASSUME ex'.ctrl = "CALL"
             PROVE  ret_addr0' = PC' % 256 /\ ret_addr1' = PC' \div 256
  BY DEF CallLatched
<1>1. latch_ret_addr
  BY DecodeType DEF Next, IInv, latch_ret_addr
<1>2. imm_mode => idecode_en
  BY DEF IInv, BetweenBytes
<1>3. ex.ctrl = "CALL" => imm_mode
  BY DEF IInv, BusProtocol, AddressKinds
<1>4. ~imm_mode /\ idecode_en /\ Kind(curr_inst) = "CALL"
  BY <1>1, <1>2, <1>3 DEF latch_ret_addr, exec_ctrl_next, AluOps
<1>5. NoReturn
  BY <1>4, WhileReturning
<1>6. ~pc_branch /\ ifetch_en
  BY <1>4, <1>5 DEF pc_branch, ifetch_en, restore_ongoing, NoReturn, IInv, BusProtocol,
     AddressKinds, FetchGoesOn
<1>7. PC' = next_addr
  BY <1>5, <1>6 DEF Next, Ifetch, NoReturn
<1> QED
  BY <1>1, <1>7 DEF Next, Execute

\* The program's meaning of a cycle.
LEMMA FramesStep ==
  ASSUME StackNext
  PROVE  /\ StackMoved => frames' = <<>>
         /\ ~StackMoved /\ Calling => frames' = Newest(<<PC>> \o frames)
         /\ ~StackMoved /\ ~Calling /\ Resuming =>
              frames' = IF frames # <<>> THEN Tail(frames) ELSE frames
         /\ ~StackMoved /\ ~Calling /\ ~Resuming => frames' = frames
BY DEF StackNext

\* What the stack is like in a cycle without any of the five.
LEMMA Facts ==
  ASSUME IInv, StackInv, StackNext, ~halted
  PROVE  /\ Next /\ PC \in PcSpace /\ sp_lsb \in BYTE /\ PageOf(cr) \in 0..7
         /\ StackAddr(cr, sp_lsb) = PageOf(cr) * 256 + sp_lsb
         /\ sp_lsb' = sp_next
         /\ data_mem' = IF m_wr THEN Write(data_mem, m_addr, m_wr_data) ELSE data_mem
         /\ frames \in Seq(PcSpace) /\ Len(frames) <= ROOM
<1>1. PC \in PcSpace /\ sp_lsb \in BYTE /\ cr \in BYTE
  BY DEF IInv, TypeOK, PcSpace
<1>2. PageOf(cr) \in 0..7 /\ StackAddr(cr, sp_lsb) = PageOf(cr) * 256 + sp_lsb
  BY <1>1, PageFacts
<1>3. frames \in Seq(PcSpace) /\ Len(frames) <= ROOM
  BY DEF StackInv
<1> QED
  BY <1>1, <1>2, <1>3 DEF StackNext, Next, Execute, Memories

\* How the stack pointer moves.
LEMMA PointerMoves ==
  /\ (store_upper \/ store_lower) /\ ~restore_lower /\ ~restore_upper /\ ~Retiring({"ST"}) =>
       sp_next = (sp_lsb + 1) % 256
  /\ ~store_upper /\ ~store_lower /\ (restore_lower \/ restore_upper) /\ ~Retiring({"ST"}) =>
       sp_next = (sp_lsb + 255) % 256
  /\ ~store_upper /\ ~store_lower /\ ~restore_lower /\ ~restore_upper /\ ~StackMoved =>
       sp_next = sp_lsb
BY DEF sp_next, StackMoved

\* The upper byte is pushed.
LEMMA UpperStep ==
  ASSUME IInv, StackInv, StackNext, ~halted, ~halted', store_upper
  PROVE  StackHeld'
<1>1. /\ Calling /\ ex.ctrl = "CALL"
      /\ ~store_lower /\ ~restore_lower /\ ~restore_upper /\ ~ret_addr_en
      /\ ~Retiring({"ST"}) /\ ~Retiring({"LD"})
  BY OnePhase DEF IInv, BusProtocol
<1>2. store_lower' /\ ~restore_upper' /\ ~ret_addr_en' /\ ~latch_ret_addr
  BY <1>1, NextPhase DEF StackNext
<1>3. /\ PC \in PcSpace /\ sp_lsb \in BYTE /\ PageOf(cr) \in 0..7
      /\ StackAddr(cr, sp_lsb) = PageOf(cr) * 256 + sp_lsb
      /\ sp_lsb' = sp_next
      /\ data_mem' = IF m_wr THEN Write(data_mem, m_addr, m_wr_data) ELSE data_mem
      /\ frames \in Seq(PcSpace) /\ Len(frames) <= ROOM
  BY Facts
<1>4. ret_addr0 = PC % 256 /\ ret_addr1 = PC \div 256
  BY <1>1 DEF StackInv, CallLatched
<1>5. data_mem' = Write(data_mem, PageOf(cr) * 256 + sp_lsb, PC \div 256)
  BY <1>1, <1>3, <1>4 DEF m_wr, mapped_access, m_addr, stack_addr, m_wr_data
<1>6. Top = sp_lsb /\ Top' = (sp_lsb + 2) % 256
  <2>1. sp_lsb' = (sp_lsb + 1) % 256
    BY <1>1, <1>3, PointerMoves
  <2>2. Top' = (sp_lsb' + 1) % 256
    BY <1>2 DEF Top
  <2>3. Top = (sp_lsb + 0) % 256
    BY <1>1 DEF Top
  <2> QED
    BY <1>3, <2>1, <2>2, <2>3 DEF BYTE
<1>7. Held(data_mem, PageOf(cr), sp_lsb, frames, 1)
  BY <1>1, <1>6 DEF StackInv, StackHeld
<1>8. PageOf(cr') = PageOf(cr)
  BY <1>1, NextPage DEF cr_update_en, StackNext, Retiring
<1>9. frames' = Newest(<<PC>> \o frames)
  BY <1>1, FramesStep DEF StackMoved
<1>10. Added(PC, frames, frames')
  BY <1>3, <1>9, FrameAdded, Zenon
<1>11. Held(data_mem', PageOf(cr), (sp_lsb + 2) % 256, frames', 2)
  <2>1. PageOf(cr) \in 0..7 /\ sp_lsb \in BYTE /\ frames \in Seq(PcSpace)
    BY <1>3, Zenon
  <2>2. Held(Write(data_mem, Cell(PageOf(cr), Above(sp_lsb, 2), 2), Upper(PC)), PageOf(cr),
             Above(sp_lsb, 2), frames', 2)
    BY <1>7, <1>10, <2>1, UpperPushed, Zenon
  <2>3. Cell(PageOf(cr), Above(sp_lsb, 2), 2) = PageOf(cr) * 256 + sp_lsb
    BY <2>1, CellsAtTop DEF Above
  <2> QED
    BY <1>5, <2>2, <2>3 DEF Above, Upper
<1>12. ret_addr0' = PC % 256
  BY <1>1, <1>2, <1>4 DEF StackNext, Next, Execute
<1>13. OnTheWay'
  BY <1>2, <1>10, <1>12 DEF OnTheWay, Added
<1> QED
  BY <1>2, <1>6, <1>8, <1>11, <1>13 DEF StackHeld

\* The lower byte is pushed.
LEMMA LowerStep ==
  ASSUME IInv, StackInv, StackNext, ~halted, ~halted', store_lower
  PROVE  StackHeld'
<1>1. /\ ~Calling /\ ~store_upper /\ ~restore_lower /\ ~restore_upper /\ ~ret_addr_en
      /\ ~Retiring({"ST"}) /\ ~Retiring({"LD"})
  BY OnePhase DEF Calling, IInv, BusProtocol
<1>2. ~store_lower' /\ ~restore_upper' /\ ~ret_addr_en'
  BY <1>1, NextPhase DEF StackNext
<1>3. /\ sp_lsb \in BYTE /\ PageOf(cr) \in 0..7
      /\ StackAddr(cr, sp_lsb) = PageOf(cr) * 256 + sp_lsb
      /\ sp_lsb' = sp_next
      /\ data_mem' = IF m_wr THEN Write(data_mem, m_addr, m_wr_data) ELSE data_mem
      /\ frames \in Seq(PcSpace) /\ Len(frames) <= ROOM
  BY Facts
<1>4. data_mem' = Write(data_mem, PageOf(cr) * 256 + sp_lsb, ret_addr0)
  BY <1>1, <1>3 DEF m_wr, mapped_access, m_addr, stack_addr, m_wr_data
<1>5. Top = (sp_lsb + 1) % 256 /\ Top' = (sp_lsb + 1) % 256 /\ (sp_lsb + 1) % 256 \in BYTE
  <2>1. sp_lsb' = (sp_lsb + 1) % 256
    BY <1>1, <1>3, PointerMoves
  <2>2. Top' = (sp_lsb' + 0) % 256
    BY <1>2 DEF Top
  <2> QED
    BY <1>3, <2>1, <2>2 DEF Top, BYTE
<1>6. Held(data_mem, PageOf(cr), (sp_lsb + 1) % 256, frames, 2)
  BY <1>5 DEF StackInv, StackHeld
<1>7. PageOf(cr') = PageOf(cr)
  BY <1>1, NextPage DEF cr_update_en, StackNext, Retiring
<1>8. frames' = frames
  BY <1>1, FramesStep DEF StackMoved, Resuming
<1>9. frames # <<>> => ret_addr0 = frames[1] % 256
  BY DEF StackInv, StackHeld, OnTheWay
<1>10. Cell(PageOf(cr), (sp_lsb + 1) % 256, 1) = PageOf(cr) * 256 + sp_lsb
  BY <1>3, CellsAtTop
<1>11. Held(data_mem', PageOf(cr), (sp_lsb + 1) % 256, frames, 1)
  <2>1. PICK top \in BYTE : top = (sp_lsb + 1) % 256
    BY <1>5, Zenon
  <2>2. Held(data_mem, PageOf(cr), top, frames, 2)
    BY <1>6, <2>1, Zenon
  <2>3. PageOf(cr) \in 0..7 /\ frames \in Seq(PcSpace) /\ Len(frames) <= ROOM
    BY <1>3, Zenon
  <2>4. Held(Write(data_mem, Cell(PageOf(cr), top, 1), ret_addr0), PageOf(cr), top, frames, 1)
    BY <1>9, <2>2, <2>3, LowerPushed, Zenon
  <2> QED
    BY <1>4, <1>10, <2>1, <2>4
<1>12. OnTheWay'
  BY <1>2 DEF OnTheWay
<1> QED
  BY <1>2, <1>5, <1>7, <1>8, <1>11, <1>12 DEF StackHeld

\* What a pop reads.
LEMMA Popped ==
  ASSUME IInv, sp_lsb \in 1..255, ~store_lower, ~store_upper, restore_lower \/ restore_upper,
         ~Retiring({"ST"}), ~Retiring({"LD"})
  PROVE  /\ m_rd_data = Read(data_mem, Cell(PageOf(cr), sp_lsb, 1))
         /\ m_rd_data = Read(data_mem, Cell(PageOf(cr), (sp_lsb + 1) % 256, 2))
<1>1. PageOf(cr) \in 0..7 /\ StackAddr(cr, sp_lsb) = PageOf(cr) * 256 + sp_lsb
  BY PageFacts DEF IInv, TypeOK
<1>2. m_rd_data = Read(data_mem, (StackAddr(cr, sp_lsb) + 4095) % 4096)
  BY DEF m_rd_data, m_rd, mapped_access, m_addr, stack_addr
<1>3. PICK sp \in 0..254 : sp_lsb = sp + 1
  <2>1. sp_lsb - 1 \in 0..254 /\ sp_lsb = (sp_lsb - 1) + 1
    OBVIOUS
  <2> QED
    BY <2>1, Zenon
<1>4. /\ (PageOf(cr) * 256 + (sp + 1) + 4095) % 4096 = Cell(PageOf(cr), (sp + 1) % 256, 1)
      /\ (PageOf(cr) * 256 + (sp + 1) + 4095) % 4096 = Cell(PageOf(cr), (sp + 2) % 256, 2)
  BY <1>1, CellBelow
<1>5. (sp + 1) % 256 = sp_lsb /\ sp + 2 = sp_lsb + 1
  BY <1>3
<1> QED
  BY <1>1, <1>2, <1>3, <1>4, <1>5

\* The lower byte is popped.
LEMMA LowerPopStep ==
  ASSUME IInv, StackInv, StackNext, ~halted, ~halted', restore_lower
  PROVE  StackHeld'
<1>1. /\ ~Calling /\ ~store_upper /\ ~store_lower /\ ~restore_upper /\ ~ret_addr_en
      /\ ~Retiring({"ST"}) /\ ~Retiring({"LD"})
  BY OnePhase DEF Calling, restore_lower, PopsLower, PopsUpper, Redirects, Retiring, IInv,
     BusProtocol, AddressKinds
<1>2. ~store_lower' /\ restore_upper' /\ ~ret_addr_en' /\ ~latch_ret_addr
  BY <1>1, NextPhase DEF StackNext
<1>3. /\ sp_lsb \in BYTE /\ PageOf(cr) \in 0..7
      /\ sp_lsb' = sp_next
      /\ data_mem' = IF m_wr THEN Write(data_mem, m_addr, m_wr_data) ELSE data_mem
      /\ frames \in Seq(PcSpace) /\ Len(frames) <= ROOM
  BY Facts
<1>4. data_mem' = data_mem /\ frames' = frames
  BY <1>1, <1>3, FramesStep DEF m_wr, StackMoved, Resuming
<1>5. sp_lsb' = (sp_lsb + 255) % 256
  BY <1>1, <1>3, PointerMoves
<1>6. Top = sp_lsb /\ Top' = sp_lsb
  <2>1. Top = (sp_lsb + 0) % 256
    BY <1>1 DEF Top
  <2>2. Top' = (sp_lsb' + 1) % 256
    BY <1>2 DEF Top
  <2> QED
    BY <1>3, <1>5, <2>1, <2>2 DEF BYTE
<1>7. PageOf(cr') = PageOf(cr)
  BY <1>1, NextPage DEF cr_update_en, StackNext, Retiring
<1>8. Held(data_mem, PageOf(cr), sp_lsb, frames, 1)
  BY <1>1, <1>6 DEF StackInv, StackHeld
<1>9. ret_addr0' = m_rd_data
  BY <1>2 DEF StackNext, Next, Execute
<1>10. frames # <<>> /\ sp_lsb' < 255 => ret_addr0' = frames[1] % 256
  <2> SUFFICES ASSUME frames # <<>>, sp_lsb' < 255 PROVE ret_addr0' = frames[1] % 256
    OBVIOUS
  <2>1. sp_lsb \in 1..255
    BY <1>3, <1>5 DEF BYTE
  <2>2. m_rd_data = Read(data_mem, Cell(PageOf(cr), sp_lsb, 1))
    BY <1>1, <2>1, Popped
  <2>3. Read(data_mem, Cell(PageOf(cr), sp_lsb, 1)) = frames[1] % 256
    BY <1>3, <1>8, NewestHeld
  <2> QED
    BY <1>9, <2>2, <2>3
<1>11. OnTheWay'
  BY <1>2, <1>4, <1>10 DEF OnTheWay
<1> QED
  BY <1>2, <1>4, <1>6, <1>7, <1>8, <1>11 DEF StackHeld

\* The upper byte is popped.
LEMMA UpperPopStep ==
  ASSUME IInv, StackInv, StackNext, ~halted, ~halted', restore_upper
  PROVE  StackHeld'
<1>1. /\ ~Calling /\ ~store_upper /\ ~store_lower /\ ~restore_lower /\ ~ret_addr_en
      /\ ~Retiring({"ST"}) /\ ~Retiring({"LD"})
  BY OnePhase DEF Calling, restore_upper, PopsLower, PopsUpper, Redirects, Retiring, IInv,
     BusProtocol
<1>2. ~store_lower' /\ ~restore_upper' /\ ret_addr_en' /\ ~latch_ret_addr
  BY <1>1, NextPhase DEF StackNext
<1>3. /\ sp_lsb \in BYTE /\ PageOf(cr) \in 0..7
      /\ sp_lsb' = sp_next
      /\ data_mem' = IF m_wr THEN Write(data_mem, m_addr, m_wr_data) ELSE data_mem
      /\ frames \in Seq(PcSpace) /\ Len(frames) <= ROOM
  BY Facts
<1>4. data_mem' = data_mem /\ frames' = frames
  BY <1>1, <1>3, FramesStep DEF m_wr, StackMoved, Resuming
<1>5. sp_lsb' = (sp_lsb + 255) % 256
  BY <1>1, <1>3, PointerMoves
<1>6. Top = (sp_lsb + 1) % 256 /\ Top' = (sp_lsb + 1) % 256
  <2>1. Top = (sp_lsb + 1) % 256
    BY DEF Top
  <2>2. Top' = (sp_lsb' + 2) % 256
    BY <1>2 DEF Top, restore_upper
  <2> QED
    BY <1>3, <1>5, <2>1, <2>2 DEF BYTE
<1>7. PageOf(cr') = PageOf(cr)
  BY <1>1, NextPage DEF cr_update_en, StackNext, Retiring
<1>8. Held(data_mem, PageOf(cr), (sp_lsb + 1) % 256, frames, 1)
  BY <1>1, <1>6 DEF StackInv, StackHeld
<1>9. ret_addr1' = m_rd_data /\ ret_addr0' = ret_addr0
  BY <1>1, <1>2 DEF StackNext, Next, Execute
<1>10. ASSUME frames # <<>>, sp_lsb' < 254
       PROVE  ret_addr0' = frames[1] % 256 /\ ret_addr1' = frames[1] \div 256
  <2>1. sp_lsb \in 1..255 /\ sp_lsb < 255
    BY <1>3, <1>5, <1>10 DEF BYTE
  <2>2. m_rd_data = Read(data_mem, Cell(PageOf(cr), (sp_lsb + 1) % 256, 2))
    BY <1>1, <2>1, Popped
  <2>3. Read(data_mem, Cell(PageOf(cr), (sp_lsb + 1) % 256, 2)) = frames[1] \div 256
    BY <1>3, <1>8, <1>10, NewestHeld
  <2>4. ret_addr0 = frames[1] % 256
    BY <1>10, <2>1 DEF StackInv, StackHeld, OnTheWay
  <2> QED
    BY <1>9, <2>2, <2>3, <2>4
<1>11. OnTheWay'
  BY <1>2, <1>4, <1>10 DEF OnTheWay
<1> QED
  BY <1>2, <1>4, <1>6, <1>7, <1>8, <1>11 DEF StackHeld

\* The fetch goes on behind the call.
LEMMA ResumeStep ==
  ASSUME IInv, StackInv, StackNext, ~halted, ~halted', ret_addr_en
  PROVE  StackHeld'
<1>1. /\ ~Calling /\ ~store_upper /\ ~store_lower /\ ~restore_lower /\ ~restore_upper
      /\ ~Retiring({"ST"}) /\ ~StackMoved
  BY OnePhase DEF Calling, PopsLower, PopsUpper, Redirects, StackMoved, IInv, BusProtocol
<1>2. ~store_lower' /\ ~restore_upper' /\ ~ret_addr_en'
  BY <1>1, NextPhase DEF StackNext
<1>3. /\ sp_lsb \in BYTE /\ PageOf(cr) \in 0..7
      /\ sp_lsb' = sp_next
      /\ data_mem' = IF m_wr THEN Write(data_mem, m_addr, m_wr_data) ELSE data_mem
      /\ frames \in Seq(PcSpace) /\ Len(frames) <= ROOM
  BY Facts
<1>4. data_mem' = data_mem /\ frames' = IF frames # <<>> THEN Tail(frames) ELSE frames
  BY <1>1, <1>3, FramesStep DEF m_wr, Resuming
<1>5. sp_lsb' = sp_lsb
  BY <1>1, <1>3, PointerMoves
<1>6. Top = (sp_lsb + 2) % 256 /\ Top' = sp_lsb
  <2>1. Top = (sp_lsb + 2) % 256
    BY <1>1 DEF Top
  <2>2. Top' = (sp_lsb' + 0) % 256
    BY <1>2 DEF Top
  <2> QED
    BY <1>3, <1>5, <2>1, <2>2 DEF BYTE
<1>7. PageOf(cr') = PageOf(cr)
  BY <1>1, NextPage DEF cr_update_en, StackNext, Retiring
<1>8. Held(data_mem, PageOf(cr), (sp_lsb + 2) % 256, frames, 1)
  BY <1>1, <1>6 DEF StackInv, StackHeld
<1>9. Held(data_mem, PageOf(cr), sp_lsb, frames', 1)
  <2>1. CASE frames # <<>>
    <3>1. Held(data_mem, PageOf(cr), Above(sp_lsb, 2), frames, 1)
      BY <1>8 DEF Above
    <3>2. /\ PageOf(cr) \in 0..7 /\ sp_lsb \in BYTE
          /\ frames \in Seq(PcSpace) /\ Len(frames) <= ROOM
      BY <1>3, Zenon
    <3>3. Held(data_mem, PageOf(cr), sp_lsb, Tail(frames), 1)
      BY <2>1, <3>1, <3>2, FramePopped, Zenon
    <3> QED
      BY <1>4, <2>1, <3>3
  <2>2. CASE frames = <<>>
    BY <1>4, <2>2, NothingHeld
  <2> QED
    BY <2>1, <2>2
<1>10. OnTheWay'
  BY <1>2 DEF OnTheWay
<1> QED
  BY <1>2, <1>4, <1>6, <1>7, <1>9, <1>10 DEF StackHeld

\* Every other cycle, in which a STORE may retire beside the stack or move it.
LEMMA OtherStep ==
  ASSUME IInv, StackInv, StackNext, StackKept, ~halted, ~halted',
         ~store_upper, ~store_lower, ~restore_lower, ~restore_upper, ~ret_addr_en
  PROVE  StackHeld'
<1>1. ~Calling /\ ~Resuming
  BY OnePhase DEF Resuming
<1>2. ~store_lower' /\ ~restore_upper' /\ ~ret_addr_en'
  BY NextPhase DEF StackNext
<1>3. /\ sp_lsb \in BYTE /\ PageOf(cr) \in 0..7
      /\ sp_lsb' = sp_next /\ sp_next \in BYTE
      /\ data_mem' = IF m_wr THEN Write(data_mem, m_addr, m_wr_data) ELSE data_mem
      /\ frames \in Seq(PcSpace) /\ Len(frames) <= ROOM
  BY Facts, StatusType DEF IInv
<1>4. OnTheWay'
  BY <1>2 DEF OnTheWay
<1>5. Top = sp_lsb /\ Top' = sp_lsb'
  <2>1. Top = (sp_lsb + 0) % 256
    BY DEF Top
  <2>2. Top' = (sp_lsb' + 0) % 256
    BY <1>2 DEF Top
  <2> QED
    BY <1>3, <2>1, <2>2 DEF BYTE
<1>6. CASE frames' = <<>>
  <2>1. Held(data_mem', PageOf(cr'), Top', frames', 1)
    BY <1>6, NothingHeld
  <2> QED
    BY <1>2, <1>4, <2>1 DEF StackHeld
<1>7. CASE frames' # <<>>
  <2>1. ~StackMoved /\ frames' = frames /\ frames # <<>>
    BY <1>1, <1>7, FramesStep
  <2>2. sp_lsb' = sp_lsb
    BY <1>3, <2>1, PointerMoves
  <2>3. PageOf(cr') = PageOf(cr)
    BY <2>1, NextPage DEF StackKept, cr_update_en, StackNext
  <2>4. Held(data_mem, PageOf(cr), sp_lsb, frames, 1)
    BY <1>5 DEF StackInv, StackHeld
  <2>5. Held(data_mem', PageOf(cr), sp_lsb, frames, 1)
    <3>1. CASE m_wr
      <4>1. \A k \in 1..(2 * Len(frames)) : m_addr # Cell(PageOf(cr), sp_lsb, k)
        BY <3>1 DEF StackKept, m_wr
      <4>2. data_mem' = Write(data_mem, m_addr, m_wr_data)
        BY <1>3, <3>1
      <4> QED
        BY <1>3, <2>4, <4>1, <4>2, HeldBeside
    <3>2. CASE ~m_wr
      BY <1>3, <2>4, <3>2
    <3> QED
      BY <3>1, <3>2
  <2> QED
    BY <1>2, <1>4, <1>5, <2>1, <2>2, <2>3, <2>5 DEF StackHeld
<1> QED
  BY <1>6, <1>7

\* What the program means by its frames stays what it is.
LEMMA NextFrames ==
  ASSUME PC \in PcSpace, frames \in Seq(PcSpace), Len(frames) <= ROOM, StackNext
  PROVE  frames' \in Seq(PcSpace) /\ Len(frames') <= ROOM
<1>1. CASE ~StackMoved /\ Calling
  <2>1. frames' = Newest(<<PC>> \o frames)
    BY <1>1, FramesStep
  <2>2. Added(PC, frames, frames')
    BY <2>1, FrameAdded, Zenon
  <2>3. \A n \in 1..ROOM : n <= ROOM
    BY DEF ROOM
  <2> QED
    BY <2>2, <2>3, Zenon DEF Added
<1>2. CASE frames # <<>> /\ frames' = Tail(frames)
  <2>1. PICK n \in Nat : n = Len(frames)
    BY LenProperties
  <2>2. Tail(frames) \in Seq(PcSpace) /\ Len(Tail(frames)) = n - 1
    BY <1>2, <2>1, HeadTailProperties
  <2> QED
    BY <1>2, <2>1, <2>2 DEF ROOM
<1>3. CASE frames' = <<>>
  BY <1>3 DEF ROOM
<1>4. CASE frames' = frames
  BY <1>4
<1> QED
  BY <1>1, <1>2, <1>3, <1>4, FramesStep

\* A HALT is decoded in no cycle of a return.
LEMMA NextHalted ==
  ASSUME IInv, StackInv, Next, halted'
  PROVE  ~ret_addr_en' /\ ~restore_upper'
<1>1. /\ ret_addr_en' = restore_upper /\ ex1'.en = execute_en /\ ex1'.ctrl = ex.ctrl
  BY DEF Next, Execute
<1>2. restore_upper' <=> restore_lower
  BY <1>1 DEF restore_upper, restore_lower, Retiring
<1>3. CASE halted
  BY <1>1, <1>2, <1>3 DEF StackInv, restore_lower, execute_en
<1>4. CASE ~halted
  <2>1. FirstByte({"HALT"})
    BY <1>4 DEF Next, Idecode
  <2>2. NoReturn
    BY <1>4, <2>1, WhileReturning DEF StackInv
  <2> QED
    BY <1>1, <1>2, <1>4, <2>2, OnePhase DEF NoReturn, PopsLower, PopsUpper
<1> QED
  BY <1>3, <1>4

\* Every clock edge keeps the stack as the program means it.
LEMMA NextStack ==
  ASSUME IInv, StackInv, StackKept, [StackNext]_stackVars
  PROVE  StackInv'
<1>1. CASE StackNext
  <2>1. Next /\ [Next]_rtlVars
    BY <1>1 DEF StackNext
  <2>2. frames' \in Seq(PcSpace) /\ Len(frames') <= ROOM
    <3>1. PC \in PcSpace
      BY DEF IInv, TypeOK, PcSpace
    <3> QED
      BY <1>1, <3>1, NextFrames DEF StackInv
  <2>3. Returns'
    BY <2>1, ReturnsInductive DEF StackInv
  <2>4. halted' => ~ret_addr_en' /\ ~restore_upper'
    BY <2>1, NextHalted
  <2>5. ASSUME ~halted'
        PROVE  (ret_addr_en' => ex1'.ctrl \notin AddressKinds) /\ CallLatched' /\ StackHeld'
    <3>1. ~halted
      BY <2>1, <2>5 DEF Next, Idecode
    <3>2. ret_addr_en' => ex1'.ctrl \notin AddressKinds
      BY <2>1, <3>1, NextPhase
    <3>3. CallLatched'
      BY <2>1, <2>5, <3>1, NextLatched DEF StackInv
    <3>4. StackHeld'
      BY <1>1, <2>5, <3>1, UpperStep, LowerStep, LowerPopStep, UpperPopStep, ResumeStep, OtherStep
    <3> QED
      BY <3>2, <3>3, <3>4
  <2> QED
    BY <2>2, <2>3, <2>4, <2>5 DEF StackInv
<1>2. CASE UNCHANGED stackVars
  BY <1>2 DEF stackVars, rtlVars, fetchRegs, decodeRegs, execRegs, fileRegs, StackInv,
     Returns, ReturnStages, NoReturn, PopsLower, PopsUpper, Redirects, Masked, CallLatched,
     StackHeld, OnTheWay, Top, restore_upper, Retiring
<1> QED
  BY <1>1, <1>2

\* At reset there are no frames.
LEMMA InitStack == StackInit => StackInv
<1> SUFFICES ASSUME StackInit PROVE StackInv
  OBVIOUS
<1>1. /\ ~func_ret /\ ~func_ret_q /\ ~restore_q /\ ~restore_qq /\ ~ret_addr_en
      /\ ~halted /\ ~imm_mode /\ ~store_lower
      /\ ~ex.en /\ ex.ctrl = "EXEC_NOP" /\ ~ex1.en
  BY DEF StackInit, Init, Reset
<1>2. frames = <<>> /\ frames \in Seq(PcSpace) /\ Len(frames) <= ROOM
  BY DEF StackInit, ROOM
<1>3. Returns
  BY <1>1 DEF Returns, ReturnStages, NoReturn
<1>4. Held(data_mem, PageOf(cr), Top, frames, 1)
  BY <1>2, NothingHeld
<1>5. StackHeld
  BY <1>1, <1>2, <1>4 DEF StackHeld, OnTheWay
<1> QED
  BY <1>1, <1>2, <1>3, <1>5 DEF StackInv, CallLatched

\* The two bytes that have been popped are the address.
LEMMA AddressRestored ==
  ASSUME NEW f \in PcSpace
  PROVE  (((f \div 256) % 16) * 256 + (f % 256)) % PC_SPACE = f
<1>1. PC_SPACE \in Nat \ {0} /\ PC_SPACE <= 4096
  BY PcAssumption
<1>2. f \in 0..4095 /\ f < PC_SPACE
  BY <1>1 DEF PcSpace
<1>3. ((f \div 256) % 16) * 256 + (f % 256) = f
  BY <1>2
<1> QED
  BY <1>1, <1>2, <1>3

\* RET goes on behind its CALL.
LEMMA ReturnsToCall ==
  ASSUME IInv, StackInv, StackNext, Resuming, frames # <<>>, sp_lsb < 254
  PROVE  PC' = Head(frames)
<1>1. ret_addr_en /\ ~halted /\ Next
  BY DEF Resuming, StackInv, StackNext
<1>2. ifetch_en /\ ~pc_branch
  BY <1>1, OnePhase DEF ifetch_en, restore_ongoing, pc_branch, execute_en, Redirects, NoReturn,
     AddressKinds, IInv, FetchGoesOn
<1>3. PC' = ret_addr
  BY <1>1, <1>2 DEF Next, Ifetch
<1>4. ret_addr0 = frames[1] % 256 /\ ret_addr1 = frames[1] \div 256
  BY <1>1 DEF StackInv, StackHeld, OnTheWay
<1>5. frames[1] \in PcSpace /\ Head(frames) = frames[1]
  <2>1. frames \in Seq(PcSpace)
    BY DEF StackInv
  <2> QED
    BY <2>1, HeadTailProperties
<1>6. ((((frames[1] \div 256) % 16) * 256) + (frames[1] % 256)) % PC_SPACE = frames[1]
  BY <1>5, AddressRestored
<1> QED
  BY <1>3, <1>4, <1>5, <1>6 DEF ret_addr

\* The stack is as the program means it in every state.
LEMMA StackInvariance == StackSpec /\ []StackKept => [](IInv /\ StackInv)
<1>1. StackInit => IInv /\ StackInv
  BY InitInv, InitStack DEF StackInit
<1>2. IInv /\ StackInv /\ StackKept /\ [StackNext]_stackVars => IInv' /\ StackInv'
  <2> SUFFICES ASSUME IInv, StackInv, StackKept, [StackNext]_stackVars
               PROVE  IInv' /\ StackInv'
    OBVIOUS
  <2>1. [Next]_rtlVars
    BY DEF StackNext, stackVars
  <2> QED
    BY <2>1, NextInv, NextStack
<1> QED
  BY <1>1, <1>2, PTL DEF StackSpec

\* RET goes back behind the call that is being returned from, however deeply
\* calls are nested and however closely CALL and RET follow each other, as long
\* as the program's STOREs leave alone what is in use of the stack.
THEOREM ReturnsCorrect == StackSpec /\ []StackKept => ReturnsMatch
<1>1. IInv /\ StackInv /\ [StackNext]_stackVars =>
        [Resuming /\ frames # <<>> /\ sp_lsb < 254 => PC' = Head(frames)]_stackVars
  BY ReturnsToCall
<1> QED
  BY <1>1, StackInvariance, PTL DEF StackSpec, ReturnsMatch

===============================================================================
