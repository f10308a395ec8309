--------------------------- MODULE NoobsDefs_proofs ---------------------------
(***************************************************************************)
(* Facts about the operators of NoobsDefs: the fields of an instruction    *)
(* byte, the ALU, the flags and the memories stay within their widths.     *)
(***************************************************************************)
EXTENDS NoobsDefs, TLAPS

SecondByteKinds == {"JMP", "CALL", "LD", "ST"} \cup AluOps

\* The kinds of instruction there are.
Kinds ==
  AluOps \cup CrOps \cup {"JMP", "CALL", "RET"} \cup {"NOP", "HALT", "USR", "LD", "ST"}

\* Every byte is some instruction, and its kind says whether it has a second
\* byte; only for ALU operations the immediate flag does.
LEMMA KindLength ==
  ASSUME NEW b \in BYTE
  PROVE  /\ Kind(b) \in Kinds
         /\ Kind(b) \in {"JMP", "CALL", "LD", "ST"} => HasSecondByte(b)
         /\ Kind(b) \in CrOps \cup {"NOP", "HALT", "USR", "RET"} => ~HasSecondByte(b)
         /\ Kind(b) \in AluOps => (HasSecondByte(b) <=> IS_IMM(b))
<1>1. /\ GET_BASE_OP(b) \in 0 .. 7 /\ GET_MC_CTRL_USR_OP(b) \in 0 .. 3
      /\ b % 8 \in 0 .. 7
      /\ GET_BASE_OP(b) = 0 => (IS_IMM(b) <=> GET_MC_CTRL_USR_OP(b) \in {2, 3})
  BY DEF BYTE, GET_BASE_OP, GET_MC_CTRL_USR_OP, IS_IMM, Bit
<1>2. MiscKind(b) \in CrOps \cup {"NOP", "RET", "HALT"}
  BY <1>1 DEF MiscKind, CrOps
<1>3. CASE GET_BASE_OP(b) = 0
  BY <1>1, <1>2, <1>3 DEF Kind, Kinds, HasSecondByte, AluOps, CrOps
<1>4. CASE GET_BASE_OP(b) # 0
  BY <1>1, <1>4 DEF Kind, Kinds, HasSecondByte, AluOps, CrOps
<1> QED
  BY <1>3, <1>4

\* The first operand of the two is told apart only by SUB.
LEMMA AluCommutes ==
  ASSUME NEW op \in AluOps \ {"SUB"}, NEW x \in BYTE, NEW y \in BYTE
  PROVE  AluResult(op, x, y) = AluResult(op, y, x)
<1>1. \A a, b : BitOp(op, a, b) = BitOp(op, b, a)
  BY DEF BitOp
<1>2. Logic(op, x, y) = Logic(op, y, x)
  BY <1>1 DEF Logic
<1>3. x + y = y + x
  BY DEF BYTE
<1> QED
  BY <1>2, <1>3 DEF AluResult

\* The register pointers select one of the four registers.
LEMMA PointerType ==
  ASSUME NEW b \in BYTE
  PROVE  /\ GET_REG_PTR0(b) \in REG
         /\ GET_REG_PTR1(b) \in REG
         /\ GET_LD_ST_REG_PTR(b) \in REG
BY DEF BYTE, REG, GET_REG_PTR0, GET_REG_PTR1, GET_LD_ST_REG_PTR

\* An address assembled from two bytes has eleven bits.
LEMMA AddressType ==
  ASSUME NEW first \in BYTE, NEW second \in BYTE
  PROVE  Address(first, second) \in ADDRESS
BY DEF BYTE, ADDRESS, Address

\* Only jumps, calls, memory accesses and ALU operations have a second byte.
LEMMA SecondByteKind ==
  ASSUME NEW b \in BYTE, HasSecondByte(b)
  PROVE  Kind(b) \in SecondByteKinds
<1>1. CASE Kind(b) \in {"LD", "ST"}
  BY <1>1 DEF SecondByteKinds
<1>2. CASE IS_IMM(b)
  <2>1. GET_BASE_OP(b) \in 0..7 /\ GET_MC_CTRL_USR_OP(b) \in 0..3
    BY DEF BYTE, GET_BASE_OP, GET_MC_CTRL_USR_OP
  <2>2. GET_BASE_OP(b) = 0 => GET_MC_CTRL_USR_OP(b) \in {2, 3}
    BY <1>2 DEF BYTE, IS_IMM, Bit, GET_BASE_OP, GET_MC_CTRL_USR_OP
  <2> QED
    BY <2>1, <2>2 DEF Kind, SecondByteKinds, AluOps
<1> QED
  BY <1>1, <1>2 DEF HasSecondByte

\* The control instructions do not touch the other bits of CR.
LEMMA CrAfterType ==
  ASSUME NEW kind, NEW cr \in BYTE
  PROVE  CrAfter(kind, cr) \in BYTE
BY DEF CrAfter, BYTE, SetBit, ClearBit, Bit, CR_BCZ, CR_BCNZ, CR_ADR_MODE

\* SR keeps eight bits.
LEMMA WithFlagsType ==
  ASSUME NEW sr \in BYTE, NEW ovf, NEW nz, NEW z
  PROVE  WithFlags(sr, ovf, nz, z) \in BYTE
<1>1. sr \div 16 \in 0..15 /\ Bit(sr, SR_ST_OVF) \in 0..1
  BY DEF BYTE, Bit, SR_ST_OVF
<1> QED
  BY <1>1 DEF WithFlags, BYTE, SR_Z, SR_NZ, SR_OVF, SR_ST_OVF

\* AND, OR and XOR of bytes are bytes.
LEMMA LogicType ==
  ASSUME NEW op, NEW x \in BYTE, NEW y \in BYTE
  PROVE  Logic(op, x, y) \in BYTE
<1>1. \A a, b : BitOp(op, a, b) \in {0, 1}
  BY DEF BitOp
<1> DEFINE bit(w) == BitOp(op, Bit(x, w), Bit(y, w))
<1>2. /\ bit(1) \in {0, 1} /\ bit(2) \in {0, 1} /\ bit(4) \in {0, 1}
      /\ bit(8) \in {0, 1} /\ bit(16) \in {0, 1} /\ bit(32) \in {0, 1}
      /\ bit(64) \in {0, 1} /\ bit(128) \in {0, 1}
  BY <1>1
<1> DEFINE low  == 1 * bit(1) + 2 * bit(2) + 4 * bit(4) + 8 * bit(8)
           high == 16 * bit(16) + 32 * bit(32) + 64 * bit(64) + 128 * bit(128)
<1>3. Logic(op, x, y) = low + high
  <2> HIDE DEF bit
  <2> QED
    BY <1>2 DEF Logic, bit
<1> HIDE DEF bit
<1>4. low \in 0..15 /\ high \in 0..240
  BY <1>2
<1> HIDE DEF low, high
<1> QED
  BY <1>3, <1>4 DEF BYTE

\* A word plus a number, before it is cut to a word again.
LEMMA WordSum ==
  ASSUME NEW w \in WORD, NEW n \in Nat
  PROVE  w + n \in Nat
BY DEF WORD

\* uint16_t arithmetic stays in 16 bits.
LEMMA Modulo ==
  ASSUME NEW n \in Nat
  PROVE  n % 65536 \in WORD
BY DEF WORD

\* A result has sixteen bits.
LEMMA AluResultType ==
  ASSUME NEW op, NEW x \in BYTE, NEW y \in BYTE
  PROVE  AluResult(op, x, y) \in WORD
<1>1. CASE op = "ADD"
  <2>1. x + y \in WORD
    BY DEF BYTE, WORD
  <2> QED
    BY <1>1, <2>1 DEF AluResult
<1>2. CASE op = "SUB"
  <2>1. x + 65536 - y \in Nat
    BY DEF BYTE
  <2>2. (x + 65536 - y) % 65536 \in WORD
    BY <2>1, Modulo
  <2> QED
    BY <1>2, <2>2 DEF AluResult
<1>3. CASE op # "ADD" /\ op # "SUB"
  <2>1. \A b \in BYTE : b \in WORD
    BY DEF BYTE, WORD
  <2>2. Logic(op, x, y) \in WORD
    BY <2>1, LogicType
  <2> QED
    BY <1>3, <2>2 DEF AluResult
<1> QED
  BY <1>1, <1>2, <1>3

\* The two bytes of a 16-bit number, as CALL pushes them.
LEMMA WordBytes ==
  ASSUME NEW n \in WORD
  PROVE  /\ n % 256 \in BYTE
         /\ (n \div 256) % 8 \in BYTE
BY DEF WORD, BYTE

\* Two popped bytes make a 16-bit return address.
LEMMA TwoBytes ==
  ASSUME NEW hi \in BYTE, NEW lo \in BYTE
  PROVE  hi * 256 + lo \in WORD
BY DEF WORD, BYTE

\* A target address fits pc.
LEMMA AddressIsWord ==
  ASSUME NEW a \in ADDRESS
  PROVE  a \in WORD
BY DEF WORD, ADDRESS

\* update_status_regs() leaves SR a byte.
LEMMA AluFlagsType ==
  ASSUME NEW sr \in BYTE, NEW result
  PROVE  AluFlags(sr, result) \in BYTE /\ ClearFlags(sr) \in BYTE
<1> DEFINE carry == result > 255
           nz    == result % 256 # 0
           z     == result % 256 = 0
<1>1. AluFlags(sr, result) = WithFlags(sr, carry, nz, z)
  BY DEF AluFlags
<1> HIDE DEF carry, nz, z
<1>2. WithFlags(sr, carry, nz, z) \in BYTE
  BY WithFlagsType
<1>3. ClearFlags(sr) \in BYTE
  BY WithFlagsType DEF ClearFlags
<1> QED
  BY <1>1, <1>2, <1>3

-----------------------------------------------------------------------------
(* The memories.                                                           *)

\* Every byte of the data memory reads as a byte.
LEMMA ReadType ==
  ASSUME NEW mem, IsMemory(mem), NEW a
  PROVE  Read(mem, a) \in BYTE
<1>1. CASE a \in DOMAIN mem
  BY <1>1 DEF Read, IsMemory
<1>2. CASE a \notin DOMAIN mem
  BY <1>2 DEF Read, BYTE
<1> QED
  BY <1>1, <1>2

\* Writing a byte inside the data memory leaves a memory.
LEMMA WriteType ==
  ASSUME NEW mem, IsMemory(mem), NEW a \in DataAddr, NEW v \in BYTE
  PROVE  IsMemory(Write(mem, a, v))
<1> DEFINE after == Write(mem, a, v)
<1>1. DOMAIN after = DOMAIN mem \cup {a}
  BY DEF Write
<1>2. DOMAIN after \subseteq DataAddr
  BY <1>1 DEF IsMemory
<1>3. \A x \in DOMAIN after : after[x] \in BYTE
  BY DEF Write, IsMemory
<1>4. after = [x \in DOMAIN after |-> after[x]]
  BY DEF Write
<1> QED
  BY <1>2, <1>3, <1>4 DEF IsMemory

\* Even outside its array a read returns a byte.
LEMMA LoadType ==
  ASSUME NEW mem, IsMemory(mem), NEW a, NEW v \in LoadOutcomes(mem, a)
  PROVE  v \in BYTE
BY ReadType, StrayAssumption DEF LoadOutcomes, BYTE

\* Even outside its array a write leaves two memories.
LEMMA StoreType ==
  ASSUME NEW mem, IsMemory(mem), NEW imem \in [InstAddr -> BYTE],
         NEW a, NEW v \in BYTE, NEW m \in StoreOutcomes(mem, imem, a, v)
  PROVE  IsMemory(m[1]) /\ m[2] \in [InstAddr -> BYTE]
<1>1. CASE a \in DataAddr
  <2>1. m = <<Write(mem, a, v), imem>>
    BY <1>1 DEF StoreOutcomes
  <2> QED
    BY <2>1, <1>1, WriteType
<1>2. CASE a \notin DataAddr
  <2>1. CASE m = <<mem, imem>>
    BY <2>1
  <2>2. CASE \E i \in InstAddr : m = <<mem, [imem EXCEPT ![i] = v]>>
    BY <2>2
  <2> QED
    BY <1>2, <2>1, <2>2 DEF StoreOutcomes
<1> QED
  BY <1>1, <1>2

\* What the loaders leave are memories.
LEMMA LoadInstructionsType ==
  ASSUME NEW code \in Programs
  PROVE  LoadInstructions(code) \in [InstAddr -> BYTE]
<1>1. code \in Seq(BYTE)
  BY ProgramsAssumption
<1>2. ASSUME NEW i \in InstAddr, i < Len(code)
      PROVE  code[i + 1] \in BYTE
  <2>1. i + 1 \in 1..Len(code)
    BY <1>1, <1>2, InstMemAssumption DEF InstAddr
  <2>2. \A j \in 1..Len(code) : code[j] \in BYTE
    BY <1>1
  <2> QED
    BY <2>1, <2>2
<1>3. 0 \in BYTE
  BY DEF BYTE
<1> QED
  BY <1>2, <1>3 DEF LoadInstructions

\* load_data() leaves a data memory.
LEMMA LoadDataType ==
  ASSUME NEW data \in DataImages
  PROVE  IsMemory(LoadData(data))
<1>1. data \in Seq(BYTE) /\ Len(data) + 8 <= DATA_MEM_SIZE
  BY DataAssumption
<1>2. Len(data) \in Nat
  BY <1>1
<1>3. ASSUME NEW a \in 8..(7 + Len(data))
      PROVE  a \in DataAddr /\ data[a - 7] \in BYTE
  <2>1. a \in DataAddr
    BY <1>1, <1>2, DataMemAssumption DEF DataAddr
  <2>2. a - 7 \in 1..Len(data)
    BY <1>2
  <2>3. \A j \in 1..Len(data) : data[j] \in BYTE
    BY <1>1
  <2> QED
    BY <2>1, <2>2, <2>3
<1> QED
  BY <1>3 DEF LoadData, IsMemory

=============================================================================
