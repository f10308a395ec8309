---------------------------- MODULE NoobsRtl_proofs ----------------------------
(***************************************************************************)
(* Theorems about the pipeline, for all programs, all data and all widths  *)
(* of the PC: its flip-flops keep their types, the bus to the data memory  *)
(* has one user at a time, the two bytes of an instruction are decoded in  *)
(* consecutive cycles; and, in the second part, it implements NoobsIsa.    *)
(***************************************************************************)
EXTENDS NoobsRtl, NoobsDefs_proofs

\* The kinds whose second byte is an address.
AddressKinds == {"JMP", "CALL", "LD", "ST"}

\* Only HALT stops the fetching.
FetchGoesOn == fetch_en \/ halted

\* Between the two bytes of an instruction the second one is being fetched,
\* unless a HALT in front of the instruction has stopped the clock of both.
BetweenBytes ==
  imm_mode => IF halted THEN ~idecode_en
              ELSE idecode_en /\ Kind(prev_inst) \in SecondByteKinds

\* What the stages tell each other of the instructions that use the bus: the
\* push of a call follows it by one and by two cycles, an instruction with an
\* address is followed by a bubble, and a return by NOPs.
BusProtocol ==
  /\ store_upper <=> ex.ctrl = "CALL"
  /\ store_lower <=> ex1.ctrl = "CALL"
  /\ ex.ctrl \in AddressKinds => imm_mode
  /\ ex1.en /\ ex1.ctrl \in AddressKinds => ex.ctrl = "EXEC_NOP"
  /\ ex.en /\ ex.ctrl = "RET" => func_ret
  /\ ex1.en /\ ex1.ctrl = "RET" => ex.ctrl # "CALL"
  /\ ~halted /\ ex1.ctrl = "CALL" => ex.ctrl = "EXEC_NOP"

IInv == TypeOK /\ FetchGoesOn /\ BetweenBytes /\ BusProtocol

-----------------------------------------------------------------------------
(* The stages                                                              *)

ExParams == [en : BOOLEAN, ctrl : ExecCtrls, addr : ADDRESS, src0 : REG,
             rd0 : BOOLEAN, src1 : REG, rd1 : BOOLEAN, dst : REG, imm : BYTE,
             imm_vld : BOOLEAN]

\* A NOP has no second byte, neither has HALT; transfers and memory accesses
\* always have one.
LEMMA SecondBytes ==
  ASSUME NEW b \in BYTE
  PROVE  /\ Kind(b) \in AddressKinds => HasSecondByte(b)
         /\ Kind(b) = "HALT" => ~HasSecondByte(b)
         /\ Kind(0) = "NOP" /\ ~HasSecondByte(0)
<1>1. GET_BASE_OP(b) \in 0..7 /\ GET_MC_CTRL_USR_OP(b) \in 0..3
  BY DEF BYTE, GET_BASE_OP, GET_MC_CTRL_USR_OP
<1>2. Kind(b) \in {"JMP", "CALL"} => IS_IMM(b)
  <2>1. Kind(b) \in {"JMP", "CALL"} => GET_MC_CTRL_USR_OP(b) \in {2, 3}
    <3>1. MiscKind(b) \notin {"JMP", "CALL"}
      <4>1. (b % 8) + 1 \in 1..8
        BY DEF BYTE
      <4> QED
        BY <4>1 DEF MiscKind
    <3> QED
      BY <1>1, <3>1 DEF Kind
  <2> QED
    BY <2>1 DEF BYTE, IS_IMM, Bit, GET_MC_CTRL_USR_OP
<1>3. Kind(b) = "HALT" => ~HasSecondByte(b)
  <2>1. Kind(b) = "HALT" => GET_MC_CTRL_USR_OP(b) = 0
    BY <1>1 DEF Kind
  <2> QED
    BY <2>1 DEF HasSecondByte, BYTE, IS_IMM, Bit, GET_MC_CTRL_USR_OP
<1>4. Kind(0) = "NOP" /\ ~HasSecondByte(0)
  BY DEF Kind, MiscKind, HasSecondByte, IS_IMM, Bit, GET_BASE_OP, GET_MC_CTRL_USR_OP
<1> QED
  BY <1>2, <1>3, <1>4 DEF HasSecondByte, AddressKinds

\* What the decoder is shown is a byte: of the program, or a NOP.
LEMMA CurrentByte ==
  ASSUME TypeOK
  PROVE  /\ curr_inst \in BYTE
         /\ curr_inst = inst_reg \/ curr_inst = 0
         /\ restore_ongoing => curr_inst = 0
BY DEF TypeOK, curr_inst, BYTE, restore_ongoing

\* What an idle decoder hands over, and what a first byte starts from.
LEMMA IdleType ==
  ASSUME ex \in ExParams, exec_ctrl_next \in ExecCtrls
  PROVE  /\ Idle \in ExParams /\ Idle.ctrl = ex.ctrl /\ ~Idle.en
         /\ Started \in ExParams /\ Started.ctrl = exec_ctrl_next /\ Started.en
<1>1. Idle \in ExParams /\ Idle.ctrl = ex.ctrl /\ ~Idle.en
  BY DEF ExParams, Idle
<1> QED
  BY <1>1 DEF ExParams, Started

\* The control of the next instruction is one that execute knows.
LEMMA CtrlNextType ==
  ASSUME TypeOK
  PROVE  exec_ctrl_next \in ExecCtrls
BY DEF TypeOK, exec_ctrl_next, ExecCtrls

\* Decoding hands over a well-formed instruction: one with the control the
\* decoder has found, enabled if its first byte has just been decoded.
LEMMA DecodeType ==
  ASSUME TypeOK, Idecode
  PROVE  /\ ex' \in ExParams
         /\ ex'.ctrl = exec_ctrl_next
         /\ ex'.en <=> idecode_en /\ ~imm_mode
<1>1. ex \in ExParams /\ exec_ctrl_next \in ExecCtrls
  BY CtrlNextType DEF TypeOK, ExParams
<1>2. curr_inst \in BYTE /\ prev_inst \in BYTE
  BY CurrentByte DEF TypeOK
<1>3. /\ Idle \in ExParams /\ Idle.ctrl = ex.ctrl /\ ~Idle.en
      /\ Started \in ExParams /\ Started.ctrl = exec_ctrl_next /\ Started.en
  BY <1>1, IdleType
<1>4. CASE DecodeIdle
  BY <1>3, <1>4 DEF DecodeIdle, exec_ctrl_next, TypeOK
<1>5. CASE DecodeSecondByte
  <2>1. exec_addr_next \in ADDRESS
    BY <1>1, <1>2, AddressType DEF exec_addr_next, ExParams
  <2>2. PICK b \in BYTE :
          ex' = [Idle EXCEPT !.ctrl = exec_ctrl_next, !.addr = exec_addr_next,
                   !.imm_vld = TRUE, !.imm = b]
    <3>1. Idle.imm \in BYTE
      BY <1>3 DEF ExParams
    <3> QED
      BY <1>2, <1>5, <3>1 DEF DecodeSecondByte
  <2>3. ex' \in ExParams /\ ex'.ctrl = exec_ctrl_next /\ ~ex'.en
    BY <1>1, <1>3, <2>1, <2>2 DEF ExParams
  <2> QED
    BY <1>5, <2>3 DEF DecodeSecondByte
<1>6. CASE DecodeControl
  BY <1>3, <1>6 DEF DecodeControl, FirstByte
<1>7. CASE DecodeAlu
  <2>1. GET_REG_PTR0(curr_inst) \in REG /\ GET_REG_PTR1(curr_inst) \in REG
    BY <1>2, PointerType
  <2>2. PICK s0 \in REG, s1 \in REG, d \in REG, r \in BOOLEAN :
          ex' = [Started EXCEPT !.src0 = s0, !.rd0 = TRUE, !.dst = d,
                   !.src1 = s1, !.rd1 = r]
    <3>1. Started.src1 \in REG
      BY <1>3 DEF ExParams
    <3> QED
      BY <1>7, <2>1, <3>1 DEF DecodeAlu
  <2>3. ex' \in ExParams /\ ex'.ctrl = exec_ctrl_next /\ ex'.en
    BY <1>3, <2>2 DEF ExParams
  <2> QED
    BY <1>7, <2>3 DEF DecodeAlu, FirstByte
<1>8. CASE DecodeLoad \/ DecodeStore
  <2>1. GET_LD_ST_REG_PTR(curr_inst) \in REG
    BY <1>2, PointerType
  <2>2. ex' \in ExParams /\ ex'.ctrl = exec_ctrl_next /\ ex'.en
    BY <1>3, <1>8, <2>1 DEF DecodeLoad, DecodeStore, ExParams
  <2> QED
    BY <1>8, <2>2 DEF DecodeLoad, DecodeStore, FirstByte
<1> QED
  BY <1>4, <1>5, <1>6, <1>7, <1>8 DEF Idecode

\* What decoding does to the pair of bytes and to the fetch.
LEMMA DecodeModes ==
  ASSUME TypeOK, Idecode
  PROVE  /\ ~idecode_en => UNCHANGED <<imm_mode, fetch_en>>
         /\ idecode_en /\ imm_mode => ~imm_mode' /\ (fetch_en => fetch_en')
         /\ idecode_en /\ ~imm_mode =>
              /\ imm_mode' <=> HasSecondByte(curr_inst)
              /\ fetch_en => fetch_en' \/ Kind(curr_inst) = "HALT"
<1>1. CASE DecodeIdle \/ DecodeSecondByte
  BY <1>1 DEF DecodeIdle, DecodeSecondByte, TypeOK
<1>2. CASE DecodeControl
  BY <1>2 DEF DecodeControl, FirstByte, TypeOK
<1>3. CASE DecodeAlu
  BY <1>3 DEF DecodeAlu, FirstByte, HasSecondByte, AluOps, IS_IMM
<1>4. CASE DecodeLoad \/ DecodeStore
  BY <1>4 DEF DecodeLoad, DecodeStore, FirstByte, HasSecondByte
<1> QED
  BY <1>1, <1>2, <1>3, <1>4 DEF Idecode

-----------------------------------------------------------------------------
(* Fetching, and the pairs of bytes                                        *)

\* Only a HALT stops the fetching, and it is remembered.
LEMMA NextFetchGoesOn ==
  ASSUME IInv, [Next]_rtlVars
  PROVE  FetchGoesOn'
<1>1. CASE Next
  <2>1. halted' <=> halted \/ FirstByte({"HALT"})
    BY <1>1 DEF Next, Idecode, IInv, TypeOK, FirstByte
  <2>2. fetch_en => fetch_en' \/ FirstByte({"HALT"})
    BY <1>1, DecodeModes DEF Next, IInv, TypeOK, FirstByte
  <2> QED
    BY <2>1, <2>2 DEF IInv, FetchGoesOn
<1>2. CASE UNCHANGED rtlVars
  BY <1>2 DEF rtlVars, decodeRegs, IInv, FetchGoesOn
<1> QED
  BY <1>1, <1>2

\* The byte behind a first byte is fetched while the first one is decoded:
\* no return is under way, or the decoder would see a NOP.
LEMMA NextBetweenBytes ==
  ASSUME IInv, [Next]_rtlVars
  PROVE  BetweenBytes'
<1>1. CASE Next
  <2> SUFFICES ASSUME imm_mode'
               PROVE  IF halted' THEN ~idecode_en'
                      ELSE idecode_en' /\ Kind(prev_inst)' \in SecondByteKinds
    BY DEF BetweenBytes
  <2>1. /\ idecode_en' = ifetch_en /\ prev_inst' = curr_inst
        /\ halted' <=> halted \/ FirstByte({"HALT"})
    BY <1>1 DEF Next, Ifetch, Idecode, IInv, TypeOK, FirstByte
  <2>2. ~(idecode_en /\ imm_mode)
    BY <1>1, DecodeModes DEF Next, IInv
  <2>3. CASE halted
    BY <2>1, <2>3 DEF ifetch_en
  <2>4. CASE ~halted
    <3>1. ~imm_mode
      BY <2>2, <2>4 DEF IInv, BetweenBytes
    <3>2. idecode_en /\ HasSecondByte(curr_inst)
      BY <1>1, <3>1, DecodeModes DEF Next, IInv
    <3>3. curr_inst \in BYTE /\ (restore_ongoing => curr_inst = 0)
      BY CurrentByte DEF IInv
    <3>4. Kind(curr_inst) \in SecondByteKinds /\ Kind(curr_inst) # "HALT"
      BY <3>2, <3>3, SecondByteKind, SecondBytes
    <3>5. ~restore_ongoing
      BY <3>2, <3>3, SecondBytes
    <3>6. ifetch_en /\ ~halted'
      BY <2>1, <2>4, <3>4, <3>5 DEF ifetch_en, FirstByte, IInv, FetchGoesOn
    <3> QED
      BY <2>1, <3>4, <3>6
  <2> QED
    BY <2>3, <2>4
<1>2. CASE UNCHANGED rtlVars
  BY <1>2 DEF rtlVars, decodeRegs, fetchRegs, IInv, BetweenBytes
<1> QED
  BY <1>1, <1>2

-----------------------------------------------------------------------------
(* The bus to the data memory                                              *)

\* Every stage keeps what it has told the next one.
LEMMA NextBusProtocol ==
  ASSUME IInv, [Next]_rtlVars
  PROVE  BusProtocol'
<1>1. CASE Next
  <2>1. /\ ex'.ctrl = exec_ctrl_next
        /\ ex'.en <=> idecode_en /\ ~imm_mode
    BY <1>1, DecodeType DEF Next, IInv
  <2>2. ex1'.en = execute_en /\ ex1'.ctrl = ex.ctrl
    BY <1>1 DEF Next, Execute
  <2>3. /\ store_upper' = latch_ret_addr /\ store_lower' = store_upper
        /\ func_ret' = (idecode_en /\ exec_ctrl_next = "RET")
    BY <1>1 DEF Next, Execute, Idecode
  \* The second byte of an instruction hands over a bubble.
  <2>4. ~halted /\ imm_mode => exec_ctrl_next = "EXEC_NOP"
    BY DEF exec_ctrl_next, IInv, BetweenBytes, TypeOK
  <2>5. exec_ctrl_next \in AddressKinds => imm_mode'
    <3>1. CASE ~idecode_en
      <4>1. exec_ctrl_next = ex.ctrl /\ imm_mode' = imm_mode
        BY <1>1, <3>1, DecodeModes DEF exec_ctrl_next, Next, IInv
      <4> QED
        BY <4>1 DEF IInv, BusProtocol
    <3>2. CASE idecode_en /\ imm_mode
      BY <3>2 DEF exec_ctrl_next, AddressKinds
    <3>3. CASE idecode_en /\ ~imm_mode
      <4>1. exec_ctrl_next \in AddressKinds => Kind(curr_inst) \in AddressKinds
        BY <3>3 DEF exec_ctrl_next, AddressKinds, IInv, BusProtocol, AluOps
      <4>2. Kind(curr_inst) \in AddressKinds => HasSecondByte(curr_inst)
        BY CurrentByte, SecondBytes DEF IInv
      <4> QED
        BY <1>1, <3>3, <4>1, <4>2, DecodeModes DEF Next, IInv
    <3> QED
      BY <3>1, <3>2, <3>3
  <2>6. execute_en /\ ex.ctrl \in AddressKinds => exec_ctrl_next = "EXEC_NOP"
    BY <2>4 DEF execute_en, IInv, BusProtocol
  \* While a return address is being popped the decoder sees NOPs.
  <2>7. execute_en /\ ex.ctrl = "RET" => exec_ctrl_next # "CALL"
    <3>1. SUFFICES ASSUME execute_en, ex.ctrl = "RET"
                   PROVE  exec_ctrl_next # "CALL"
      OBVIOUS
    <3>2. curr_inst = 0
      BY <3>1, CurrentByte DEF execute_en, restore_ongoing, IInv, BusProtocol
    <3>3. Kind(curr_inst) = "NOP"
      BY <3>2, CurrentByte, SecondBytes DEF IInv
    <3> QED
      BY <3>1, <3>3 DEF exec_ctrl_next, AluOps
  <2>8. /\ store_upper' <=> ex'.ctrl = "CALL"
        /\ store_lower' <=> ex1'.ctrl = "CALL"
    BY <2>1, <2>2, <2>3 DEF latch_ret_addr, IInv, BusProtocol
  <2>9. ex'.en /\ ex'.ctrl = "RET" => func_ret'
    BY <2>1, <2>3
  <2>10. ~halted' /\ ex1'.ctrl = "CALL" => ex'.ctrl = "EXEC_NOP"
    <3>1. ~halted' => ~halted
      BY <1>1 DEF Next, Idecode
    <3>2. ex.ctrl = "CALL" => imm_mode
      BY DEF IInv, BusProtocol, AddressKinds
    <3> QED
      BY <2>1, <2>2, <2>4, <3>1, <3>2
  <2> QED
    BY <2>1, <2>2, <2>5, <2>6, <2>7, <2>8, <2>9, <2>10 DEF BusProtocol
<1>2. CASE UNCHANGED rtlVars
  BY <1>2 DEF rtlVars, decodeRegs, execRegs, IInv, BusProtocol
<1> QED
  BY <1>1, <1>2

-----------------------------------------------------------------------------
(* Types of the wires                                                      *)

\* A PC counts modulo its width, of at most twelve bits.
LEMMA PcType ==
  ASSUME NEW n \in Nat
  PROVE  n % PC_SPACE \in 0..(PC_SPACE - 1)
BY PcAssumption

\* What the PC and the bus to the data memory can address.
TwelveBits == {n \in Nat : n < 4096}

\* The two bytes of a number of twelve bits.
LEMMA AddressBytes ==
  ASSUME NEW n \in TwelveBits
  PROVE  n % 256 \in BYTE /\ n \div 256 \in BYTE
<1>1. n % 256 \in BYTE
  BY DEF BYTE, TwelveBits
<1>2. n \div 256 \in 0..15
  BY DEF TwelveBits
<1>3. n \div 256 \in BYTE
  BY <1>2 DEF BYTE
<1> QED
  BY <1>1, <1>3

\* The two bytes of a return address, and the address they make.
LEMMA ReturnAddressType ==
  ASSUME TypeOK
  PROVE  /\ next_addr \in 0..(PC_SPACE - 1)
         /\ next_addr % 256 \in BYTE /\ next_addr \div 256 \in BYTE
         /\ ret_addr \in 0..(PC_SPACE - 1)
<1>1. next_addr \in 0..(PC_SPACE - 1)
  <2>1. PC + 1 \in Nat
    BY PcAssumption DEF TypeOK
  <2> QED
    BY <2>1, PcType DEF next_addr
<1>2. next_addr \in TwelveBits
  BY <1>1, PcAssumption DEF TwelveBits
<1>3. (ret_addr1 % 16) * 256 + ret_addr0 \in Nat
  BY DEF TypeOK, BYTE
<1>4. next_addr % 256 \in BYTE /\ next_addr \div 256 \in BYTE
  BY <1>2, AddressBytes
<1> QED
  BY <1>1, <1>3, <1>4, PcType DEF ret_addr

\* The stack lies in the eight pages that CR can select.
LEMMA StackAddrType ==
  ASSUME NEW c \in BYTE, NEW s \in BYTE
  PROVE  StackAddr(c, s) \in ADDRESS
BY DEF StackAddr, BYTE, ADDRESS

\* An index added to an address stays within the twelve bits of the bus, and
\* so does the address below.
LEMMA IndexedType ==
  ASSUME NEW a \in ADDRESS
  PROVE  /\ a \in TwelveBits
         /\ (a + 4095) % 4096 \in TwelveBits
         /\ \A r \in BYTE : (a + r) % 4096 \in TwelveBits
<1>1. a \in TwelveBits
  BY DEF ADDRESS, TwelveBits
<1>2. (a + 4095) % 4096 \in TwelveBits
  BY DEF ADDRESS, TwelveBits
<1>3. \A r \in BYTE : (a + r) % 4096 \in TwelveBits
  BY DEF ADDRESS, BYTE, TwelveBits
<1> QED
  BY <1>1, <1>2, <1>3

\* Whatever uses the bus, it addresses a byte of the data memory.
LEMMA BusAddressType ==
  ASSUME TypeOK
  PROVE  m_addr \in DataAddr
<1>1. TwelveBits \subseteq DataAddr
  BY BusAssumption, DataMemAssumption DEF DataAddr, TwelveBits
<1>2. stack_addr \in TwelveBits
  <2>1. StackAddr(cr, sp_lsb) \in ADDRESS
    BY StackAddrType DEF TypeOK
  <2> QED
    BY <2>1, IndexedType DEF stack_addr
<1>3. ex.addr \in ADDRESS /\ regs[3] \in BYTE
  BY DEF TypeOK, REG
<1>4. (ex.addr + regs[3]) % 4096 \in TwelveBits /\ ex.addr \in TwelveBits
  BY <1>3, IndexedType
<1>5. m_addr \in {stack_addr, (ex.addr + regs[3]) % 4096, ex.addr}
  BY DEF m_addr
<1> QED
  BY <1>1, <1>2, <1>4, <1>5

\* A result of the ALU, nine bits in fact.
LEMMA AluType ==
  ASSUME NEW op, NEW x \in BYTE, NEW y \in BYTE
  PROVE  Alu(op, x, y) \in WORD
<1>1. CASE op = "ADD"
  <2>1. x + y \in WORD
    BY DEF BYTE, WORD
  <2> QED
    BY <1>1, <2>1 DEF Alu
<1>2. CASE op = "SUB"
  <2>1. x + 512 - y \in Nat
    BY DEF BYTE
  <2>2. \A n \in Nat : n % 512 \in WORD
    BY DEF WORD
  <2> QED
    BY <1>2, <2>1, <2>2 DEF Alu
<1>3. CASE op # "ADD" /\ op # "SUB"
  <2>1. \A b \in BYTE : b \in WORD
    BY DEF BYTE, WORD
  <2>2. Logic(op, x, y) \in WORD
    BY <2>1, LogicType
  <2> QED
    BY <1>3, <2>2 DEF Alu
<1> QED
  BY <1>1, <1>2, <1>3

\* A borrow sets the ninth bit of the difference exactly when it sets the
\* upper byte of the C model's sixteen; the lower bytes are the same.
LEMMA Borrow ==
  ASSUME NEW x \in BYTE, NEW y \in BYTE
  PROVE  /\ ((x + 512 - y) % 512) % 256 = ((x + 65536 - y) % 65536) % 256
         /\ (x + 512 - y) % 512 > 255 <=> (x + 65536 - y) % 65536 > 255
<1>1. CASE y <= x
  <2>1. (x + 512 - y) % 512 = x - y /\ (x + 65536 - y) % 65536 = x - y
    BY <1>1 DEF BYTE
  <2> QED
    BY <2>1
<1>2. CASE x < y
  <2>1. /\ (x + 512 - y) % 512 = x + 512 - y
        /\ (x + 65536 - y) % 65536 = x + 65536 - y
    BY <1>2 DEF BYTE
  <2>2. /\ (x + 512 - y) % 256 = x + 256 - y
        /\ (x + 65536 - y) % 256 = x + 256 - y
    BY <1>2 DEF BYTE
  <2>3. x + 512 - y > 255 /\ x + 65536 - y > 255
    BY DEF BYTE
  <2> QED
    BY <2>1, <2>2, <2>3
<1> QED
  BY <1>1, <1>2 DEF BYTE

\* The nine bits of the RTL and the sixteen of the C model have the same
\* lower byte and show the same flags.
THEOREM AluAgrees ==
  ASSUME NEW op, NEW x \in BYTE, NEW y \in BYTE
  PROVE  /\ Alu(op, x, y) % 256 = AluResult(op, x, y) % 256
         /\ AluStatus(Alu(op, x, y)) = AluFlags(0, AluResult(op, x, y))
<1> DEFINE r == Alu(op, x, y)
           q == AluResult(op, x, y)
<1>1. r % 256 = q % 256 /\ (r > 255 <=> q > 255)
  <2>1. CASE op = "SUB"
    BY <2>1, Borrow DEF Alu, AluResult
  <2>2. CASE op # "SUB"
    BY <2>2 DEF Alu, AluResult
  <2> QED
    BY <2>1, <2>2
<1> HIDE DEF r, q
<1>2. Bit(0, SR_ST_OVF) = 0
  BY DEF Bit, SR_ST_OVF
<1>3. AluStatus(r) = AluFlags(0, q)
  BY <1>1, <1>2 DEF AluStatus, AluFlags, WithFlags, SR_Z, SR_NZ, SR_OVF, SR_ST_OVF
<1> QED
  BY <1>1, <1>3 DEF r, q

\* What is read from the bus, written to it and to a register are bytes.
LEMMA BusDataType ==
  ASSUME TypeOK
  PROVE  /\ m_rd_data \in BYTE /\ m_wr_data \in BYTE
         /\ alu_result \in WORD /\ load_data \in BYTE /\ reg_wr_data \in BYTE
<1>1. m_rd_data \in BYTE
  BY ReadType, BusAssumption DEF m_rd_data, TypeOK
<1>2. m_wr_data \in BYTE
  BY DEF m_wr_data, TypeOK
<1>3. alu_result \in WORD
  BY AluType DEF alu_result, src1_data, TypeOK
<1>4. load_data \in BYTE
  BY <1>1 DEF load_data, TypeOK
<1>5. reg_wr_data \in BYTE
  BY <1>2, <1>3, <1>4, WordBytes DEF reg_wr_data
<1> QED
  BY <1>1, <1>2, <1>3, <1>4, <1>5

\* A register is written under one of the four numbers.
LEMMA WritePortType ==
  ASSUME TypeOK
  PROVE  reg_wr_sel \in REG
BY DEF reg_wr_sel, TypeOK

\* A read port shows a byte.
LEMMA ReadPortType ==
  ASSUME TypeOK, NEW en \in BOOLEAN, NEW sel \in REG
  PROVE  ReadPort(en, sel) \in BYTE
<1>1. 0 \in BYTE /\ regs[sel] \in BYTE
  BY DEF BYTE, TypeOK
<1> QED
  BY <1>1, BusDataType DEF ReadPort

\* The status register and the stack pointer keep eight bits.
LEMMA StatusType ==
  ASSUME TypeOK
  PROVE  sr_next \in BYTE /\ sp_next \in BYTE /\ cr_base \in BYTE
<1>1. 0 \in BYTE
  BY DEF BYTE
<1>2. sr_next \in BYTE
  <2>1. AluStatus(alu_result) \in BYTE
    BY DEF AluStatus, SR_Z, SR_NZ, SR_OVF, BYTE
  <2> QED
    BY <1>1, <2>1 DEF sr_next, TypeOK
<1>3. (sp_lsb + 1) % 256 \in BYTE /\ (sp_lsb + 255) % 256 \in BYTE
  BY DEF TypeOK, BYTE
<1>4. sp_next \in BYTE
  BY <1>3, BusDataType DEF sp_next, TypeOK
<1>5. cr_base \in BYTE
  BY BusDataType DEF cr_base, TypeOK
<1> QED
  BY <1>2, <1>4, <1>5

\* The instruction memory shows a byte at every PC, and so does the space
\* behind it.
LEMMA FetchedType ==
  ASSUME TypeOK
  PROVE  i_addr \in 0..(PC_SPACE - 1) /\ i_data \in BYTE
<1>1. exec_addr_next \in ADDRESS
  BY CurrentByte, AddressType DEF exec_addr_next, TypeOK
<1>2. exec_addr_next \in Nat
  BY <1>1 DEF ADDRESS
<1>3. i_addr \in 0..(PC_SPACE - 1)
  BY <1>2, PcType DEF i_addr, TypeOK
<1> QED
  BY <1>3 DEF i_data, TypeOK, BYTE

-----------------------------------------------------------------------------
(* Types of the flip-flops                                                 *)

LEMMA InitInv == Init => IInv
<1> SUFFICES ASSUME Init PROVE IInv
  OBVIOUS
<1> USE DEF Init, Reset
<1>1. TypeOK
  <2>1. inst_mem \in [InstAddr -> BYTE] /\ IsMemory(data_mem)
    BY LoadInstructionsType, LoadDataType
  <2>2. 0 \in BYTE /\ 28 \in BYTE /\ 0 \in ADDRESS /\ 0 \in REG /\ 0 \in 0..(PC_SPACE - 1)
    BY PcAssumption DEF BYTE, ADDRESS, REG
  <2>3. "EXEC_NOP" \in ExecCtrls
    BY DEF ExecCtrls
  <2> QED
    BY <2>1, <2>2, <2>3 DEF TypeOK, CR_SP_INIT_MSB
<1>2. FetchGoesOn /\ BetweenBytes
  BY DEF FetchGoesOn, BetweenBytes
<1>3. BusProtocol
  BY DEF BusProtocol, AddressKinds
<1> QED
  BY <1>1, <1>2, <1>3 DEF IInv

\* Every clock edge loads the flip-flops with values of their types.
LEMMA NextType ==
  ASSUME TypeOK, [Next]_rtlVars
  PROVE  TypeOK'
<1>1. CASE Next
  <2>1. /\ PC' \in 0..(PC_SPACE - 1) /\ inst_reg' \in BYTE /\ idecode_en' \in BOOLEAN
    <3>1. (i_addr + 1) % PC_SPACE \in 0..(PC_SPACE - 1)
      <4>1. i_addr + 1 \in Nat
        BY FetchedType, PcAssumption
      <4> QED
        BY <4>1, PcType
    <3>2. PC' \in {PC, (i_addr + 1) % PC_SPACE, ret_addr, next_addr}
      BY <1>1 DEF Next, Ifetch
    <3>3. PC \in 0..(PC_SPACE - 1)
      BY DEF TypeOK
    <3>4. PC' \in 0..(PC_SPACE - 1)
      BY <3>1, <3>2, <3>3, ReturnAddressType
    <3>5. inst_reg' \in BYTE /\ idecode_en' \in BOOLEAN
      BY <1>1, FetchedType DEF Next, Ifetch, TypeOK, ifetch_en
    <3> QED
      BY <3>4, <3>5
  <2>2. /\ {imm_mode', fetch_en', halted'} \subseteq BOOLEAN
        /\ {func_ret', func_ret_q', restore_q', restore_qq'} \subseteq BOOLEAN
        /\ prev_inst' \in BYTE
    <3>1. imm_mode' \in BOOLEAN /\ fetch_en' \in BOOLEAN
      BY <1>1 DEF Next, Idecode, DecodeIdle, DecodeSecondByte, DecodeControl,
           DecodeAlu, DecodeLoad, DecodeStore, HasSecondByte, IS_IMM, TypeOK
    <3>2. halted' \in BOOLEAN
      BY <1>1 DEF Next, Idecode, TypeOK, FirstByte
    <3>3. {func_ret', func_ret_q', restore_q', restore_qq'} \subseteq BOOLEAN
      BY <1>1 DEF Next, Idecode, TypeOK, restore_ongoing
    <3>4. prev_inst' \in BYTE
      BY <1>1, CurrentByte DEF Next, Idecode
    <3> QED
      BY <3>1, <3>2, <3>3, <3>4
  <2>3. cr' \in BYTE
    BY <1>1, StatusType, CrAfterType DEF Next, Idecode
  <2>4. ex' \in ExParams
    BY <1>1, DecodeType DEF Next
  <2>5. ex1' \in [en : BOOLEAN, ctrl : ExecCtrls, dst : REG]
    BY <1>1 DEF Next, Execute, execute_en, TypeOK
  <2>6. /\ {store_upper', store_lower', ret_addr_en'} \subseteq BOOLEAN
        /\ sr' \in BYTE /\ sp_lsb' \in BYTE
    <3>1. {store_upper', store_lower', ret_addr_en'} \subseteq BOOLEAN
      BY <1>1 DEF Next, Execute, TypeOK, latch_ret_addr, restore_upper, Retiring
    <3> QED
      BY <1>1, <3>1, StatusType DEF Next, Execute
  <2>7. ret_addr0' \in BYTE /\ ret_addr1' \in BYTE
    <3>1. ret_addr0' \in {next_addr % 256, m_rd_data, ret_addr0}
      BY <1>1 DEF Next, Execute
    <3>2. ret_addr1' \in {next_addr \div 256, m_rd_data, ret_addr1}
      BY <1>1 DEF Next, Execute
    <3> QED
      BY <3>1, <3>2, ReturnAddressType, BusDataType DEF TypeOK
  <2>8. regs' \in [REG -> BYTE] /\ rd_data_0' \in BYTE /\ rd_data_1' \in BYTE
    <3>1. regs' \in [REG -> BYTE]
      BY <1>1, BusDataType, WritePortType DEF Next, RegisterFile, TypeOK
    <3>2. ex.rd0 \in BOOLEAN /\ ex.rd1 \in BOOLEAN /\ ex.src0 \in REG /\ ex.src1 \in REG
      BY DEF TypeOK
    <3> QED
      BY <1>1, <3>1, <3>2, ReadPortType DEF Next, RegisterFile
  <2>9. inst_mem' \in [InstAddr -> BYTE] /\ IsMemory(data_mem')
    <3>1. IsMemory(Write(data_mem, m_addr, m_wr_data))
      BY BusAddressType, BusDataType, WriteType DEF TypeOK
    <3> QED
      BY <1>1, <3>1 DEF Next, Memories, TypeOK
  <2> QED
    BY <2>1, <2>2, <2>3, <2>4, <2>5, <2>6, <2>7, <2>8, <2>9 DEF TypeOK, ExParams
<1>2. CASE UNCHANGED rtlVars
  BY <1>2 DEF rtlVars, fetchRegs, decodeRegs, execRegs, fileRegs, TypeOK
<1> QED
  BY <1>1, <1>2

\* Every clock edge preserves what the theorems rest on.
LEMMA NextInv == IInv /\ [Next]_rtlVars => IInv'
<1> SUFFICES ASSUME IInv, [Next]_rtlVars PROVE IInv'
  OBVIOUS
<1>1. TypeOK'
  BY NextType DEF IInv
<1>2. FetchGoesOn' /\ BetweenBytes' /\ BusProtocol'
  BY NextFetchGoesOn, NextBetweenBytes, NextBusProtocol
<1> QED
  BY <1>1, <1>2 DEF IInv

\* The second byte is read by the instruction that it belongs to.
LEMMA InvSecondByte == IInv => SecondByteFollows
<1> SUFFICES ASSUME IInv, idecode_en, imm_mode
             PROVE  Kind(prev_inst) \in AluOps \cup {"JMP", "CALL", "LD", "ST"}
  BY DEF SecondByteFollows
<1> QED
  BY DEF IInv, BetweenBytes, SecondByteKinds

\* Each of the three readers of the bus excludes each of the three writers.
LEMMA InvBus == IInv => DataBusExclusive
<1> SUFFICES ASSUME IInv, m_rd, m_wr PROVE FALSE
  BY DEF DataBusExclusive
<1>1. Retiring({"LD"}) \/ restore_upper \/ restore_lower
  BY DEF m_rd
<1>2. Retiring({"ST"}) \/ store_upper \/ store_lower
  BY DEF m_wr
<1> USE DEF IInv, BusProtocol, AddressKinds
<1>3. CASE Retiring({"LD"})
  BY <1>2, <1>3 DEF Retiring
<1>4. CASE restore_upper
  BY <1>2, <1>4 DEF Retiring, restore_upper
<1>5. CASE restore_lower
  BY <1>2, <1>5 DEF Retiring, restore_lower, execute_en
<1> QED
  BY <1>1, <1>3, <1>4, <1>5

\* What the theorems rest on holds in every state.
LEMMA Invariance == Spec => []IInv
<1>1. Init => IInv
  BY InitInv
<1>2. IInv /\ [Next]_rtlVars => IInv'
  BY NextInv
<1> QED
  BY <1>1, <1>2, PTL DEF Spec

\* Every flip-flop of the CPU always holds a value of its width, and both
\* memories hold bytes.
THEOREM RtlTypeCorrect == Spec => []TypeOK
<1>1. IInv => TypeOK
  BY DEF IInv
<1> QED
  BY <1>1, Invariance, PTL

\* noobs_cpu's assertion data_memory_access_error never fails: the bus to the
\* data memory is never read and written in one cycle.
THEOREM BusCorrect == Spec => []DataBusExclusive
BY Invariance, InvBus, PTL

\* idecode's assertion fatal_err never fails: no stall, redirected fetch or
\* return comes between the two bytes of an instruction.
THEOREM SecondByteCorrect == Spec => []SecondByteFollows
BY Invariance, InvSecondByte, PTL

-----------------------------------------------------------------------------
(* The pipeline implements NoobsIsa: at the clock edge at which the last   *)
(* byte of an instruction is decoded the abstract machine executes it;     *)
(* every other edge only carries on what has been executed already.        *)

\* What the ALU can leave in SR.
FlagValues == {0, SR_Z, SR_NZ, SR_Z + SR_OVF, SR_NZ + SR_OVF}

\* The program's byte at an address; NOPs behind the memory.
ByteAt(a) == IF a \in InstAddr THEN inst_mem[a] ELSE 0

\* No return is being carried out, or its effects on the fetch are over.
NoReturn ==
  ~func_ret /\ ~func_ret_q /\ ~restore_q /\ ~restore_qq /\ ~ret_addr_en

\* The cycles of a return: its lower byte is popped, its upper byte is popped,
\* the fetch is redirected, and the byte fetched meanwhile is masked.
PopsLower ==
  func_ret /\ ~func_ret_q /\ ~restore_q /\ ~restore_qq /\ ~ret_addr_en /\ idecode_en
PopsUpper ==
  ~func_ret /\ func_ret_q /\ restore_q /\ ~restore_qq /\ ~ret_addr_en /\ ~idecode_en
Redirects ==
  ~func_ret /\ ~func_ret_q /\ restore_q /\ restore_qq /\ ret_addr_en /\ ~idecode_en
Masked ==
  ~func_ret /\ ~func_ret_q /\ ~restore_q /\ restore_qq /\ ~ret_addr_en /\ idecode_en

ReturnStages ==
  /\ NoReturn \/ PopsLower \/ PopsUpper \/ Redirects \/ Masked
  /\ func_ret <=> ex.en /\ ex.ctrl = "RET"
  /\ func_ret_q <=> ex1.en /\ ex1.ctrl = "RET"

\* No return is begun between the two bytes of an instruction.
Returns == ~halted => ReturnStages /\ (imm_mode => NoReturn /\ ex.en)

\* What is decoded is what the memory holds in front of the PC.
Fetched == idecode_en /\ NoReturn => inst_reg = ByteAt(Back(1))

\* What the first byte of an instruction of two has put into ex.
StartedWith(b) ==
  /\ Kind(b) \in AluOps \cup {"LD", "ST"} => ex.ctrl = Kind(b)
  /\ Kind(b) \in AluOps =>
       ex.rd0 /\ ex.src0 = GET_REG_PTR0(b) /\ ex.dst = GET_REG_PTR1(b)
  /\ Kind(b) = "LD" => ex.dst = GET_LD_ST_REG_PTR(b)
  /\ Kind(b) = "ST" => ex.rd0 /\ ex.src0 = GET_LD_ST_REG_PTR(b)
  /\ Kind(b) \in {"JMP", "CALL"} =>
       ex.ctrl = IF Taken(ArchCr, ArchSr) THEN Kind(b) ELSE "EXEC_NOP"
  /\ ex.ctrl = "CALL" => ret_addr0 = PC % 256 /\ ret_addr1 = PC \div 256

\* Between the two bytes only an ALU instruction writes back.
HalfDecoded ==
  imm_mode =>
    /\ NoReturn /\ ex.en
    /\ ex1.en => ex1.ctrl \in AluOps \cup {"EXEC_NOP"}
    /\ prev_inst = ByteAt(Back(2))
    /\ HasSecondByte(prev_inst) /\ StartedWith(prev_inst)

\* What execute is given otherwise.
FullyDecoded ==
  ~imm_mode /\ ex.en =>
    /\ ex.ctrl \in AluOps \cup {"RET", "EXEC_NOP"}
    /\ ex.ctrl \in AluOps => ex.rd0 /\ ex.rd1

\* Behind a HALT only an ALU instruction in front of it writes back.
Stopped ==
  /\ ex.ctrl # "CALL" /\ ex1.ctrl # "CALL"
  /\ ex1.en => ex1.ctrl \in AluOps \cup {"EXEC_NOP"}

\* What the refinement needs to know of the instructions under way.
IsaInv ==
  /\ sr \in FlagValues
  /\ ex.en => ~ex.imm_vld
  /\ halted => Stopped
  /\ ~halted => ReturnStages /\ Fetched /\ HalfDecoded /\ FullyDecoded

-----------------------------------------------------------------------------
(* The definitions of NoobsDefs are the same in both machines.             *)

\* How an instruction byte is decoded.
LEMMA SameKind ==
  /\ \A b : Arch!Kind(b) = Kind(b)
  /\ \A b : Arch!HasSecondByte(b) <=> HasSecondByte(b)
  /\ \A b : Arch!IS_IMM(b) <=> IS_IMM(b)
  /\ Arch!AluOps = AluOps /\ Arch!CrOps = CrOps
  /\ Arch!InstAddr = InstAddr /\ Arch!REG = REG
<1>1. \A b : Arch!Kind(b) = Kind(b)
  BY DEF Kind, Arch!Kind, MiscKind, Arch!MiscKind, GET_BASE_OP, Arch!GET_BASE_OP,
     GET_MC_CTRL_USR_OP, Arch!GET_MC_CTRL_USR_OP
<1>2. \A b : Arch!IS_IMM(b) <=> IS_IMM(b)
  BY DEF IS_IMM, Arch!IS_IMM, Bit, Arch!Bit
<1> QED
  BY <1>1, <1>2 DEF HasSecondByte, Arch!HasSecondByte, AluOps, CrOps, Arch!AluOps,
     Arch!CrOps, InstAddr, Arch!InstAddr, REG, Arch!REG

\* The ALU, the control register and the conditions.
LEMMA SameAlu ==
  /\ \A op, x, y : Arch!AluResult(op, x, y) = AluResult(op, x, y)
  /\ \A s, r : Arch!AluFlags(s, r) = AluFlags(s, r)
  /\ \A s : Arch!ClearFlags(s) = ClearFlags(s)
  /\ \A k, c : Arch!CrAfter(k, c) = CrAfter(k, c)
  /\ \A c, s : Arch!Taken(c, s) <=> Taken(c, s)
<1>1. \A op, x, y : Arch!AluResult(op, x, y) = AluResult(op, x, y)
  BY DEF Arch!AluResult, AluResult, Logic, Arch!Logic, BitOp, Arch!BitOp, Bit, Arch!Bit
<1>2. \A s, o, n, z : Arch!WithFlags(s, o, n, z) = WithFlags(s, o, n, z)
  BY DEF WithFlags, Arch!WithFlags, SR_Z, SR_NZ, SR_ST_OVF, SR_OVF, Arch!SR_Z,
     Arch!SR_NZ, Arch!SR_ST_OVF, Arch!SR_OVF, Bit, Arch!Bit
<1>3. \A k, c : Arch!CrAfter(k, c) = CrAfter(k, c)
  BY DEF CrAfter, Arch!CrAfter, SetBit, ClearBit, Arch!SetBit, Arch!ClearBit, Bit,
     Arch!Bit, CR_BCZ, CR_BCNZ, CR_ADR_MODE, Arch!CR_BCZ, Arch!CR_BCNZ, Arch!CR_ADR_MODE
<1>4. \A c, s : Arch!Taken(c, s) <=> Taken(c, s)
  BY DEF Taken, Arch!Taken, Bit, Arch!Bit, CR_BCZ, CR_BCNZ, Arch!CR_BCZ, Arch!CR_BCNZ,
     SR_Z, SR_NZ, SR_OVF, Arch!SR_Z, Arch!SR_NZ, Arch!SR_OVF
<1> QED
  BY <1>1, <1>2, <1>3, <1>4 DEF AluFlags, Arch!AluFlags, ClearFlags, Arch!ClearFlags

\* The memories. The RTL's accesses all lie inside them.
LEMMA SameMemory ==
  /\ \A m, a : a \in DataAddr => Arch!LoadOutcomes(m, a) = {Read(m, a)}
  /\ \A m, i, a, v : a \in DataAddr => Arch!StoreOutcomes(m, i, a, v) = {<<Write(m, a, v), i>>}
  /\ \A c, s : Arch!StackAddr(c, s) = StackAddr(c, s)
  /\ \A m : Arch!IsMemory(m) <=> IsMemory(m)
BY DEF Arch!LoadOutcomes, Read, Arch!Read, DataAddr, Arch!DataAddr,
   Arch!StoreOutcomes, Write, Arch!Write,
   StackAddr, Arch!StackAddr, IsMemory, Arch!IsMemory, BYTE, Arch!BYTE

\* The fields of an instruction.
LEMMA SameFields ==
  /\ \A a, b : Arch!Address(a, b) = Address(a, b)
  /\ \A b : Arch!GET_REG_PTR0(b) = GET_REG_PTR0(b)
  /\ \A b : Arch!GET_REG_PTR1(b) = GET_REG_PTR1(b)
  /\ \A b : Arch!GET_LD_ST_REG_PTR(b) = GET_LD_ST_REG_PTR(b)
  /\ \A x, w : Arch!Bit(x, w) = Bit(x, w)
  /\ Arch!CR_ADR_MODE = CR_ADR_MODE /\ Arch!CR_SP_INIT_MSB = CR_SP_INIT_MSB
BY DEF Address, Arch!Address, GET_REG_PTR0, Arch!GET_REG_PTR0, GET_REG_PTR1,
   Arch!GET_REG_PTR1, GET_LD_ST_REG_PTR, Arch!GET_LD_ST_REG_PTR, Bit, Arch!Bit,
   CR_ADR_MODE, Arch!CR_ADR_MODE, CR_SP_INIT_MSB, Arch!CR_SP_INIT_MSB

-----------------------------------------------------------------------------
(* Counting addresses.                                                     *)

\* The addresses a PC can have.
PcSpace == 0..(PC_SPACE - 1)

\* A PC counts up and wraps to 0; counting back undoes it.
LEMMA PcCounts ==
  ASSUME NEW n \in PcSpace
  PROVE  /\ (n + 1) % PC_SPACE \in PcSpace
         /\ (((n + 1) % PC_SPACE) + PC_SPACE - 1) % PC_SPACE = n
         /\ (((n + 1) % PC_SPACE) + PC_SPACE - 2) % PC_SPACE = (n + PC_SPACE - 1) % PC_SPACE
         /\ (((n + PC_SPACE - 1) % PC_SPACE) + 1) % PC_SPACE = n
         /\ (((n + PC_SPACE - 2) % PC_SPACE) + 1) % PC_SPACE = (n + PC_SPACE - 1) % PC_SPACE
         /\ (((n + PC_SPACE - 2) % PC_SPACE) + 2) % PC_SPACE = n
         /\ (n + PC_SPACE - 1) % PC_SPACE \in PcSpace
         /\ (n + PC_SPACE - 2) % PC_SPACE \in PcSpace
BY PcAssumption, SMTT(30) DEF PcSpace

\* Only the PC's bits of an address popped matter.
LEMMA PoppedAddress ==
  ASSUME NEW hi \in BYTE, NEW lo \in BYTE
  PROVE  ((hi % 16) * 256 + lo) % PC_SPACE = (hi * 256 + lo) % PC_SPACE
<1>1. PICK q \in 0..15, r \in 0..15 : hi = 16 * q + r
  <2>1. hi \div 16 \in 0..15 /\ hi % 16 \in 0..15 /\ hi = 16 * (hi \div 16) + (hi % 16)
    BY SMT DEF BYTE
  <2> QED
    BY <2>1
<1>2. hi % 16 = r
  BY <1>1, SMT
<1>3. hi * 256 + lo = 4096 * q + (r * 256 + lo)
  BY <1>1, SMT DEF BYTE
<1>4. \A n \in Nat : (4096 * q + n) % PC_SPACE = n % PC_SPACE
  BY PcAssumption, SMTT(30)
<1>5. r * 256 + lo \in Nat
  BY DEF BYTE
<1> QED
  BY <1>2, <1>3, <1>4, <1>5

-----------------------------------------------------------------------------
(* Flags and decoding.                                                     *)

\* The ALU replaces all flags a program can see; a transfer clears them.
LEMMA FlagFacts ==
  /\ \A r : AluFlags(0, r) \in FlagValues /\ AluStatus(r) \in FlagValues
  /\ \A s \in FlagValues : \A r : AluFlags(s, r) = AluFlags(0, r)
  /\ \A s \in FlagValues : ClearFlags(s) = 0
<1>1. \A s \in FlagValues : s \div 16 = 0 /\ Bit(s, SR_ST_OVF) = 0
  BY DEF FlagValues, Bit, SR_ST_OVF, SR_Z, SR_NZ, SR_OVF
<1>2. 0 \in FlagValues
  BY DEF FlagValues
<1>3. \A s \in FlagValues : \A r : AluFlags(s, r) = AluFlags(0, r)
  BY <1>1, <1>2 DEF AluFlags, WithFlags
<1>4. \A s \in FlagValues : ClearFlags(s) = 0
  BY <1>1, <1>2 DEF ClearFlags, WithFlags, SR_ST_OVF
<1>5. ASSUME NEW r PROVE AluFlags(0, r) \in FlagValues
  <2>1. CASE r % 256 # 0
    BY <1>1, <1>2, <2>1 DEF AluFlags, WithFlags, FlagValues, SR_ST_OVF, SR_Z, SR_NZ, SR_OVF
  <2>2. CASE r % 256 = 0
    BY <1>1, <1>2, <2>2 DEF AluFlags, WithFlags, FlagValues, SR_ST_OVF, SR_Z, SR_NZ, SR_OVF
  <2> QED
    BY <2>1, <2>2
<1>6. \A r : AluStatus(r) \in FlagValues
  BY DEF AluStatus, FlagValues, SR_Z, SR_NZ, SR_OVF
<1> QED
  BY <1>3, <1>4, <1>5, <1>6

\* What decoding hands over, field by field.
LEMMA DecodeFields ==
  ASSUME TypeOK, Idecode
  PROVE  /\ ~idecode_en => ex'.imm_vld = ex.imm_vld
         /\ idecode_en /\ imm_mode =>
              /\ ex'.imm_vld /\ ex'.addr = exec_addr_next
              /\ Kind(prev_inst) \notin {"LD", "ST"} => ex'.imm = curr_inst
         /\ idecode_en /\ ~imm_mode =>
              LET b    == curr_inst
                  swap == Kind(b) = "SUB" /\ ~IS_IMM(b)
              IN
              /\ ~ex'.imm_vld
              /\ Kind(b) \in AluOps =>
                   /\ ex'.rd0 /\ ex'.dst = GET_REG_PTR1(b)
                   /\ ex'.src0 = IF swap THEN GET_REG_PTR1(b) ELSE GET_REG_PTR0(b)
                   /\ ~IS_IMM(b) =>
                        /\ ex'.rd1
                        /\ ex'.src1 = IF swap THEN GET_REG_PTR0(b) ELSE GET_REG_PTR1(b)
              /\ Kind(b) = "LD" => ex'.dst = GET_LD_ST_REG_PTR(b)
              /\ Kind(b) = "ST" => ex'.rd0 /\ ex'.src0 = GET_LD_ST_REG_PTR(b)
<1>1. ex \in ExParams /\ exec_ctrl_next \in ExecCtrls
  BY CtrlNextType DEF TypeOK, ExParams
<1>2. Idle \in ExParams /\ Started \in ExParams
  BY <1>1, IdleType
<1>3. Idle.imm_vld = ex.imm_vld /\ ~Started.imm_vld
  BY <1>1, <1>2 DEF Idle, Started, ExParams
<1>4. CASE DecodeIdle
  BY <1>3, <1>4 DEF DecodeIdle
<1>5. CASE DecodeSecondByte
  BY <1>2, <1>5 DEF DecodeSecondByte, ExParams
<1>6. CASE DecodeControl
  <2>1. ex' = Started /\ Kind(curr_inst) \notin AluOps \cup {"LD", "ST"}
    BY <1>6 DEF DecodeControl, FirstByte, AluOps, CrOps
  <2> QED
    BY <1>3, <1>6, <2>1 DEF DecodeControl, FirstByte
<1>7. CASE DecodeAlu
  <2>1. Kind(curr_inst) \in AluOps /\ Kind(curr_inst) \notin {"LD", "ST"}
    BY <1>7 DEF DecodeAlu, FirstByte, AluOps
  <2> QED
    BY <1>2, <1>3, <1>7, <2>1 DEF DecodeAlu, FirstByte, ExParams
<1>8. CASE DecodeLoad
  <2>1. Kind(curr_inst) = "LD" /\ Kind(curr_inst) \notin AluOps \cup {"ST"}
    BY <1>8 DEF DecodeLoad, FirstByte, AluOps
  <2> QED
    BY <1>2, <1>3, <1>8, <2>1 DEF DecodeLoad, FirstByte, ExParams
<1>9. CASE DecodeStore
  <2>1. Kind(curr_inst) = "ST" /\ Kind(curr_inst) \notin AluOps \cup {"LD"}
    BY <1>9 DEF DecodeStore, FirstByte, AluOps
  <2> QED
    BY <1>2, <1>3, <1>9, <2>1 DEF DecodeStore, FirstByte, ExParams
<1> QED
  BY <1>4, <1>5, <1>6, <1>7, <1>8, <1>9 DEF Idecode

\* What execute takes over from decode.
LEMMA Retired ==
  ASSUME Execute
  PROVE  /\ ex1'.en = execute_en /\ ex1'.ctrl = ex.ctrl /\ ex1'.dst = ex.dst
         /\ \A ctrls : Retiring(ctrls)' <=> execute_en /\ ex.ctrl \in ctrls
<1>1. ex1'.en = execute_en /\ ex1'.ctrl = ex.ctrl /\ ex1'.dst = ex.dst
  BY DEF Execute
<1> QED
  BY <1>1 DEF Retiring

-----------------------------------------------------------------------------
(* Instructions that have been decoded complete on their own: at an edge   *)
(* that decodes no second byte, what they have computed moves on from      *)
(* stage to stage, and the registers, flags, stack pointer and memory that *)
(* the program sees change only by what the decoder adds.                  *)

\* The registers once the instruction that writes back has done so.
RegsDone ==
  IF reg_wr_en THEN [regs EXCEPT ![reg_wr_sel] = reg_wr_data] ELSE regs

\* With no second byte awaited only an ALU instruction or a RET is in ex.
LEMMA InExecute ==
  ASSUME IInv, IsaInv, ~halted, ~imm_mode
  PROVE  /\ execute_en <=> ex.en
         /\ ex.en => ex.ctrl \in AluOps \cup {"RET", "EXEC_NOP"}
         /\ ex.en /\ ex.ctrl \in AluOps <=> Reading
         /\ ~store_upper /\ ~pc_branch
         /\ ex.en => (ex.ctrl \in AluOps => ex.rd0 /\ ex.rd1)
BY DEF IInv, IsaInv, FullyDecoded, execute_en, Reading, pc_branch, TypeOK, BusProtocol,
   AddressKinds, AluOps

LEMMA RegsSettle ==
  ASSUME IInv, IsaInv, Next, ~halted, ~imm_mode
  PROVE  RegsDone' = ArchRegs
<1>1. regs' = RegsDone
  BY DEF Next, RegisterFile, RegsDone
<1>2. \A ctrls : Retiring(ctrls)' <=> ex.en /\ ex.ctrl \in ctrls
  BY InExecute, Retired DEF Next
<1>3. reg_wr_en' <=> Reading
  BY <1>2, InExecute DEF reg_wr_en, AluOps
<1>4. CASE ~Reading
  BY <1>1, <1>3, <1>4 DEF RegsDone, ArchRegs
<1>5. CASE Reading
  <2>1. ex.en /\ ex.ctrl \in AluOps
    BY <1>5, InExecute
  <2>2. /\ rd_data_0' = ReadPort(ex.rd0, ex.src0)
        /\ rd_data_1' = ReadPort(ex.rd1, ex.src1)
    BY DEF Next, RegisterFile
  <2>3. ~ex'.imm_vld
    BY <2>1, DecodeFields DEF Next, IInv, IsaInv
  <2>4. ex1'.en = ex.en /\ ex1'.ctrl = ex.ctrl /\ ex1'.dst = ex.dst
    BY Retired, InExecute DEF Next, IInv, TypeOK, execute_en
  <2>5. alu_result' = ReadingResult
    BY <2>2, <2>3, <2>4 DEF alu_result, src1_data, ReadingResult
  <2>6. reg_wr_sel' = ex.dst /\ reg_wr_data' = ReadingResult % 256
    BY <2>1, <2>4, <2>5 DEF reg_wr_sel, reg_wr_data, Retiring, AluOps
  <2> QED
    BY <1>1, <1>3, <1>5, <2>6 DEF RegsDone, ArchRegs
<1> QED
  BY <1>4, <1>5

LEMMA FlagsSettle ==
  ASSUME IInv, IsaInv, Next, ~halted, ~imm_mode
  PROVE  sr_next' = ArchSr
<1>1. sr' = sr_next
  BY DEF Next, Execute
<1>2. \A ctrls : Retiring(ctrls)' <=> ex.en /\ ex.ctrl \in ctrls
  BY InExecute, Retired DEF Next
<1>3. CASE Reading
  <2>1. ex.en /\ ex.ctrl \in AluOps
    BY <1>3, InExecute
  <2>2. /\ rd_data_0' = ReadPort(ex.rd0, ex.src0)
        /\ rd_data_1' = ReadPort(ex.rd1, ex.src1)
    BY DEF Next, RegisterFile
  <2>3. ~ex'.imm_vld
    BY <2>1, DecodeFields DEF Next, IInv, IsaInv
  <2>4. ex1'.en = ex.en /\ ex1'.ctrl = ex.ctrl
    BY Retired, InExecute DEF Next, IInv, TypeOK, execute_en
  <2>5. alu_result' = ReadingResult
    BY <2>2, <2>3, <2>4 DEF alu_result, src1_data, ReadingResult
  <2>6. sr_next' = AluStatus(alu_result')
    BY <2>1, <2>4 DEF sr_next, Retiring, AluOps
  <2>7. ArchSr = AluStatus(ReadingResult)
    BY <1>3 DEF ArchSr, Reading, restore_lower, AluOps
  <2> QED
    BY <2>5, <2>6, <2>7
<1>4. CASE ~Reading /\ restore_lower
  <2>1. ex.en /\ ex.ctrl = "RET"
    BY <1>4, InExecute DEF restore_lower
  <2>2. ~Retiring(AluOps)' /\ Retiring({"JMP", "CALL", "RET"})'
    BY <1>2, <2>1 DEF AluOps
  <2> QED
    BY <1>4, <2>2 DEF sr_next, ArchSr
<1>5. CASE ~Reading /\ ~restore_lower
  <2>1. ~Retiring(AluOps)' /\ ~Retiring({"JMP", "CALL", "RET"})'
    BY <1>2, <1>5, InExecute DEF restore_lower
  <2> QED
    BY <1>1, <1>5, <2>1 DEF sr_next, ArchSr
<1> QED
  BY <1>3, <1>4, <1>5

LEMMA ControlSettles ==
  ASSUME IInv, IsaInv, Next, ~halted, ~imm_mode
  PROVE  ArchCr' = IF FirstByte(CrOps) THEN CrAfter(Kind(curr_inst), ArchCr) ELSE ArchCr
<1>1. ~Retiring({"ST"})'
  BY InExecute, Retired DEF Next, AluOps
<1>2. ArchCr' = cr'
  BY <1>1 DEF ArchCr, cr_base, cr_update_en
<1> QED
  BY <1>2 DEF Next, Idecode, ArchCr

LEMMA MemorySettles ==
  ASSUME IInv, IsaInv, Next, ~halted, ~imm_mode
  PROVE  ArchMem' = ArchMem /\ data_mem' = ArchMem
<1>1. data_mem' = ArchMem
  BY InExecute DEF Next, Memories, ArchMem
<1>2. ~Retiring({"ST"})' /\ ~store_lower'
  BY InExecute, Retired DEF Next, Execute, AluOps
<1>3. ~(m_wr' /\ ~store_upper')
  BY <1>2 DEF m_wr
<1> QED
  BY <1>1, <1>3 DEF ArchMem

\* What the decoder puts into ex, for an edge that decodes no second byte.
LEMMA Entered ==
  ASSUME IInv, IsaInv, Next, ~halted, ~imm_mode
  PROVE  /\ halted' <=> FirstByte({"HALT"})
         /\ Reading' <=> FirstByte(AluOps) /\ ~HasSecondByte(curr_inst)
         /\ restore_lower' <=> FirstByte({"RET"})
         /\ imm_mode' <=> idecode_en /\ HasSecondByte(curr_inst)
         /\ store_upper' => FirstByte({"CALL"})
         /\ FirstByte({"RET"}) \/ FirstByte({"CALL"}) => NoReturn
<1>1. /\ ex'.ctrl = exec_ctrl_next
      /\ ex'.en <=> idecode_en
  BY DecodeType DEF Next, IInv
<1>2. halted' <=> FirstByte({"HALT"})
  BY DEF Next, Idecode, IInv, TypeOK, FirstByte
<1>3. execute_en' <=> idecode_en /\ ~FirstByte({"HALT"})
  BY <1>1, <1>2 DEF execute_en
<1>4. imm_mode' <=> idecode_en /\ HasSecondByte(curr_inst)
  BY DecodeModes DEF Next, IInv
<1>5. curr_inst \in BYTE
  BY CurrentByte DEF IInv
<1>6. idecode_en /\ Kind(curr_inst) # "HALT" =>
        /\ exec_ctrl_next \in AluOps <=> Kind(curr_inst) \in AluOps
        /\ exec_ctrl_next = "RET" <=> Kind(curr_inst) = "RET"
        /\ exec_ctrl_next = "CALL" => Kind(curr_inst) = "CALL"
  BY DEF exec_ctrl_next, AluOps
<1>7. Kind(curr_inst) = "HALT" => Kind(curr_inst) \notin AluOps \cup {"RET", "CALL"}
  BY DEF AluOps
<1>8. Reading' <=> FirstByte(AluOps) /\ ~HasSecondByte(curr_inst)
  BY <1>1, <1>3, <1>4, <1>6, <1>7 DEF Reading, FirstByte, AluOps
<1>9. restore_lower' <=> FirstByte({"RET"})
  BY <1>1, <1>3, <1>6, <1>7 DEF restore_lower, FirstByte
<1>10. store_upper' => FirstByte({"CALL"})
  <2>1. store_upper' <=> exec_ctrl_next = "CALL"
    BY DEF Next, Execute, latch_ret_addr, IInv, TypeOK
  <2>2. ex.ctrl # "CALL"
    BY DEF IInv, BusProtocol, AddressKinds
  <2>3. ~idecode_en => exec_ctrl_next # "CALL"
    BY <2>2 DEF exec_ctrl_next
  <2>4. idecode_en /\ Kind(curr_inst) = "HALT" => exec_ctrl_next # "CALL"
    BY <2>2 DEF exec_ctrl_next, AluOps
  <2> QED
    BY <1>6, <2>1, <2>3, <2>4 DEF FirstByte
<1>11. FirstByte({"RET"}) \/ FirstByte({"CALL"}) => NoReturn
  <2>1. Kind(0) = "NOP"
    BY SecondBytes DEF BYTE
  <2>2. FirstByte({"RET"}) \/ FirstByte({"CALL"}) => curr_inst # 0
    BY <2>1 DEF FirstByte
  <2>3. curr_inst # 0 => ~restore_ongoing /\ ~restore_q /\ ~restore_qq
    BY DEF curr_inst
  <2> QED
    BY <2>2, <2>3 DEF IsaInv, ReturnStages, restore_ongoing, NoReturn, PopsLower,
       PopsUpper, Redirects, Masked
<1> QED
  BY <1>2, <1>4, <1>8, <1>9, <1>10, <1>11

\* The stack pointer: a return being carried out counts as done.
LEMMA StackSettles ==
  ASSUME IInv, IsaInv, Next, ~halted, ~imm_mode
  PROVE  ArchSp' = IF FirstByte({"RET"}) THEN (ArchSp + 254) % 256 ELSE ArchSp
<1>1. /\ sp_lsb' = sp_next /\ ~store_lower' /\ ~store_upper
      /\ restore_upper' <=> restore_lower
      /\ ~Retiring({"ST"})'
  BY InExecute, Retired DEF Next, Execute, restore_upper, restore_lower, AluOps
<1>2. sp_lsb \in BYTE
  BY DEF IInv, TypeOK
<1>3. CASE restore_lower
  <2>1. ex.en /\ ex.ctrl = "RET" /\ ~NoReturn
    BY <1>3 DEF restore_lower, execute_en, IInv, BusProtocol, NoReturn
  <2>2. ~store_lower /\ ~Retiring({"ST"})
    BY <2>1 DEF IInv, BusProtocol, Retiring, AddressKinds
  <2>3. ~restore_lower' /\ ~store_upper' /\ ~FirstByte({"RET"})
    BY <2>1, Entered
  <2>4. sp_next = (sp_lsb + 255) % 256
    BY <1>1, <1>3, <2>2 DEF sp_next
  <2>5. sp_next' = (sp_lsb' + 255) % 256
    BY <1>1, <1>3, <2>3 DEF sp_next
  <2>6. ArchSp = (sp_lsb + 254) % 256 /\ ArchSp' = sp_next'
    BY <1>1, <1>3, <2>3 DEF ArchSp
  <2>7. (((sp_lsb + 255) % 256) + 255) % 256 = (sp_lsb + 254) % 256
    BY <1>2, SMT DEF BYTE
  <2> QED
    BY <1>1, <2>3, <2>4, <2>5, <2>6, <2>7
<1>4. CASE ~restore_lower
  <2>1. ArchSp = sp_lsb'
    BY <1>1, <1>4 DEF ArchSp
  <2>2. CASE store_upper'
    <3>1. ~FirstByte({"RET"})
      BY <2>2, Entered DEF FirstByte
    <3> QED
      BY <2>1, <2>2, <3>1, Entered DEF ArchSp
  <2>3. CASE ~store_upper' /\ restore_lower'
    BY <2>1, <2>3, Entered DEF ArchSp
  <2>4. CASE ~store_upper' /\ ~restore_lower'
    <3>1. sp_next' = sp_lsb'
      BY <1>1, <1>4, <2>4 DEF sp_next
    <3> QED
      BY <2>1, <2>4, <3>1, Entered DEF ArchSp
  <2> QED
    BY <2>2, <2>3, <2>4
<1> QED
  BY <1>3, <1>4

-----------------------------------------------------------------------------
(* Returns.                                                                *)

\* The refinement needs no less of returns.
LEMMA IsaReturns == IsaInv => Returns
BY DEF IsaInv, HalfDecoded, Returns

\* While a return is carried out the decoder sees NOPs, and there is no
\* instruction of which only the first byte has been decoded.
LEMMA WhileReturning ==
  ASSUME IInv, Returns, ~halted, ~NoReturn
  PROVE  /\ ~imm_mode /\ curr_inst = 0 /\ Kind(curr_inst) = "NOP"
         /\ ~HasSecondByte(curr_inst)
         /\ \A kinds : "NOP" \notin kinds => ~FirstByte(kinds)
<1>1. ~imm_mode
  BY DEF Returns
<1>2. curr_inst = 0
  BY DEF Returns, ReturnStages, curr_inst, restore_ongoing, PopsLower, PopsUpper,
     Redirects, Masked
<1>3. 0 \in BYTE
  BY DEF BYTE
<1> QED
  BY <1>1, <1>2, <1>3, SecondBytes DEF FirstByte

\* A return goes through its cycles one after another.
LEMMA NextReturns ==
  ASSUME IInv, Returns, Next, ~halted
  PROVE  /\ NoReturn /\ ~FirstByte({"RET"}) /\ ~halted' => NoReturn'
         /\ FirstByte({"RET"}) => PopsLower'
         /\ PopsLower => PopsUpper'
         /\ PopsUpper => Redirects'
         /\ Redirects => Masked'
         /\ Masked => NoReturn'
         /\ ~halted' => ReturnStages'
<1>1. /\ ex'.ctrl = exec_ctrl_next
      /\ ex'.en <=> idecode_en /\ ~imm_mode
      /\ halted' <=> FirstByte({"HALT"})
  BY DecodeType DEF Next, Idecode, IInv, TypeOK, FirstByte
<1>2. /\ func_ret' <=> idecode_en /\ exec_ctrl_next = "RET"
      /\ func_ret_q' = func_ret /\ restore_q' = restore_ongoing /\ restore_qq' = restore_q
      /\ ret_addr_en' <=> Retiring({"RET"})
      /\ idecode_en' <=> ~restore_ongoing
      /\ {func_ret, func_ret_q, restore_q, restore_qq, ret_addr_en} \subseteq BOOLEAN
      /\ {idecode_en, imm_mode} \subseteq BOOLEAN
  BY DEF Next, Idecode, Execute, Ifetch, ifetch_en, restore_upper, IInv, TypeOK, FetchGoesOn
<1>3. /\ func_ret <=> ex.en /\ ex.ctrl = "RET"
      /\ func_ret_q <=> Retiring({"RET"})
      /\ NoReturn \/ PopsLower \/ PopsUpper \/ Redirects \/ Masked
  BY DEF Returns, ReturnStages, Retiring
<1>4. /\ idecode_en /\ imm_mode => exec_ctrl_next = "EXEC_NOP"
      /\ idecode_en /\ ~imm_mode /\ Kind(curr_inst) # "HALT" =>
           (exec_ctrl_next = "RET" <=> FirstByte({"RET"}))
  BY DEF exec_ctrl_next, FirstByte, AluOps
<1>5. ~halted' => (func_ret' <=> FirstByte({"RET"}))
  BY <1>1, <1>2, <1>4 DEF FirstByte
<1>6. FirstByte({"RET"}) => ~halted' /\ NoReturn
  BY <1>1, <1>3, WhileReturning DEF FirstByte
<1>7. ~NoReturn => ~FirstByte({"RET"}) /\ ~halted'
  BY <1>1, WhileReturning
<1>8. ex1'.en /\ ex1'.ctrl = "RET" <=> func_ret
  BY <1>3, Retired DEF Next, execute_en
<1>9. ~halted' => (func_ret' <=> ex'.en /\ ex'.ctrl = "RET")
  BY <1>1, <1>2, <1>4
<1>10. NoReturn /\ ~FirstByte({"RET"}) /\ ~halted' => NoReturn'
  BY <1>2, <1>3, <1>5 DEF NoReturn, restore_ongoing
<1>11. FirstByte({"RET"}) => PopsLower'
  BY <1>2, <1>3, <1>5, <1>6 DEF NoReturn, restore_ongoing, PopsLower
<1>12. PopsLower => PopsUpper'
  <2>1. PopsLower => ~NoReturn
    BY DEF PopsLower, NoReturn
  <2> QED
    BY <1>2, <1>3, <1>5, <1>7, <2>1 DEF restore_ongoing, PopsLower, PopsUpper
<1>13. PopsUpper => Redirects'
  <2>1. PopsUpper => ~NoReturn
    BY DEF PopsUpper, NoReturn
  <2> QED
    BY <1>2, <1>3, <1>5, <1>7, <2>1 DEF restore_ongoing, PopsUpper, Redirects
<1>14. Redirects => Masked'
  <2>1. Redirects => ~NoReturn
    BY DEF Redirects, NoReturn
  <2> QED
    BY <1>2, <1>3, <1>5, <1>7, <2>1 DEF restore_ongoing, Redirects, Masked
<1>15. Masked => NoReturn'
  <2>1. Masked => ~NoReturn
    BY DEF Masked, NoReturn
  <2> QED
    BY <1>2, <1>3, <1>5, <1>7, <2>1 DEF restore_ongoing, Masked, NoReturn
<1>16. ~halted' => ReturnStages'
  <2>1. func_ret_q' <=> ex1'.en /\ ex1'.ctrl = "RET"
    BY <1>2, <1>8
  <2>2. ~halted' => (NoReturn \/ PopsLower \/ PopsUpper \/ Redirects \/ Masked)'
    BY <1>3, <1>10, <1>11, <1>12, <1>13, <1>14, <1>15
  <2> QED
    BY <1>9, <2>1, <2>2 DEF ReturnStages
<1> QED
  BY <1>10, <1>11, <1>12, <1>13, <1>14, <1>15, <1>16

\* Only what is decoded, and how it is fetched, decides about returns.
LEMMA ReturnsInductive ==
  ASSUME IInv, Returns, [Next]_rtlVars
  PROVE  Returns'
<1>1. CASE UNCHANGED rtlVars
  BY <1>1 DEF rtlVars, fetchRegs, decodeRegs, execRegs, Returns, ReturnStages, NoReturn,
     PopsLower, PopsUpper, Redirects, Masked
<1>2. CASE Next
  <2> SUFFICES ASSUME ~halted' PROVE ReturnStages' /\ (imm_mode' => NoReturn' /\ ex'.en)
    BY DEF Returns
  <2>1. ~halted
    BY <1>2 DEF Next, Idecode
  <2>2. ReturnStages'
    BY <1>2, <2>1, NextReturns
  <2>3. ASSUME imm_mode' PROVE NoReturn' /\ ex'.en
    <3>1. ~imm_mode /\ idecode_en /\ HasSecondByte(curr_inst)
      BY <1>2, <2>1, <2>3, DecodeModes DEF Next, IInv, BetweenBytes, TypeOK
    <3>2. NoReturn
      BY <2>1, <3>1, WhileReturning
    <3>3. ~FirstByte({"RET"})
      BY <3>1, CurrentByte, SecondByteKind DEF IInv, SecondByteKinds, FirstByte, AluOps
    <3> QED
      BY <1>2, <2>1, <3>1, <3>2, <3>3, NextReturns, DecodeType DEF Next, IInv
  <2> QED
    BY <2>2, <2>3
<1> QED
  BY <1>1, <1>2

-----------------------------------------------------------------------------
(* The program counter.                                                    *)

\* The PC after an edge at which fetching goes on.
LEMMA NextPc ==
  ASSUME IInv, IsaInv, Next, ~halted, ~restore_ongoing
  PROVE  /\ pc_branch => PC' = (i_addr + 1) % PC_SPACE
         /\ ~pc_branch => i_addr = PC
         /\ ~pc_branch /\ ~ret_addr_en => PC' = (PC + 1) % PC_SPACE
         /\ ~pc_branch /\ ret_addr_en => PC' = ret_addr
         /\ inst_reg' = ByteAt(i_addr) /\ idecode_en'
BY DEF Next, Ifetch, ifetch_en, IInv, FetchGoesOn, next_addr, i_addr, i_data, ByteAt

\* Counting back from the PC.
LEMMA BackFacts ==
  ASSUME IInv
  PROVE  /\ PC \in PcSpace /\ Back(1) \in PcSpace /\ Back(2) \in PcSpace
         /\ (Back(1) + 1) % PC_SPACE = PC
         /\ (Back(2) + 1) % PC_SPACE = Back(1)
         /\ (Back(2) + 2) % PC_SPACE = PC
BY PcCounts DEF IInv, TypeOK, PcSpace, Back

LEMMA BackPrime ==
  ASSUME NEW a \in PcSpace, PC' = (a + 1) % PC_SPACE
  PROVE  Back(1)' = a /\ Back(2)' = (a + PC_SPACE - 1) % PC_SPACE
BY PcCounts DEF Back

\* A pop reads the byte below the stack pointer.
LEMMA Pops ==
  ASSUME IInv, ~halted, restore_lower \/ restore_upper
  PROVE  /\ m_rd_data = Read(data_mem, (StackAddr(cr, sp_lsb) + 4095) % 4096)
         /\ ~m_wr /\ ~cr_update_en
<1>1. ~store_lower /\ ~store_upper
  BY DEF IInv, BusProtocol, restore_lower, restore_upper, Retiring
<1>2. ~mapped_access /\ ~Retiring({"ST"})
  BY DEF IInv, BusProtocol, restore_lower, restore_upper, Retiring, mapped_access, AddressKinds,
     execute_en
<1>3. m_rd /\ m_addr = (StackAddr(cr, sp_lsb) + 4095) % 4096
  BY <1>1, <1>2 DEF m_rd, m_addr, stack_addr
<1>4. ~m_wr
  BY <1>1, <1>2 DEF m_wr
<1> QED
  BY <1>2, <1>3, <1>4 DEF m_rd_data, cr_update_en

\* Where a return leads does not depend on how far it has been carried out.
LEMMA ReturnProceeds ==
  ASSUME IInv, IsaInv, Next, ~halted, PopsLower \/ PopsUpper
  PROVE  ReturnTarget' = ReturnTarget
<1>1. ~NoReturn
  BY DEF NoReturn, PopsLower, PopsUpper
<1>2. ~imm_mode /\ curr_inst = 0 /\ Kind(curr_inst) = "NOP"
  BY <1>1, WhileReturning, IsaReturns
<1>3. /\ restore_lower <=> func_ret
      /\ restore_upper <=> func_ret_q
  BY DEF IsaInv, ReturnStages, restore_lower, restore_upper, Retiring, execute_en
<1>4. ~latch_ret_addr
  <2>1. ex.ctrl # "CALL"
    BY <1>2 DEF IInv, BusProtocol, AddressKinds
  <2> QED
    BY <1>2, <2>1 DEF latch_ret_addr, exec_ctrl_next, AluOps
<1>5. /\ UNCHANGED <<data_mem, cr>>
      /\ m_rd_data = Read(data_mem, (StackAddr(cr, sp_lsb) + 4095) % 4096)
  <2>1. /\ m_rd_data = Read(data_mem, (StackAddr(cr, sp_lsb) + 4095) % 4096)
        /\ ~m_wr /\ ~cr_update_en
    BY <1>3, Pops DEF PopsLower, PopsUpper
  <2>2. ~FirstByte(CrOps)
    BY <1>2 DEF FirstByte, CrOps
  <2> QED
    BY <2>1, <2>2 DEF Next, Idecode, Memories, cr_base
<1>6. restore_upper' <=> restore_lower
  BY Retired DEF Next, restore_upper, restore_lower
<1>7. ~restore_lower'
  BY <1>2, Entered DEF FirstByte
<1>8. CASE PopsLower
  <2>1. restore_lower /\ ~restore_upper /\ restore_upper'
    BY <1>3, <1>6, <1>8 DEF PopsLower
  <2>2. sp_lsb' = (sp_lsb + 255) % 256
    <3>1. ~store_lower /\ ~store_upper
      BY <2>1 DEF IInv, BusProtocol, restore_lower
    <3>2. ~Retiring({"ST"})
      BY <2>1 DEF IInv, BusProtocol, restore_lower, Retiring, AddressKinds
    <3> QED
      BY <2>1, <3>1, <3>2 DEF Next, Execute, sp_next
  <2>3. ret_addr0' = m_rd_data
    BY <1>4, <2>1 DEF Next, Execute
  <2> QED
    BY <1>5, <1>7, <2>1, <2>2, <2>3 DEF ReturnTarget
<1>9. CASE PopsUpper
  <2>1. ~restore_lower /\ restore_upper /\ ~restore_upper'
    BY <1>3, <1>6, <1>9 DEF PopsUpper
  <2>2. ret_addr1' = m_rd_data /\ ret_addr0' = ret_addr0
    BY <1>4, <2>1 DEF Next, Execute
  <2> QED
    BY <1>5, <1>7, <2>1, <2>2 DEF ReturnTarget
<1> QED
  BY <1>8, <1>9

\* While nothing of the program is decoded the program stays where it is.
LEMMA PcWaits ==
  ASSUME IInv, IsaInv, Next, ~halted, ~imm_mode, ~idecode_en \/ ~NoReturn
  PROVE  ArchPc' = ArchPc
<1>1. \A kinds : "NOP" \notin kinds => ~FirstByte(kinds)
  BY WhileReturning, IsaReturns DEF FirstByte
<1>2. ~halted' /\ ~imm_mode' /\ ~restore_lower'
  <2>1. ~halted' /\ ~restore_lower'
    BY <1>1, Entered
  <2>2. ~imm_mode'
    BY Entered, WhileReturning, IsaReturns DEF IInv, TypeOK
  <2> QED
    BY <2>1, <2>2
<1>3. /\ restore_lower <=> func_ret
      /\ restore_upper <=> func_ret_q
  BY DEF IsaInv, ReturnStages, restore_lower, restore_upper, Retiring, execute_en
<1>4. /\ restore_upper' <=> restore_lower
      /\ ret_addr_en' <=> restore_upper
  BY Retired DEF Next, Execute, restore_upper, restore_lower
<1>5. ~pc_branch
  BY InExecute
<1>6. CASE PopsLower \/ PopsUpper
  <2>1. Returning /\ Returning'
    BY <1>3, <1>4, <1>6 DEF Returning, PopsLower, PopsUpper
  <2>2. ArchPc = ReturnTarget /\ ArchPc' = ReturnTarget'
    BY <1>2, <2>1 DEF ArchPc
  <2> QED
    BY <1>6, <2>2, ReturnProceeds
<1>7. CASE Redirects
  <2>1. Returning /\ ~Returning' /\ ~restore_lower /\ ~restore_upper
    BY <1>2, <1>3, <1>4, <1>7 DEF Returning, Redirects
  <2>2. PC' = ret_addr /\ idecode_en' /\ restore_qq'
    BY <1>5, <1>7, NextPc, NextReturns, IsaReturns DEF Redirects, restore_ongoing, Masked
  <2>3. ArchPc = ret_addr /\ ArchPc' = PC'
    BY <1>2, <2>1, <2>2 DEF ArchPc, ReturnTarget, ret_addr
  <2> QED
    BY <2>2, <2>3
<1>8. CASE Masked \/ NoReturn
  <2>1. ~Returning /\ ~Returning' /\ ~restore_ongoing /\ ~ret_addr_en
    BY <1>2, <1>3, <1>4, <1>8 DEF Returning, Masked, NoReturn, restore_ongoing
  <2>2. PC' = (PC + 1) % PC_SPACE /\ idecode_en'
    BY <1>5, <2>1, NextPc
  <2>3. ~restore_qq'
    BY <1>8 DEF Next, Idecode, Masked, NoReturn
  <2>4. ArchPc = PC
    BY <1>8, <2>1 DEF ArchPc, Masked, NoReturn
  <2>5. ArchPc' = Back(1)'
    BY <1>2, <2>1, <2>2, <2>3 DEF ArchPc
  <2> QED
    BY <2>2, <2>4, <2>5, BackFacts, BackPrime
<1> QED
  BY <1>6, <1>7, <1>8 DEF IsaInv, ReturnStages

\* At an edge that decodes a first byte the program is at that byte.
LEMMA PcAtFirst ==
  ASSUME IInv, IsaInv, Next, ~halted, ~imm_mode, idecode_en, NoReturn
  PROVE  /\ ArchPc = Back(1) /\ curr_inst = ByteAt(ArchPc)
         /\ PC' = (PC + 1) % PC_SPACE /\ idecode_en' /\ inst_reg' = ByteAt(PC)
         /\ Back(1)' = PC /\ Back(2)' = Back(1)
<1>1. ~restore_lower /\ ~restore_upper /\ ~ret_addr_en
  BY DEF IsaInv, ReturnStages, restore_lower, restore_upper, Retiring, execute_en, NoReturn
<1>2. ArchPc = Back(1)
  BY <1>1 DEF ArchPc, Returning, NoReturn
<1>3. curr_inst = inst_reg /\ inst_reg = ByteAt(Back(1))
  BY DEF curr_inst, restore_ongoing, NoReturn, IsaInv, Fetched
<1>4. /\ PC' = (PC + 1) % PC_SPACE /\ idecode_en' /\ inst_reg' = ByteAt(PC)
  BY <1>1, InExecute, NextPc DEF restore_ongoing, NoReturn
<1>5. Back(1)' = PC /\ Back(2)' = Back(1)
  BY <1>4, BackFacts, BackPrime DEF Back
<1> QED
  BY <1>2, <1>3, <1>4, <1>5

\* A program that has stopped stays where it is.
LEMMA PcStopped ==
  ASSUME IInv, Next, halted
  PROVE  ArchPc' = ArchPc /\ halted'
<1>1. PC' = PC /\ halted'
  BY DEF Next, Ifetch, Idecode, ifetch_en
<1> QED
  BY <1>1 DEF ArchPc, Back

-----------------------------------------------------------------------------
(* IsaInv is kept by every clock edge.                                     *)

LEMMA NextFlags ==
  ASSUME IInv, IsaInv, Next
  PROVE  sr' \in FlagValues /\ (ex'.en => ~ex'.imm_vld)
<1>1. sr' = sr_next
  BY DEF Next, Execute
<1>2. sr_next \in FlagValues
  BY FlagFacts DEF sr_next, IsaInv, FlagValues
<1>3. ex'.en => ~ex'.imm_vld
  BY DecodeType, DecodeFields DEF Next, IInv
<1> QED
  BY <1>1, <1>2, <1>3

\* A HALT is decoded behind complete instructions, and what is decoded behind
\* the HALT neither calls nor gets executed.
LEMMA NextStopped ==
  ASSUME IInv, IsaInv, Next, NothingBehindHalt, halted'
  PROVE  Stopped'
<1>1. /\ ex'.ctrl = exec_ctrl_next /\ ex1'.ctrl = ex.ctrl
      /\ ex1'.en <=> execute_en
  BY DecodeType, Retired DEF Next, IInv
<1>2. CASE halted
  BY <1>1, <1>2 DEF NothingBehindHalt, latch_ret_addr, IsaInv, Stopped, execute_en
<1>3. CASE ~halted
  <2>1. FirstByte({"HALT"}) /\ ~imm_mode
    BY <1>3 DEF Next, Idecode, FirstByte, IInv, TypeOK
  <2>2. NoReturn
    BY <1>3, <2>1, WhileReturning, IsaReturns
  <2>3. ex.ctrl # "CALL"
    BY <2>1 DEF IInv, BusProtocol, AddressKinds
  <2>4. exec_ctrl_next # "CALL"
    BY <2>1, <2>3 DEF exec_ctrl_next, FirstByte, AluOps
  <2>5. ~(ex.en /\ ex.ctrl = "RET")
    BY <1>3, <2>2 DEF IsaInv, ReturnStages, NoReturn
  <2>6. ex1'.en => ex.ctrl \in AluOps \cup {"EXEC_NOP"}
    BY <1>1, <1>3, <2>1, <2>5, InExecute
  <2> QED
    BY <1>1, <2>3, <2>4, <2>6 DEF Stopped
<1> QED
  BY <1>2, <1>3

LEMMA NextFetched ==
  ASSUME IInv, IsaInv, Next, ~halted
  PROVE  Fetched'
<1> SUFFICES ASSUME idecode_en', NoReturn' PROVE inst_reg' = ByteAt(Back(1))'
  BY DEF Fetched
<1>1. ~restore_ongoing
  BY DEF Next, Ifetch, ifetch_en
<1>2. ~ret_addr_en
  BY NextReturns, IsaReturns DEF IsaInv, ReturnStages, NoReturn, PopsLower, PopsUpper, Redirects, Masked
<1>3. PC' = (i_addr + 1) % PC_SPACE /\ inst_reg' = ByteAt(i_addr)
  BY <1>1, <1>2, NextPc
<1>4. i_addr \in PcSpace
  BY FetchedType DEF IInv, PcSpace
<1>5. Back(1)' = i_addr /\ UNCHANGED inst_mem
  BY <1>3, <1>4, BackPrime DEF Next, Memories
<1> QED
  BY <1>3, <1>5 DEF ByteAt

\* The condition of a jump or call is decided with its first byte. All
\* instructions in front of it have been executed by then, and nothing happens
\* to CR or the flags before its second byte is decoded.
LEMMA NextHalfDecoded ==
  ASSUME IInv, IsaInv, Next, ~halted, ~halted', BranchSeesLatestFlags
  PROVE  HalfDecoded'
<1> SUFFICES ASSUME imm_mode'
             PROVE  /\ NoReturn' /\ ex'.en
                    /\ ex1'.en => ex1'.ctrl \in AluOps \cup {"EXEC_NOP"}
                    /\ prev_inst' = ByteAt(Back(2))'
                    /\ HasSecondByte(prev_inst)' /\ StartedWith(prev_inst)'
  BY DEF HalfDecoded
<1> PICK b : b = curr_inst
  OBVIOUS
<1>1. ~imm_mode /\ idecode_en /\ HasSecondByte(b)
  BY DecodeModes, Entered DEF Next, IInv, BetweenBytes, TypeOK
<1>2. NoReturn
  BY <1>1, WhileReturning, IsaReturns
<1>3. b \in BYTE /\ Kind(b) \in {"JMP", "CALL", "LD", "ST"} \cup AluOps
  BY <1>1, CurrentByte, SecondByteKind DEF IInv, SecondByteKinds
<1>4. ~FirstByte({"RET"}) /\ ~FirstByte(CrOps)
  BY <1>3 DEF FirstByte, AluOps, CrOps
<1>5. NoReturn'
  BY <1>2, <1>4, NextReturns, IsaReturns
<1>6. /\ ex'.en /\ ex'.ctrl = exec_ctrl_next
      /\ ex1'.en <=> execute_en
      /\ ex1'.ctrl = ex.ctrl
  BY <1>1, DecodeType, Retired DEF Next, IInv
<1>7. ex1'.en => ex1'.ctrl \in AluOps \cup {"EXEC_NOP"}
  <2>1. ~(ex.en /\ ex.ctrl = "RET")
    BY <1>2 DEF IsaInv, ReturnStages, NoReturn
  <2> QED
    BY <1>1, <1>6, <2>1, InExecute
<1>8. prev_inst' = b /\ UNCHANGED inst_mem
  BY DEF Next, Idecode, Memories
<1>9. prev_inst' = ByteAt(Back(2))'
  BY <1>1, <1>2, <1>8, PcAtFirst DEF ByteAt
<1>10. StartedWith(b)'
  <2>1. Kind(b) \in AluOps \cup {"LD", "ST"} => ex'.ctrl = Kind(b)
    BY <1>1, <1>6 DEF exec_ctrl_next, AluOps
  <2>2. /\ Kind(b) \in AluOps =>
             ex'.rd0 /\ ex'.src0 = GET_REG_PTR0(b) /\ ex'.dst = GET_REG_PTR1(b)
        /\ Kind(b) = "LD" => ex'.dst = GET_LD_ST_REG_PTR(b)
        /\ Kind(b) = "ST" => ex'.rd0 /\ ex'.src0 = GET_LD_ST_REG_PTR(b)
    <3>1. Kind(b) \in AluOps => IS_IMM(b)
      BY <1>1, <1>3, KindLength
    <3> QED
      BY <1>1, <3>1, DecodeFields DEF Next, IInv
  <2>3. ArchCr' = ArchCr /\ ArchSr' = ArchSr
    <3>1. ~Reading' /\ ~restore_lower'
      BY <1>1, <1>4, Entered
    <3>2. ArchSr' = sr_next'
      BY <3>1 DEF ArchSr
    <3> QED
      BY <1>1, <1>4, <3>2, FlagsSettle, ControlSettles
  <2>4. Kind(b) \in {"JMP", "CALL"} =>
          ex'.ctrl = IF Taken(ArchCr, ArchSr) THEN Kind(b) ELSE "EXEC_NOP"
    <3>1. SUFFICES ASSUME Kind(b) \in {"JMP", "CALL"}
                   PROVE  ex'.ctrl = IF Taken(ArchCr, ArchSr) THEN Kind(b) ELSE "EXEC_NOP"
      OBVIOUS
    <3>2. exec_ctrl_next \in {Kind(b), "EXEC_NOP"}
      BY <1>1, <3>1 DEF exec_ctrl_next, AluOps
    <3>3. exec_ctrl_next # "EXEC_NOP" <=> Taken(ArchCr, ArchSr)
      BY <1>1, <3>1 DEF BranchSeesLatestFlags, FirstByte
    <3> QED
      BY <1>6, <3>1, <3>2, <3>3
  <2>5. ex'.ctrl = "CALL" => ret_addr0' = PC' % 256 /\ ret_addr1' = PC' \div 256
    <3>1. PC' = next_addr
      BY <1>1, <1>2, PcAtFirst DEF next_addr
    <3> QED
      BY <1>6, <3>1 DEF Next, Execute, latch_ret_addr
  <2> QED
    BY <2>1, <2>2, <2>3, <2>4, <2>5 DEF StartedWith
<1> QED
  BY <1>1, <1>5, <1>6, <1>7, <1>8, <1>9, <1>10 DEF HasSecondByte

LEMMA NextFullyDecoded ==
  ASSUME IInv, IsaInv, Next, ~halted, ~halted'
  PROVE  FullyDecoded'
<1> SUFFICES ASSUME ~imm_mode', ex'.en
             PROVE  /\ ex'.ctrl \in AluOps \cup {"RET", "EXEC_NOP"}
                    /\ ex'.ctrl \in AluOps => ex'.rd0 /\ ex'.rd1
  BY DEF FullyDecoded
<1> PICK b : b = curr_inst
  OBVIOUS
<1>1. idecode_en /\ ~imm_mode /\ ex'.ctrl = exec_ctrl_next
  BY DecodeType DEF Next, IInv
<1>2. b \in BYTE /\ ~HasSecondByte(b) /\ Kind(b) # "HALT"
  BY <1>1, CurrentByte, Entered DEF IInv, FirstByte
<1>3. Kind(b) \in AluOps \cup CrOps \cup {"RET", "NOP", "USR"}
  BY <1>2, KindLength DEF Kinds
<1>4. exec_ctrl_next \in AluOps \cup {"RET", "EXEC_NOP"}
      /\ (exec_ctrl_next \in AluOps => Kind(b) \in AluOps)
  BY <1>1, <1>3 DEF exec_ctrl_next, AluOps, CrOps
<1>5. Kind(b) \in AluOps => ex'.rd0 /\ ex'.rd1
  <2>1. Kind(b) \in AluOps => ~IS_IMM(b)
    BY <1>2, KindLength
  <2> QED
    BY <1>1, <2>1, DecodeFields DEF Next, IInv
<1> QED
  BY <1>1, <1>4, <1>5

\* Every clock edge keeps what the refinement rests on.
LEMMA IsaInductive ==
  ASSUME IInv, IsaInv, [Next]_rtlVars, NothingBehindHalt, BranchSeesLatestFlags
  PROVE  IsaInv'
<1>1. CASE Next
  <2>1. halted => halted'
    BY <1>1 DEF Next, Idecode
  <2>2. ~halted' => ReturnStages' /\ Fetched' /\ HalfDecoded' /\ FullyDecoded'
    BY <1>1, <2>1, NextReturns, IsaReturns, NextFetched, NextHalfDecoded, NextFullyDecoded
  <2> QED
    BY <1>1, <2>2, NextFlags, NextStopped DEF IsaInv
<1>2. CASE UNCHANGED rtlVars
  <2> USE <1>2 DEF rtlVars, fetchRegs, decodeRegs, execRegs, fileRegs
  <2>1. ArchCr' = ArchCr /\ ArchSr' = ArchSr
    BY DEF ArchCr, ArchSr, cr_base, cr_update_en, m_wr_data, Retiring, Reading, execute_en,
       ReadingResult, ReadPort, reg_wr_en, reg_wr_sel, reg_wr_data, alu_result, src1_data,
       load_data, m_rd_data, m_rd, m_addr, mapped_access, stack_addr, restore_lower,
       restore_upper, sr_next
  <2>2. ByteAt(Back(1))' = ByteAt(Back(1)) /\ ByteAt(Back(2))' = ByteAt(Back(2))
    BY DEF ByteAt, Back
  <2>3. ReturnStages' <=> ReturnStages
    BY DEF ReturnStages, NoReturn, PopsLower, PopsUpper, Redirects, Masked
  <2>4. Fetched' <=> Fetched
    BY <2>2 DEF Fetched, NoReturn
  <2>5. HalfDecoded' <=> HalfDecoded
    BY <2>1, <2>2 DEF HalfDecoded, StartedWith, NoReturn
  <2>6. FullyDecoded' <=> FullyDecoded
    BY DEF FullyDecoded
  <2> QED
    BY <2>3, <2>4, <2>5, <2>6 DEF IsaInv, Stopped
<1> QED
  BY <1>1, <1>2

-----------------------------------------------------------------------------
(* Edges at which the abstract machine stands still.                       *)

\* Execute and the register file are given nothing to do behind a HALT.
LEMMA StoppedStutters ==
  ASSUME IInv, IsaInv, Next, halted, NothingBehindHalt
  PROVE  UNCHANGED Arch!isaVars
<1>1. ~execute_en /\ ~execute_en' /\ halted' /\ ArchPc' = ArchPc
  BY PcStopped DEF execute_en
<1>2. ~Reading /\ ~Reading' /\ ~restore_lower /\ ~restore_lower'
  BY <1>1 DEF Reading, restore_lower
<1>3. \A ctrls : ~Retiring(ctrls)'
  BY <1>1, Retired DEF Next
<1>4. ~store_upper /\ ~store_lower /\ ~store_upper' /\ ~store_lower'
  <2>1. ~store_upper /\ ~store_lower
    BY DEF IsaInv, Stopped, IInv, BusProtocol
  <2> QED
    BY <2>1 DEF Next, Execute, NothingBehindHalt
<1>5. ArchRegs' = ArchRegs
  BY <1>2, <1>3 DEF ArchRegs, Next, RegisterFile, reg_wr_en
<1>6. ArchSr' = ArchSr
  BY <1>2, <1>3 DEF ArchSr, Next, Execute, sr_next
<1>7. ArchCr' = ArchCr
  BY <1>3 DEF ArchCr, Next, Idecode, cr_base, cr_update_en, NothingBehindHalt
<1>8. ArchMem' = ArchMem
  BY <1>3, <1>4 DEF ArchMem, Next, Memories, m_wr
<1>9. ArchSp' = ArchSp
  BY <1>2, <1>3, <1>4 DEF ArchSp, Next, Execute, sp_next, restore_upper
<1> QED
  BY <1>1, <1>5, <1>6, <1>7, <1>8, <1>9 DEF Arch!isaVars, Next, Memories

\* What the program sees after an edge that decodes no second byte.
LEMMA Settled ==
  ASSUME IInv, IsaInv, Next, ~halted, ~imm_mode
  PROVE  /\ inst_mem' = inst_mem /\ ArchMem' = ArchMem
         /\ ~Reading' => ArchRegs' = ArchRegs
         /\ ~Reading' /\ ~restore_lower' => ArchSr' = ArchSr
         /\ Reading' =>
              /\ ArchRegs' = [ArchRegs EXCEPT ![ex'.dst] = ReadingResult' % 256]
              /\ ArchSr' = AluStatus(ReadingResult')
         /\ restore_lower' => ArchSr' = 0
         /\ ArchCr' = IF FirstByte(CrOps) THEN CrAfter(Kind(curr_inst), ArchCr) ELSE ArchCr
         /\ ArchSp' = IF FirstByte({"RET"}) THEN (ArchSp + 254) % 256 ELSE ArchSp
<1>1. ArchRegs' = IF Reading' THEN [RegsDone' EXCEPT ![ex'.dst] = ReadingResult' % 256]
                  ELSE RegsDone'
  BY DEF ArchRegs, RegsDone
<1>2. /\ Reading' => ArchSr' = AluStatus(ReadingResult')
      /\ ~Reading' /\ restore_lower' => ArchSr' = 0
      /\ ~Reading' /\ ~restore_lower' => ArchSr' = sr_next'
  BY DEF ArchSr, Reading, restore_lower, AluOps
<1>3. restore_lower' => ~Reading'
  BY DEF Reading, restore_lower, AluOps
<1> QED
  BY <1>1, <1>2, <1>3, RegsSettle, FlagsSettle, ControlSettles, MemorySettles,
     StackSettles DEF Next, Memories

\* Nothing of the program is decoded.
LEMMA WaitingStutters ==
  ASSUME IInv, IsaInv, Next, ~halted, ~imm_mode, ~idecode_en \/ ~NoReturn
  PROVE  UNCHANGED Arch!isaVars
<1>1. \A kinds : "NOP" \notin kinds => ~FirstByte(kinds)
  BY WhileReturning, IsaReturns DEF FirstByte
<1>2. ~halted' /\ ~Reading' /\ ~restore_lower'
  BY <1>1, Entered DEF AluOps
<1>3. ~FirstByte(CrOps) /\ ~FirstByte({"RET"})
  BY <1>1 DEF CrOps
<1> QED
  BY <1>2, <1>3, Settled, PcWaits DEF Arch!isaVars

\* The first byte of an instruction of two is decoded.
LEMMA FirstOfTwoStutters ==
  ASSUME IInv, IsaInv, Next, ~halted, ~imm_mode, idecode_en, NoReturn,
         HasSecondByte(curr_inst)
  PROVE  UNCHANGED Arch!isaVars
<1>1. curr_inst \in BYTE /\ Kind(curr_inst) \notin CrOps \cup {"RET", "HALT"}
  BY CurrentByte, KindLength DEF IInv
<1>2. ~halted' /\ ~Reading' /\ ~restore_lower' /\ imm_mode' /\ ~FirstByte({"RET"})
      /\ ~FirstByte(CrOps)
  BY <1>1, Entered DEF FirstByte
<1>3. NoReturn' /\ ReturnStages'
  BY <1>2, NextReturns, IsaReturns
<1>4. ~Returning'
  BY <1>2, <1>3 DEF Returning, ReturnStages, NoReturn, restore_upper, Retiring
<1>5. ArchPc' = ArchPc
  BY <1>2, <1>4, PcAtFirst DEF ArchPc
<1> QED
  BY <1>2, <1>5, Settled DEF Arch!isaVars

-----------------------------------------------------------------------------
(* Edges that decode the only byte of an instruction.                      *)

\* The instruction the abstract machine is at. The RTL fetches from all
\* addresses and executes all instructions.
LEMMA Instruction ==
  ASSUME ~halted, ArchPc \in PcSpace, NEW b, b = ByteAt(ArchPc)
  PROVE  /\ Arch!First = b
         /\ Arch!Second = ByteAt((ArchPc + 1) % PC_SPACE)
         /\ \A k : Arch!Plus(k) = (ArchPc + k) % PC_SPACE
         /\ Arch!Length = IF HasSecondByte(b) THEN 2 ELSE 1
         /\ \A kinds : Arch!Executes(kinds) <=> Kind(b) \in kinds
<1>1. /\ Arch!First = b
      /\ Arch!Second = ByteAt((ArchPc + 1) % PC_SPACE)
      /\ \A k : Arch!Plus(k) = (ArchPc + k) % PC_SPACE
  BY SameKind DEF Arch!First, Arch!Second, Arch!ByteAt, Arch!Plus, ByteAt
<1>2. Arch!Length = IF HasSecondByte(b) THEN 2 ELSE 1
  BY <1>1, SameKind DEF Arch!Length
<1>3. ~Arch!Faulty
  <2>1. Arch!LastFetched \in {ArchPc, ArchPc + 1, ArchPc + 2}
    <3>1. ArchPc + Arch!Length \in {ArchPc + 1, ArchPc + 2}
      BY <1>2
    <3> QED
      BY <3>1 DEF Arch!LastFetched
  <2> QED
    BY <2>1, PcAssumption DEF Arch!Faulty, PcSpace
<1> QED
  BY <1>1, <1>2, <1>3, SameKind DEF Arch!Executes

\* The flags the program sees are ones the ALU leaves.
LEMMA ArchFlags ==
  ASSUME IsaInv
  PROVE  ArchSr \in FlagValues
<1>1. sr_next \in FlagValues
  BY FlagFacts DEF sr_next, IsaInv, FlagValues
<1> QED
  BY <1>1, FlagFacts DEF ArchSr, FlagValues

\* After the only byte of an instruction that is no RET the program is at the
\* next one.
LEMMA PcAfterOne ==
  ASSUME IInv, IsaInv, Next, ~halted, ~imm_mode, idecode_en, NoReturn,
         ~HasSecondByte(curr_inst), Kind(curr_inst) # "RET"
  PROVE  ArchPc' = (ArchPc + 1) % PC_SPACE
<1>1. ArchPc = Back(1) /\ Back(1)' = PC /\ idecode_en'
  BY PcAtFirst
<1>2. PC = (ArchPc + 1) % PC_SPACE
  BY <1>1, BackFacts
<1>3. ~imm_mode'
  BY Entered DEF IInv, TypeOK
<1>4. CASE halted'
  BY <1>1, <1>2, <1>4 DEF ArchPc
<1>5. CASE ~halted'
  <2>1. NoReturn' /\ ReturnStages'
    BY <1>5, NextReturns, IsaReturns DEF FirstByte
  <2>2. ~restore_lower'
    BY Entered DEF FirstByte
  <2>3. ~Returning' /\ ~restore_qq'
    BY <2>1, <2>2 DEF Returning, ReturnStages, NoReturn, restore_upper, Retiring
  <2> QED
    BY <1>1, <1>2, <1>3, <1>5, <2>3 DEF ArchPc
<1> QED
  BY <1>4, <1>5

\* An instruction that computes nothing: HALT, a control instruction, NOP.
LEMMA ControlStep ==
  ASSUME IInv, IsaInv, Next, ~halted, ~imm_mode, idecode_en, NoReturn,
         Kind(curr_inst) \in CrOps \cup {"NOP", "USR", "HALT"}
  PROVE  Arch!Next
<1> PICK b : b = curr_inst
  OBVIOUS
<1>1. ArchPc \in PcSpace /\ b = ByteAt(ArchPc)
  BY PcAtFirst, BackFacts
<1>2. ~HasSecondByte(b) /\ b \in BYTE
  BY CurrentByte, KindLength DEF IInv
<1>3. /\ Kind(b) \notin AluOps \cup {"RET"}
      /\ Kind(b) \in CrOps => Kind(b) \notin {"NOP", "USR", "HALT"}
  BY DEF AluOps, CrOps
<1>4. ArchPc' = (ArchPc + 1) % PC_SPACE
  BY <1>2, <1>3, PcAfterOne
<1>5. ~Reading' /\ ~restore_lower' /\ (halted' <=> Kind(b) = "HALT")
      /\ ~FirstByte({"RET"}) /\ (FirstByte(CrOps) <=> Kind(b) \in CrOps)
  BY <1>3, Entered DEF FirstByte
<1>6. UNCHANGED <<inst_mem, ArchMem, ArchRegs, ArchSr, ArchSp>>
      /\ ArchCr' = IF Kind(b) \in CrOps THEN CrAfter(Kind(b), ArchCr) ELSE ArchCr
  BY <1>5, Settled
<1>7. CASE Kind(b) \in {"NOP", "USR"}
  <2>1. ~halted' /\ Kind(b) \notin CrOps
    BY <1>5, <1>7 DEF CrOps
  <2>2. Arch!Nothing
    BY <1>1, <1>2, <1>4, <1>6, <1>7, <2>1, Instruction DEF Arch!Nothing, Arch!Continue
  <2> QED
    BY <2>2 DEF Arch!Next
<1>8. CASE Kind(b) = "HALT"
  <2>1. halted' /\ Kind(b) \notin CrOps
    BY <1>5, <1>8 DEF CrOps
  <2>2. Arch!Halt
    BY <1>1, <1>2, <1>4, <1>6, <1>8, <2>1, Instruction DEF Arch!Halt
  <2> QED
    BY <2>2 DEF Arch!Next
<1>9. CASE Kind(b) \in CrOps
  <2>1. ~halted'
    BY <1>3, <1>5, <1>9
  <2>2. Arch!Control
    BY <1>1, <1>2, <1>4, <1>6, <1>9, <2>1, Instruction, SameKind, SameAlu
    DEF Arch!Control, Arch!Continue
  <2> QED
    BY <2>2 DEF Arch!Next
<1> QED
  BY <1>7, <1>8, <1>9

\* The registers the program sees hold bytes.
LEMMA ArchRegsType ==
  ASSUME IInv
  PROVE  ArchRegs \in [REG -> BYTE]
<1>1. regs \in [REG -> BYTE] /\ reg_wr_data \in BYTE /\ ex.dst \in REG
  BY BusDataType DEF IInv, TypeOK
<1>2. ReadingResult % 256 \in BYTE
  <2>1. ReadPort(ex.rd0, ex.src0) \in BYTE /\ ReadPort(ex.rd1, ex.src1) \in BYTE
    BY ReadPortType DEF IInv, TypeOK
  <2>2. ReadingResult \in WORD
    BY <2>1, AluType DEF ReadingResult
  <2> QED
    BY <2>2, WordBytes
<1> QED
  BY <1>1, <1>2 DEF ArchRegs

\* An ALU instruction on two registers is executed while they are being read.
LEMMA RegisterAluStep ==
  ASSUME IInv, IsaInv, Next, ~halted, ~imm_mode, idecode_en, NoReturn,
         Kind(curr_inst) \in AluOps, ~HasSecondByte(curr_inst)
  PROVE  Arch!Next
<1> PICK b : b = curr_inst
  OBVIOUS
<1> PICK p0 : p0 = GET_REG_PTR0(b)
  OBVIOUS
<1> PICK p1 : p1 = GET_REG_PTR1(b)
  OBVIOUS
<1> PICK r : r = ReadingResult'
  OBVIOUS
<1>1. ArchPc \in PcSpace /\ b = ByteAt(ArchPc)
  BY PcAtFirst, BackFacts
<1>2. b \in BYTE /\ ~IS_IMM(b) /\ p0 \in REG /\ p1 \in REG
  BY CurrentByte, KindLength, PointerType DEF IInv
<1>3. Kind(b) \notin {"RET", "HALT"} \cup CrOps
  BY DEF AluOps, CrOps
<1>4. ArchPc' = (ArchPc + 1) % PC_SPACE /\ ~halted'
  BY <1>3, PcAfterOne, Entered DEF FirstByte
<1>5. Reading' /\ ~FirstByte({"RET"}) /\ ~FirstByte(CrOps)
  BY <1>3, Entered DEF FirstByte
<1>6. /\ ex'.ctrl = Kind(b) /\ ex'.rd0 /\ ex'.rd1 /\ ex'.dst = p1
      /\ Kind(b) = "SUB" => ex'.src0 = p1 /\ ex'.src1 = p0
      /\ Kind(b) # "SUB" => ex'.src0 = p0 /\ ex'.src1 = p1
  <2>1. exec_ctrl_next = Kind(b)
    BY DEF exec_ctrl_next, AluOps
  <2> QED
    BY <1>2, <2>1, DecodeType, DecodeFields DEF Next, IInv
<1> PICK q : q = AluResult(Kind(b), ArchRegs[p1], ArchRegs[p0])
  OBVIOUS
<1>7. r % 256 = q % 256 /\ AluStatus(r) = AluFlags(0, q)
  <2>1. regs' \in [REG -> BYTE]
    BY NextInv DEF IInv, TypeOK
  <2>2. /\ ReadPort(ex.rd0, ex.src0)' = ArchRegs[ex'.src0]
        /\ ReadPort(ex.rd1, ex.src1)' = ArchRegs[ex'.src1]
    BY <1>2, <1>6, <2>1, RegsSettle DEF ReadPort, RegsDone
  <2>3. r = Alu(Kind(b), ArchRegs[ex'.src0], ArchRegs[ex'.src1])
    BY <1>6, <2>2 DEF ReadingResult
  <2>4. ArchRegs[p0] \in BYTE /\ ArchRegs[p1] \in BYTE
    BY <1>2, ArchRegsType
  <2>5. q = AluResult(Kind(b), ArchRegs[ex'.src0], ArchRegs[ex'.src1])
    BY <1>6, <2>4, AluCommutes
  <2> QED
    BY <1>6, <2>3, <2>4, <2>5, AluAgrees
<1>8. /\ UNCHANGED <<inst_mem, ArchMem, ArchCr, ArchSp>>
      /\ ArchRegs' = [ArchRegs EXCEPT ![p1] = q % 256]
      /\ ArchSr' = AluFlags(ArchSr, q)
  BY <1>5, <1>6, <1>7, Settled, ArchFlags, FlagFacts
<1>9. Arch!Alu
  BY <1>1, <1>2, <1>4, <1>7, <1>8, Instruction, SameKind, SameAlu, SameFields
  DEF Arch!Alu, Arch!Continue
<1> QED
  BY <1>9 DEF Arch!Next

\* A RET counts as carried out when it has been decoded: where it leads is in
\* the memory that all instructions before it have left.
LEMMA ReturnStep ==
  ASSUME IInv, IsaInv, Next, ~halted, ~imm_mode, idecode_en, NoReturn,
         Kind(curr_inst) = "RET"
  PROVE  Arch!Next
<1> PICK b : b = curr_inst
  OBVIOUS
<1> DEFINE below(sp) == (StackAddr(ArchCr, sp) + 4095) % 4096
<1>1. ArchPc \in PcSpace /\ b = ByteAt(ArchPc)
  BY PcAtFirst, BackFacts
<1>2. /\ FirstByte({"RET"}) /\ ~FirstByte({"HALT"}) /\ ~FirstByte(AluOps)
      /\ ~FirstByte(CrOps) /\ ~FirstByte({"CALL"})
  BY DEF FirstByte, AluOps, CrOps
<1>3. ~halted' /\ restore_lower' /\ ~Reading'
  BY <1>2, Entered
<1>4. /\ UNCHANGED <<inst_mem, ArchMem, ArchRegs, ArchCr>>
      /\ ArchSp' = (ArchSp + 254) % 256 /\ ArchSr' = 0
  BY <1>2, <1>3, Settled
<1>5. cr' = ArchCr /\ data_mem' = ArchMem
  BY <1>2, MemorySettles DEF Next, Idecode, ArchCr
<1>6. sp_lsb' = ArchSp /\ ~restore_upper'
  <2>1. ~restore_lower /\ ~store_upper
    BY InExecute DEF IsaInv, ReturnStages, NoReturn, restore_lower, execute_en
  <2> QED
    BY <2>1, Retired DEF Next, Execute, ArchSp, restore_upper, restore_lower
<1>7. ArchSp \in BYTE /\ ArchCr \in BYTE /\ IsMemory(ArchMem)
  BY <1>5, <1>6, NextInv, <1>4 DEF IInv, TypeOK
<1>8. /\ below(ArchSp) \in DataAddr /\ below((ArchSp + 255) % 256) \in DataAddr
      /\ (ArchSp + 256) % 256 = ArchSp
  <2>1. \A sp \in BYTE : below(sp) \in DataAddr
    <3>1. \A sp \in BYTE : StackAddr(ArchCr, sp) \in ADDRESS
      BY <1>7, StackAddrType
    <3>2. \A a \in ADDRESS : (a + 4095) % 4096 \in DataAddr
      BY BusAssumption, DataMemAssumption DEF DataAddr, ADDRESS
    <3> QED
      BY <3>1, <3>2
  <2>2. (ArchSp + 255) % 256 \in BYTE /\ (ArchSp + 256) % 256 = ArchSp
    BY <1>7, SMT DEF BYTE
  <2> QED
    BY <1>7, <2>1, <2>2
<1> PICK hi : hi = Read(ArchMem, below((ArchSp + 255) % 256))
  OBVIOUS
<1> PICK lo : lo = Read(ArchMem, below(ArchSp))
  OBVIOUS
<1>9. ArchPc' = (hi * 256 + lo) % PC_SPACE
  <2>1. ArchPc' = ReturnTarget'
    BY <1>3 DEF ArchPc, Returning
  <2>2. ReturnTarget' = ((hi % 16) * 256 + lo) % PC_SPACE
    <3>1. ReturnTarget' =
            ((Read(data_mem', (StackAddr(cr', (sp_lsb' + 255) % 256) + 4095) % 4096) % 16)
               * 256
             + Read(data_mem', (StackAddr(cr', sp_lsb') + 4095) % 4096)) % PC_SPACE
      BY <1>3, <1>6 DEF ReturnTarget
    <3> QED
      BY <1>5, <1>6, <3>1
  <2>3. hi \in BYTE /\ lo \in BYTE
    BY <1>7, ReadType
  <2> QED
    BY <2>1, <2>2, <2>3, PoppedAddress
<1>10. /\ hi \in Arch!LoadOutcomes(ArchMem, Arch!PreviousSlot(2))
       /\ lo \in Arch!LoadOutcomes(ArchMem, Arch!PreviousSlot(1))
  <2>1. /\ Arch!PreviousSlot(2) = below((ArchSp + 255) % 256)
        /\ Arch!PreviousSlot(1) = below(ArchSp)
    <3>1. ArchSp + 257 - 2 = ArchSp + 255 /\ ArchSp + 257 - 1 = ArchSp + 256
      BY <1>7 DEF BYTE
    <3> QED
      BY <1>8, <3>1, SameMemory DEF Arch!PreviousSlot
  <2> QED
    BY <1>8, <2>1, SameMemory
<1>11. Arch!FlagsAfter("RET", TRUE) = 0
  BY ArchFlags, FlagFacts, SameAlu DEF Arch!FlagsAfter
<1>12. Arch!Return
  <2>1. Arch!Executes({"RET"})
    BY <1>1, Instruction
  <2>2. \E h \in Arch!LoadOutcomes(ArchMem, Arch!PreviousSlot(2)),
           l \in Arch!LoadOutcomes(ArchMem, Arch!PreviousSlot(1)) :
             ArchPc' = (h * 256 + l) % PC_SPACE
    BY <1>9, <1>10
  <2> QED
    BY <1>3, <1>4, <1>11, <2>1, <2>2 DEF Arch!Return
<1> QED
  BY <1>12 DEF Arch!Next

-----------------------------------------------------------------------------
(* Edges that decode the second byte of an instruction.                    *)

\* The program is at the first of the two bytes, and what the instructions in
\* front have computed is being written.
LEMMA BeforeSecond ==
  ASSUME IInv, IsaInv, Next, ~halted, imm_mode
  PROVE  /\ idecode_en /\ execute_en /\ NoReturn
         /\ ArchPc \in PcSpace /\ (ArchPc + 2) % PC_SPACE = PC
         /\ prev_inst = ByteAt(ArchPc) /\ curr_inst = ByteAt((ArchPc + 1) % PC_SPACE)
         /\ prev_inst \in BYTE /\ curr_inst \in BYTE
         /\ ~restore_lower /\ ~restore_upper /\ ~Retiring({"ST"}) /\ ~Retiring({"LD"})
         /\ regs' = ArchRegs /\ sr' = ArchSr /\ cr' = ArchCr /\ ArchCr = cr
         /\ ex.ctrl # "CALL" => data_mem' = ArchMem /\ sp_lsb' = ArchSp
<1>1. idecode_en /\ execute_en /\ NoReturn
  BY DEF IInv, BetweenBytes, IsaInv, HalfDecoded, execute_en
<1>2. ~restore_lower /\ ~restore_upper /\ ~ret_addr_en
  BY <1>1 DEF IsaInv, ReturnStages, restore_lower, restore_upper, Retiring, execute_en, NoReturn
<1>3. ArchPc = Back(2)
  BY <1>2 DEF ArchPc, Returning
<1>4. /\ prev_inst = ByteAt(ArchPc)
      /\ curr_inst = ByteAt((ArchPc + 1) % PC_SPACE)
  <2>1. curr_inst = inst_reg /\ inst_reg = ByteAt(Back(1))
    BY <1>1 DEF curr_inst, restore_ongoing, NoReturn, IsaInv, Fetched
  <2> QED
    BY <1>3, <2>1, BackFacts DEF IsaInv, HalfDecoded
<1>5. ~Retiring({"ST"}) /\ ~Retiring({"LD"})
  BY DEF IsaInv, HalfDecoded, Retiring, AluOps
<1>6. ~Reading /\ ~FirstByte(CrOps)
  BY DEF Reading, FirstByte
<1>7. regs' = ArchRegs /\ sr' = ArchSr
  BY <1>2, <1>6 DEF ArchRegs, ArchSr, Next, RegisterFile, Execute
<1>8. cr' = ArchCr /\ ArchCr = cr
  BY <1>5, <1>6 DEF ArchCr, cr_base, cr_update_en, Next, Idecode
<1>9. ex.ctrl # "CALL" => data_mem' = ArchMem /\ sp_lsb' = ArchSp
  <2>1. ex.ctrl # "CALL" => ~store_upper
    BY DEF IInv, BusProtocol
  <2> QED
    BY <1>2, <2>1 DEF ArchMem, ArchSp, Next, Memories, Execute
<1>10. prev_inst \in BYTE /\ curr_inst \in BYTE
  BY CurrentByte DEF IInv, TypeOK
<1> QED
  BY <1>1, <1>2, <1>3, <1>4, <1>5, <1>7, <1>8, <1>9, <1>10, BackFacts

\* The instruction writes back; what it leaves alone is as before.
LEMMA AfterSecond ==
  ASSUME IInv, IsaInv, Next, ~halted, imm_mode
  PROVE  /\ ~halted' /\ ArchPc' = i_addr /\ inst_mem' = inst_mem
         /\ pc_branch <=> ex.ctrl \in {"JMP", "CALL"}
         /\ \A ctrls : Retiring(ctrls)' <=> ex.ctrl \in ctrls
         /\ ex1'.ctrl = ex.ctrl /\ ex1'.dst = ex.dst
         /\ ~store_upper' /\ (store_lower' <=> ex.ctrl = "CALL")
         /\ ~restore_lower' /\ ~restore_upper'
         /\ ArchRegs' = RegsDone' /\ ArchSr' = sr_next' /\ ArchCr' = cr_base'
         /\ ArchSp' = sp_next'
         /\ ArchMem' = IF m_wr' THEN Write(data_mem', m_addr', m_wr_data') ELSE data_mem'
<1>1. /\ idecode_en /\ execute_en /\ NoReturn /\ ~restore_lower /\ ~restore_upper
  BY BeforeSecond
<1>2. ~halted' /\ ~imm_mode' /\ ~ex'.en /\ ex'.ctrl = "EXEC_NOP"
  <2>1. ex'.ctrl = "EXEC_NOP"
    BY <1>1, DecodeType DEF Next, IInv, exec_ctrl_next
  <2> QED
    BY <1>1, <2>1, DecodeType, DecodeModes DEF Next, Idecode, FirstByte, IInv
<1>3. /\ ex1'.ctrl = ex.ctrl /\ ex1'.dst = ex.dst
      /\ \A ctrls : Retiring(ctrls)' <=> ex.ctrl \in ctrls
  BY <1>1, Retired DEF Next
<1>4. ~Reading' /\ ~restore_lower' /\ ~restore_upper'
  <2>1. ex.ctrl # "RET"
    BY <1>1 DEF restore_lower
  <2> QED
    BY <1>2, <1>3, <2>1 DEF Reading, restore_lower, execute_en, restore_upper
<1>5. ~store_upper' /\ (store_lower' <=> ex.ctrl = "CALL")
  <2>1. ~latch_ret_addr
    BY <1>1 DEF latch_ret_addr, exec_ctrl_next
  <2> QED
    BY <2>1 DEF Next, Execute, IInv, BusProtocol, TypeOK
<1>6. ArchPc' = i_addr
  <2>1. NoReturn'
    BY <1>1, <1>2, NextReturns, IsaReturns DEF FirstByte
  <2>2. ~Returning' /\ ~restore_qq'
    BY <1>4, <2>1 DEF Returning, NoReturn
  <2>3. PC' = (i_addr + 1) % PC_SPACE /\ idecode_en'
    BY <1>1, NextPc DEF restore_ongoing, NoReturn
  <2>4. i_addr \in PcSpace
    BY FetchedType DEF IInv, PcSpace
  <2> QED
    BY <1>2, <2>2, <2>3, <2>4, BackPrime DEF ArchPc
<1>7. /\ ArchRegs' = RegsDone' /\ ArchSr' = sr_next' /\ ArchCr' = cr_base'
      /\ ArchSp' = sp_next'
      /\ ArchMem' = IF m_wr' THEN Write(data_mem', m_addr', m_wr_data') ELSE data_mem'
  BY <1>4, <1>5 DEF ArchRegs, RegsDone, ArchSr, ArchCr, ArchSp, ArchMem
<1> QED
  BY <1>1, <1>2, <1>3, <1>4, <1>5, <1>6, <1>7 DEF pc_branch, Next, Memories

LEMMA KeptBySecond ==
  ASSUME IInv, IsaInv, Next, ~halted, imm_mode
  PROVE  /\ ex.ctrl \notin AluOps \cup {"LD", "ST"} => ArchRegs' = ArchRegs
         /\ ex.ctrl \notin AluOps \cup {"JMP", "CALL"} => ArchSr' = ArchSr
         /\ ex.ctrl \in {"JMP", "CALL"} => ArchSr' = 0
         /\ ex.ctrl # "ST" => ArchCr' = ArchCr
         /\ ex.ctrl \notin {"ST", "CALL"} => ArchMem' = ArchMem /\ ArchSp' = ArchSp
         /\ ex.ctrl \notin {"JMP", "CALL"} => ArchPc' = (ArchPc + 2) % PC_SPACE
<1>1. \A ctrls : Retiring(ctrls)' <=> ex.ctrl \in ctrls
  BY AfterSecond
<1>2. ex.ctrl # "RET"
  BY BeforeSecond DEF restore_lower
<1>3. ex.ctrl \notin AluOps \cup {"LD", "ST"} => ArchRegs' = ArchRegs
  <2>1. ex.ctrl \notin AluOps \cup {"LD", "ST"} => ~reg_wr_en'
    BY <1>1 DEF reg_wr_en, AluOps
  <2> QED
    BY <2>1, BeforeSecond, AfterSecond DEF RegsDone
<1>4. /\ ex.ctrl \notin AluOps \cup {"JMP", "CALL"} => ArchSr' = ArchSr
      /\ ex.ctrl \in {"JMP", "CALL"} => ArchSr' = 0
  <2>1. /\ ex.ctrl \notin AluOps \cup {"JMP", "CALL"} => sr_next' = sr'
        /\ ex.ctrl \in {"JMP", "CALL"} => sr_next' = 0
    BY <1>1, <1>2 DEF sr_next, AluOps
  <2> QED
    BY <2>1, BeforeSecond, AfterSecond
<1>5. ex.ctrl # "ST" => ArchCr' = ArchCr
  BY <1>1, BeforeSecond, AfterSecond DEF cr_base, cr_update_en
<1>6. ex.ctrl \notin {"ST", "CALL"} => ArchMem' = ArchMem /\ ArchSp' = ArchSp
  <2>1. ex.ctrl \notin {"ST", "CALL"} => ~m_wr' /\ sp_next' = sp_lsb'
    BY <1>1, AfterSecond DEF m_wr, sp_next
  <2> QED
    BY <2>1, BeforeSecond, AfterSecond
<1>7. ex.ctrl \notin {"JMP", "CALL"} => ArchPc' = (ArchPc + 2) % PC_SPACE
  BY BeforeSecond, AfterSecond DEF i_addr
<1> QED
  BY <1>3, <1>4, <1>5, <1>6, <1>7

\* What the second byte adds to the instruction.
LEMMA SecondByte ==
  ASSUME IInv, IsaInv, Next, ~halted, imm_mode
  PROVE  /\ ex'.imm_vld /\ ex'.addr = exec_addr_next
         /\ Kind(prev_inst) \in AluOps => ex'.imm = curr_inst
         /\ Kind(prev_inst) \in {"JMP", "CALL", "LD", "ST"} =>
              exec_addr_next = Address(prev_inst, curr_inst)
         /\ ex.rd0 => rd_data_0' = ArchRegs[ex.src0]
<1>1. idecode_en
  BY BeforeSecond
<1>2. /\ ex'.imm_vld /\ ex'.addr = exec_addr_next
      /\ Kind(prev_inst) \in AluOps => ex'.imm = curr_inst
  <2>1. Kind(prev_inst) \in AluOps => Kind(prev_inst) \notin {"LD", "ST"}
    BY DEF AluOps
  <2> QED
    BY <1>1, <2>1, DecodeFields DEF Next, IInv
<1>3. Kind(prev_inst) \in {"JMP", "CALL", "LD", "ST"} =>
        exec_addr_next = Address(prev_inst, curr_inst)
  BY <1>1 DEF exec_addr_next
<1>4. ex.rd0 => rd_data_0' = ArchRegs[ex.src0]
  <2>1. ex.src0 \in REG /\ regs \in [REG -> BYTE]
    BY DEF IInv, TypeOK
  <2>2. ex.rd0 => ReadPort(ex.rd0, ex.src0) = RegsDone[ex.src0]
    BY <2>1 DEF ReadPort, RegsDone
  <2>3. RegsDone = ArchRegs
    BY BeforeSecond DEF RegsDone, Next, RegisterFile
  <2> QED
    BY <2>2, <2>3 DEF Next, RegisterFile
<1> QED
  BY <1>2, <1>3, <1>4

\* An ALU instruction with a constant.
LEMMA ImmediateAluStep ==
  ASSUME IInv, IsaInv, Next, ~halted, imm_mode, Kind(prev_inst) \in AluOps
  PROVE  Arch!Next
<1> PICK b : b = prev_inst
  OBVIOUS
<1> PICK r : r = alu_result'
  OBVIOUS
<1>1. /\ ArchPc \in PcSpace /\ b = ByteAt(ArchPc) /\ b \in BYTE
      /\ curr_inst = ByteAt((ArchPc + 1) % PC_SPACE)
  BY BeforeSecond
<1>2. /\ ex.ctrl = Kind(b) /\ ex.rd0 /\ ex.src0 = GET_REG_PTR0(b)
      /\ ex.dst = GET_REG_PTR1(b) /\ HasSecondByte(b)
  BY DEF IsaInv, HalfDecoded, StartedWith
<1>3. IS_IMM(b)
  BY <1>1, <1>2, KindLength
<1>4. Kind(b) \notin {"JMP", "CALL", "ST", "LD"}
  BY DEF AluOps
<1> PICK q : q = AluResult(Kind(b), ArchRegs[GET_REG_PTR0(b)], curr_inst)
  OBVIOUS
<1>5. r % 256 = q % 256 /\ AluStatus(r) = AluFlags(0, q)
  <2>1. r = Alu(Kind(b), ArchRegs[GET_REG_PTR0(b)], curr_inst)
    BY <1>2, SecondByte, AfterSecond DEF alu_result, src1_data
  <2>2. ArchRegs[GET_REG_PTR0(b)] \in BYTE /\ curr_inst \in BYTE
    BY <1>1, ArchRegsType, PointerType, CurrentByte DEF IInv
  <2> QED
    BY <2>1, <2>2, AluAgrees
<1>6. Retiring(AluOps)' /\ ~Retiring({"ST"})' /\ reg_wr_en'
  BY <1>2, <1>4, AfterSecond DEF reg_wr_en, AluOps
<1>7. /\ ArchRegs' = [ArchRegs EXCEPT ![GET_REG_PTR1(b)] = q % 256]
      /\ ArchSr' = AluFlags(ArchSr, q)
  <2>1. reg_wr_sel' = GET_REG_PTR1(b)
    BY <1>2, <1>6, AfterSecond DEF reg_wr_sel
  <2>2. reg_wr_data' = r % 256
    <3>1. ~Retiring({"LD"})'
      BY <1>2, <1>4, AfterSecond
    <3> QED
      BY <1>6, <3>1 DEF reg_wr_data
  <2>3. sr_next' = AluStatus(r)
    <3>1. ~Retiring({"JMP", "CALL", "RET"})'
      BY <1>2, AfterSecond DEF AluOps
    <3> QED
      BY <1>6, <3>1 DEF sr_next
  <2> QED
    BY <1>5, <1>6, <2>1, <2>2, <2>3, BeforeSecond, AfterSecond, ArchFlags, FlagFacts
    DEF RegsDone
<1>8. /\ UNCHANGED <<inst_mem, ArchMem, ArchCr, ArchSp>> /\ ~halted'
      /\ ArchPc' = (ArchPc + 2) % PC_SPACE
  BY <1>2, <1>4, KeptBySecond, AfterSecond
<1>9. Arch!Alu
  BY <1>1, <1>2, <1>3, <1>5, <1>7, <1>8, Instruction, SameKind, SameAlu, SameFields
  DEF Arch!Alu, Arch!Continue
<1> QED
  BY <1>9 DEF Arch!Next

\* The address of a memory access lies inside the memory, indexed or not.
LEMMA AccessAddress ==
  ASSUME IInv, IsaInv, Next, ~halted, imm_mode, ex.ctrl \in {"LD", "ST"},
         NEW a \in ADDRESS, ex'.addr = a
  PROVE  /\ m_addr' = Arch!Effective(a) /\ Arch!Effective(a) \in DataAddr
         /\ mapped_access' <=> IF ex.ctrl = "LD" THEN a < 8 ELSE a < 7
<1>1. ~store_lower' /\ ~store_upper' /\ ~restore_lower' /\ ~restore_upper'
  BY AfterSecond
<1>2. regs' = ArchRegs /\ cr' = ArchCr
  BY BeforeSecond
<1>3. PICK x \in BYTE : x = ArchRegs[3]
  BY ArchRegsType DEF REG
<1>4. a + 0 = a /\ (a + x) % 4096 = a + x
  BY SMT DEF ADDRESS, BYTE
<1>5. Arch!Effective(a) = IF Bit(ArchCr, CR_ADR_MODE) = 1 THEN a + x ELSE a
  BY <1>3, <1>4, SameFields DEF Arch!Effective
<1>6. m_addr' = Arch!Effective(a)
  BY <1>1, <1>2, <1>3, <1>4, <1>5 DEF m_addr
<1>7. Arch!Effective(a) \in DataAddr
  <2>1. a \in DataAddr /\ a + x \in DataAddr
    BY BusAssumption, DataMemAssumption, SMT DEF DataAddr, ADDRESS, BYTE
  <2> QED
    BY <1>5, <2>1
<1>8. mapped_access' <=> IF ex.ctrl = "LD" THEN a < 8 ELSE a < 7
  BY AfterSecond DEF mapped_access
<1> QED
  BY <1>6, <1>7, <1>8

\* A LOAD of a register, of the bus nobody drives, or of the memory.
LEMMA LoadStep ==
  ASSUME IInv, IsaInv, Next, ~halted, imm_mode, Kind(prev_inst) = "LD"
  PROVE  Arch!Next
<1> PICK b : b = prev_inst
  OBVIOUS
<1> PICK a : a = Address(b, curr_inst)
  OBVIOUS
<1> PICK v : v = load_data'
  OBVIOUS
<1>1. /\ ArchPc \in PcSpace /\ b = ByteAt(ArchPc) /\ b \in BYTE
      /\ curr_inst = ByteAt((ArchPc + 1) % PC_SPACE)
  BY BeforeSecond
<1>2. ex.ctrl = "LD" /\ ex.dst = GET_LD_ST_REG_PTR(b) /\ HasSecondByte(b)
  BY DEF IsaInv, HalfDecoded, StartedWith
<1>3. a \in ADDRESS /\ ex'.addr = a
  BY <1>1, BeforeSecond, AddressType, SecondByte
<1>4. Retiring({"LD"})' /\ ~Retiring(AluOps)' /\ ~Retiring({"ST"})'
  BY <1>2, AfterSecond DEF AluOps
<1>5. v \in CASE a < 7 -> {Arch!Register(a)}
              [] a = 7 -> STRAY_BYTES \cup {FLOATING_BUS}
              [] OTHER -> Arch!LoadOutcomes(ArchMem, Arch!Effective(a))
  <2>1. /\ regs' = ArchRegs /\ cr' = ArchCr /\ sr' = ArchSr
        /\ data_mem' = ArchMem /\ sp_lsb' = ArchSp
    BY <1>2, BeforeSecond
  <2>2. CASE a < 7
    <3>1. a \in REG \cup {4, 5, 6}
      BY <1>3, <2>2 DEF REG, ADDRESS
    <3>2. v = Arch!Register(a)
      BY <1>3, <2>1, <3>1 DEF load_data, Arch!Register, REG
    <3> QED
      BY <2>2, <3>2
  <2>3. CASE a = 7
    <3>1. mapped_access'
      BY <1>2, <1>3, <2>3, AccessAddress
    <3>2. v = FLOATING_BUS
      BY <1>3, <2>3, <3>1 DEF load_data, m_rd_data, m_rd, REG
    <3> QED
      BY <2>3, <3>2
  <2>4. CASE a > 7
    <3>1. m_rd' /\ m_addr' = Arch!Effective(a) /\ Arch!Effective(a) \in DataAddr
      <4>1. ~(a < 8)
        BY <1>3, <2>4 DEF ADDRESS
      <4>2. /\ ~mapped_access' /\ m_addr' = Arch!Effective(a)
            /\ Arch!Effective(a) \in DataAddr
        BY <1>2, <1>3, <4>1, AccessAddress
      <4> QED
        BY <1>4, <4>2 DEF m_rd
    <3>2. v = Read(data_mem', m_addr')
      BY <1>3, <2>4, <3>1 DEF load_data, m_rd_data, REG
    <3>3. v \in Arch!LoadOutcomes(ArchMem, Arch!Effective(a))
      BY <2>1, <3>1, <3>2, SameMemory
    <3>4. ~(a < 7) /\ a # 7
      BY <1>3, <2>4 DEF ADDRESS
    <3> QED
      BY <3>3, <3>4
  <2> QED
    BY <1>3, <2>2, <2>3, <2>4 DEF ADDRESS
<1>6. ArchRegs' = [ArchRegs EXCEPT ![GET_LD_ST_REG_PTR(b)] = v]
  <2>1. /\ reg_wr_en' /\ reg_wr_data' = v
        /\ reg_wr_sel' = GET_LD_ST_REG_PTR(b)
    BY <1>2, <1>4, AfterSecond DEF reg_wr_en, reg_wr_sel, reg_wr_data, AluOps
  <2> QED
    BY <2>1, BeforeSecond, AfterSecond DEF RegsDone
<1>7. /\ UNCHANGED <<inst_mem, ArchMem, ArchSr, ArchCr, ArchSp>> /\ ~halted'
      /\ ArchPc' = (ArchPc + 2) % PC_SPACE
  BY <1>2, KeptBySecond, AfterSecond DEF AluOps
<1>8. Arch!Load
  <2>1. Arch!Executes({"LD"}) /\ Arch!Continue
    BY <1>1, <1>2, <1>7, Instruction DEF Arch!Continue
  <2>2. /\ Arch!Address(Arch!First, Arch!Second) = a
        /\ Arch!GET_LD_ST_REG_PTR(Arch!First) = GET_LD_ST_REG_PTR(b)
    BY <1>1, Instruction, SameFields
  <2> QED
    BY <1>5, <1>6, <1>7, <2>1, <2>2 DEF Arch!Load
<1> QED
  BY <1>8 DEF Arch!Next

\* A STORE to a register or to the memory; SR cannot be stored to.
LEMMA StoreStep ==
  ASSUME IInv, IsaInv, Next, ~halted, imm_mode, Kind(prev_inst) = "ST"
  PROVE  Arch!Next
<1> PICK b : b = prev_inst
  OBVIOUS
<1> PICK a : a = Address(b, curr_inst)
  OBVIOUS
<1> PICK v : v = ArchRegs[GET_LD_ST_REG_PTR(b)]
  OBVIOUS
<1>1. /\ ArchPc \in PcSpace /\ b = ByteAt(ArchPc) /\ b \in BYTE
      /\ curr_inst = ByteAt((ArchPc + 1) % PC_SPACE)
  BY BeforeSecond
<1>2. /\ ex.ctrl = "ST" /\ ex.rd0 /\ ex.src0 = GET_LD_ST_REG_PTR(b)
      /\ HasSecondByte(b)
  BY DEF IsaInv, HalfDecoded, StartedWith
<1>3. a \in ADDRESS /\ ex'.addr = a
  BY <1>1, BeforeSecond, AddressType, SecondByte
<1>4. Retiring({"ST"})' /\ ~Retiring(AluOps)' /\ ~Retiring({"LD"})'
  BY <1>2, AfterSecond DEF AluOps
<1>5. /\ regs' = ArchRegs /\ cr' = ArchCr
      /\ data_mem' = ArchMem /\ sp_lsb' = ArchSp
      /\ ~store_lower' /\ ~store_upper' /\ ~restore_lower' /\ ~restore_upper'
  BY <1>2, BeforeSecond, AfterSecond
<1>6. m_wr_data' = v
  BY <1>2, <1>5, SecondByte DEF m_wr_data
<1>7. ArchRegs' = IF a \in REG THEN [ArchRegs EXCEPT ![a] = v] ELSE ArchRegs
  <2>1. /\ reg_wr_en' <=> a \in REG
        /\ a \in REG => reg_wr_sel' = a /\ reg_wr_data' = v
    BY <1>3, <1>4, <1>6, AfterSecond DEF reg_wr_en, reg_wr_sel, reg_wr_data, Retiring, AluOps
  <2> QED
    BY <1>5, <2>1, AfterSecond DEF RegsDone
<1>8. ArchCr' = IF a = 4 THEN v ELSE ArchCr
  BY <1>3, <1>4, <1>5, <1>6, AfterSecond DEF cr_base, cr_update_en
<1>9. ArchSp' = IF a = 6 THEN v ELSE ArchSp
  BY <1>3, <1>4, <1>5, <1>6, AfterSecond DEF sp_next
<1>10. ArchMem' = IF a < 7 THEN ArchMem ELSE Write(ArchMem, Arch!Effective(a), v)
  <2>1. /\ m_wr' <=> ~(a < 7)
        /\ m_addr' = Arch!Effective(a)
    BY <1>2, <1>3, <1>4, <1>5, AccessAddress DEF m_wr
  <2> QED
    BY <1>5, <1>6, <2>1, AfterSecond
<1>11. /\ UNCHANGED <<inst_mem, ArchSr>> /\ ~halted'
       /\ ArchPc' = (ArchPc + 2) % PC_SPACE
  BY <1>2, KeptBySecond, AfterSecond DEF AluOps
<1>12. /\ Arch!Executes({"ST"}) /\ Arch!Continue
       /\ Arch!Address(Arch!First, Arch!Second) = a
       /\ Arch!GET_LD_ST_REG_PTR(Arch!First) = GET_LD_ST_REG_PTR(b)
  BY <1>1, <1>2, <1>11, Instruction, SameFields DEF Arch!Continue
<1>13. CASE a = 5
  <2>1. UNCHANGED <<ArchRegs, ArchCr, ArchSp, ArchMem>>
    BY <1>7, <1>8, <1>9, <1>10, <1>13 DEF REG
  <2>2. Arch!Nothing
    BY <1>11, <1>12, <1>13, <2>1 DEF Arch!Nothing
  <2> QED
    BY <2>2 DEF Arch!Next
<1>14. CASE a # 5
  <2>1. <<ArchMem', inst_mem'>> \in
           IF a < 7 THEN {<<ArchMem, inst_mem>>}
           ELSE Arch!StoreOutcomes(ArchMem, inst_mem, Arch!Effective(a), v)
    BY <1>2, <1>3, <1>10, <1>11, AccessAddress, SameMemory
  <2>2. \E m \in IF a < 7 THEN {<<ArchMem, inst_mem>>}
                 ELSE Arch!StoreOutcomes(ArchMem, inst_mem, Arch!Effective(a), v) :
          ArchMem' = m[1] /\ inst_mem' = m[2]
    BY <2>1
  <2>3. Arch!Store
    BY <1>7, <1>8, <1>9, <1>11, <1>12, <1>14, <2>2, SameKind DEF Arch!Store
  <2> QED
    BY <2>3 DEF Arch!Next
<1> QED
  BY <1>13, <1>14

\* A JMP, taken or not: its condition was decided with its first byte.
LEMMA JumpStep ==
  ASSUME IInv, IsaInv, Next, ~halted, imm_mode, Kind(prev_inst) = "JMP"
  PROVE  Arch!Next
<1> PICK b : b = prev_inst
  OBVIOUS
<1>1. /\ ArchPc \in PcSpace /\ b = ByteAt(ArchPc)
      /\ curr_inst = ByteAt((ArchPc + 1) % PC_SPACE)
  BY BeforeSecond
<1>2. /\ ex.ctrl = IF Taken(ArchCr, ArchSr) THEN "JMP" ELSE "EXEC_NOP"
      /\ HasSecondByte(b)
  BY DEF IsaInv, HalfDecoded, StartedWith
<1>3. /\ UNCHANGED <<inst_mem, ArchRegs, ArchCr, ArchMem, ArchSp>> /\ ~halted'
  BY <1>2, KeptBySecond, AfterSecond DEF AluOps
<1>4. CASE Taken(ArchCr, ArchSr)
  <2>1. ArchPc' = Address(b, curr_inst) % PC_SPACE
    BY <1>2, <1>4, AfterSecond, SecondByte DEF i_addr
  <2>2. ArchSr' = 0
    BY <1>2, <1>4, KeptBySecond
  <2>3. Arch!FlagsAfter("JMP", TRUE) = 0
    BY ArchFlags, FlagFacts, SameAlu DEF Arch!FlagsAfter
  <2>4. Arch!Executes({"JMP"}) /\ Arch!Target = Address(b, curr_inst) % PC_SPACE
    BY <1>1, Instruction, SameFields DEF Arch!Target
  <2>5. Arch!Taken(ArchCr, ArchSr) = TRUE
    BY <1>4, SameAlu DEF Arch!Taken
  <2>6. Arch!Jump
    BY <1>3, <2>1, <2>2, <2>3, <2>4, <2>5 DEF Arch!Jump
  <2> QED
    BY <2>6 DEF Arch!Next
<1>5. CASE ~Taken(ArchCr, ArchSr)
  <2>1. ArchPc' = (ArchPc + 2) % PC_SPACE /\ ArchSr' = ArchSr
    BY <1>2, <1>5, KeptBySecond DEF AluOps
  <2>2. Arch!FlagsAfter("JMP", FALSE) = ArchSr
    BY DEF Arch!FlagsAfter
  <2>3. Arch!Executes({"JMP"}) /\ Arch!Plus(2) = (ArchPc + 2) % PC_SPACE
    BY <1>1, Instruction
  <2>4. Arch!Taken(ArchCr, ArchSr) = FALSE
    BY <1>5, SameAlu DEF Arch!Taken
  <2>5. Arch!Jump
    BY <1>3, <2>1, <2>2, <2>3, <2>4 DEF Arch!Jump
  <2> QED
    BY <2>5 DEF Arch!Next
<1> QED
  BY <1>4, <1>5

\* The stack pointer wraps within its page.
LEMMA PushedAddress ==
  ASSUME NEW c \in BYTE, NEW s \in BYTE
  PROVE  StackAddr(c, (s + 1) % 256) =
           IF StackAddr(c, s) % 256 # 255 THEN StackAddr(c, s) + 1 ELSE StackAddr(c, s) - 255
<1>1. PICK p \in 0..7 : p = (c \div 4) % 8
  BY SMT DEF BYTE
<1>2. (p * 256 + s) % 256 = s
  BY SMT DEF BYTE
<1>3. CASE s = 255
  <2>1. (s + 1) % 256 = 0 /\ p * 256 + 0 = (p * 256 + s) - 255
    BY <1>3, SMT
  <2> QED
    BY <1>1, <1>2, <1>3, <2>1 DEF StackAddr
<1>4. CASE s # 255
  <2>1. (s + 1) % 256 = s + 1 /\ p * 256 + (s + 1) = (p * 256 + s) + 1
    BY <1>4, SMT DEF BYTE
  <2> QED
    BY <1>1, <1>2, <1>4, <2>1 DEF StackAddr
<1> QED
  BY <1>3, <1>4

\* A call that is taken pushes the address behind it: the upper byte at this
\* edge, the lower one at the next.
LEMMA CallStep ==
  ASSUME IInv, IsaInv, Next, ~halted, imm_mode, Kind(prev_inst) = "CALL",
         Taken(ArchCr, ArchSr)
  PROVE  Arch!Next
<1> PICK b : b = prev_inst
  OBVIOUS
<1> PICK top : top = StackAddr(ArchCr, ArchSp)
  OBVIOUS
<1> PICK next : next = StackAddr(ArchCr, (ArchSp + 1) % 256)
  OBVIOUS
<1>1. /\ ArchPc \in PcSpace /\ b = ByteAt(ArchPc)
      /\ curr_inst = ByteAt((ArchPc + 1) % PC_SPACE)
      /\ (ArchPc + 2) % PC_SPACE = PC
  BY BeforeSecond
<1>2. /\ ex.ctrl = "CALL" /\ HasSecondByte(b)
      /\ ret_addr0 = PC % 256 /\ ret_addr1 = PC \div 256
  BY DEF IsaInv, HalfDecoded, StartedWith
<1>3. /\ UNCHANGED <<inst_mem, ArchRegs, ArchCr>> /\ ~halted' /\ ArchSr' = 0
      /\ ArchPc' = Address(b, curr_inst) % PC_SPACE
  BY <1>2, KeptBySecond, AfterSecond, SecondByte DEF AluOps, i_addr
<1>4. store_upper /\ ~store_lower /\ ~mapped_access
  BY <1>2, BeforeSecond DEF IInv, BusProtocol, mapped_access
<1>5. ArchMem = data_mem /\ ArchSp = sp_lsb /\ ArchCr = cr
  BY <1>4, BeforeSecond DEF ArchMem, ArchSp
<1>6. data_mem' = Write(ArchMem, top, PC \div 256) /\ sp_lsb' = (ArchSp + 1) % 256
  BY <1>2, <1>4, <1>5, BeforeSecond DEF Next, Memories, Execute, m_wr, m_addr, stack_addr,
     m_wr_data, sp_next
<1>7. ArchMem' = Write(data_mem', next, PC % 256) /\ ArchSp' = (ArchSp + 2) % 256
  <2>1. store_lower' /\ ~mapped_access'
    BY <1>2, AfterSecond DEF mapped_access
  <2>2. ret_addr0' = ret_addr0
    <3>1. ~latch_ret_addr
      BY BeforeSecond DEF latch_ret_addr, exec_ctrl_next
    <3> QED
      BY <3>1, BeforeSecond DEF Next, Execute
  <2>3. m_wr' /\ m_addr' = next /\ m_wr_data' = PC % 256
    BY <1>2, <1>6, <2>1, <2>2, BeforeSecond DEF m_wr, m_addr, stack_addr, m_wr_data
  <2>4. sp_next' = (((ArchSp + 1) % 256) + 1) % 256
    BY <1>6, <2>1, AfterSecond DEF sp_next
  <2>5. (((ArchSp + 1) % 256) + 1) % 256 = (ArchSp + 2) % 256
    <3>1. PICK s \in BYTE : s = ArchSp
      BY <1>5 DEF IInv, TypeOK
    <3>2. (((s + 1) % 256) + 1) % 256 = (s + 2) % 256
      BY SMT DEF BYTE
    <3> QED
      BY <3>1, <3>2
  <2> QED
    BY <2>3, <2>4, <2>5, AfterSecond
<1>8. top \in DataAddr /\ next \in DataAddr /\ Arch!NextSlot(top) = next
  <2>1. ArchSp \in BYTE /\ ArchCr \in BYTE /\ (ArchSp + 1) % 256 \in BYTE
    <3>1. \A s \in BYTE : (s + 1) % 256 \in BYTE
      BY SMT DEF BYTE
    <3> QED
      BY <1>5, <3>1 DEF IInv, TypeOK
  <2>2. top \in ADDRESS /\ next \in ADDRESS
    BY <2>1, StackAddrType
  <2>3. ADDRESS \subseteq DataAddr
    BY BusAssumption, DataMemAssumption, SMT DEF ADDRESS, DataAddr
  <2>4. Arch!NextSlot(top) = IF top % 256 # 255 THEN top + 1 ELSE top - 255
    BY DEF Arch!NextSlot
  <2> QED
    BY <2>1, <2>2, <2>3, <2>4, PushedAddress
<1>9. PC \div 256 = (PC \div 256) % 16
  <2>1. PC \in 0..4095
    BY PcAssumption, SMT DEF IInv, TypeOK
  <2> QED
    BY <2>1, SMT
<1>10. Arch!Call
  <2>1. Arch!Executes({"CALL"}) /\ Arch!Target = Address(b, curr_inst) % PC_SPACE
        /\ Arch!Plus(2) = PC
    BY <1>1, Instruction, SameFields DEF Arch!Target
  <2>2. Arch!Taken(ArchCr, ArchSr)
    BY SameAlu
  <2>3. Arch!FlagsAfter("CALL", TRUE) = 0
    BY ArchFlags, FlagFacts, SameAlu DEF Arch!FlagsAfter
  <2>4. PICK m : m = <<Write(ArchMem, top, PC \div 256), inst_mem>>
    OBVIOUS
  <2>5. m \in Arch!StoreOutcomes(ArchMem, inst_mem, top, (PC \div 256) % 16)
    BY <1>8, <1>9, <2>4, SameMemory
  <2>6. <<ArchMem', inst_mem'>> \in
          Arch!StoreOutcomes(m[1], m[2], Arch!NextSlot(top), PC % 256)
    BY <1>3, <1>6, <1>7, <1>8, <2>4, SameMemory
  <2>7. \E n \in Arch!StoreOutcomes(m[1], m[2], Arch!NextSlot(top), PC % 256) :
          ArchMem' = n[1] /\ inst_mem' = n[2]
    BY <2>6
  <2>8. Arch!StackAddr(ArchCr, ArchSp) = top
    BY SameMemory
  <2>9. \E k \in Arch!StoreOutcomes(ArchMem, inst_mem, Arch!StackAddr(ArchCr, ArchSp),
                                  (Arch!Plus(2) \div 256) % 16) :
        \E n \in Arch!StoreOutcomes(k[1], k[2],
                    Arch!NextSlot(Arch!StackAddr(ArchCr, ArchSp)), Arch!Plus(2) % 256) :
          ArchMem' = n[1] /\ inst_mem' = n[2]
    BY <2>1, <2>5, <2>7, <2>8
  <2> QED
    <3>1. Arch!Executes({"CALL"}) /\ Arch!Taken(ArchCr, ArchSr)
      BY <2>1, <2>2
    <3>2. ArchSp' = (ArchSp + 2) % 256 /\ ArchPc' = Arch!Target
      BY <1>3, <1>7, <2>1
    <3>3. ArchSr' = Arch!FlagsAfter("CALL", TRUE)
      BY <1>3, <2>3
    <3>4. UNCHANGED <<IF halted THEN "halted" ELSE "running", ArchRegs, ArchCr>>
      BY <1>3
    <3> QED
      BY <2>9, <3>1, <3>2, <3>3, <3>4, Zenon DEF Arch!Call
<1> QED
  BY <1>10 DEF Arch!Next

\* A call that is not taken leaves everything as it is.
LEMMA CallNotTakenStep ==
  ASSUME IInv, IsaInv, Next, ~halted, imm_mode, Kind(prev_inst) = "CALL",
         ~Taken(ArchCr, ArchSr)
  PROVE  Arch!Next
<1>1. /\ ArchPc \in PcSpace /\ prev_inst = ByteAt(ArchPc)
  BY BeforeSecond
<1>2. ex.ctrl = "EXEC_NOP" /\ HasSecondByte(prev_inst)
  BY DEF IsaInv, HalfDecoded, StartedWith
<1>3. /\ UNCHANGED <<inst_mem, ArchRegs, ArchCr, ArchMem, ArchSp, ArchSr>> /\ ~halted'
      /\ ArchPc' = (ArchPc + 2) % PC_SPACE
  BY <1>2, KeptBySecond, AfterSecond DEF AluOps
<1>4. ~Arch!Taken(ArchCr, ArchSr) /\ Arch!FlagsAfter("CALL", FALSE) = ArchSr
  BY SameAlu DEF Arch!FlagsAfter
<1>5. Arch!CallNotTaken
  BY <1>1, <1>2, <1>3, <1>4, Instruction DEF Arch!CallNotTaken, Arch!Continue
<1> QED
  BY <1>5 DEF Arch!Next

-----------------------------------------------------------------------------
(* The refinement.                                                         *)

\* Reset leaves the abstract machine's initial state.
LEMMA IsaInitially ==
  ASSUME Init
  PROVE  IsaInv /\ Arch!Init
<1> USE DEF Init, Reset
<1>1. IInv
  BY InitInv
<1>2. /\ ~execute_en /\ ~reg_wr_en /\ ~m_wr /\ ~cr_update_en
      /\ \A ctrls : ~Retiring(ctrls)
  BY DEF execute_en, reg_wr_en, m_wr, Retiring, cr_update_en
<1>3. IsaInv
  BY DEF IsaInv, ReturnStages, NoReturn, Fetched, HalfDecoded, FullyDecoded, FlagValues
<1>4. /\ ArchPc = 0 /\ ArchRegs = regs /\ ArchSr = 0 /\ ArchCr = cr /\ ArchSp = 0
      /\ ArchMem = data_mem
  BY <1>2 DEF ArchPc, Returning, restore_lower, restore_upper, ArchRegs, Reading, ArchSr,
     sr_next, ArchCr, cr_base, ArchSp, sp_next, ArchMem
<1> QED
  BY <1>1, <1>3, <1>4, SameMemory, SameKind, SameFields DEF Arch!Init, IInv, TypeOK, BYTE,
     Arch!BYTE

\* Every clock edge executes one instruction of the abstract machine, or none.
LEMMA StepRefines ==
  ASSUME IInv, IsaInv, [Next]_rtlVars, NothingBehindHalt
  PROVE  [Arch!Next]_(Arch!isaVars)
<1>1. CASE UNCHANGED rtlVars
  <2> USE <1>1 DEF rtlVars, fetchRegs, decodeRegs, execRegs, fileRegs
  <2>1. UNCHANGED <<ArchRegs, ArchSr, ArchCr>>
    BY DEF ArchRegs, ArchSr, ArchCr, cr_base, cr_update_en, m_wr_data, Retiring, Reading,
       execute_en, ReadingResult, ReadPort, reg_wr_en, reg_wr_sel, reg_wr_data, alu_result,
       src1_data, load_data, m_rd_data, m_rd, m_addr, mapped_access, stack_addr,
       restore_lower, restore_upper, sr_next
  <2>2. UNCHANGED <<ArchMem, ArchSp>>
    BY DEF ArchMem, ArchSp, m_wr, m_addr, m_wr_data, mapped_access, stack_addr, Retiring,
       restore_lower, restore_upper, execute_en, sp_next
  <2>3. ArchPc' = ArchPc
    BY DEF ArchPc, Back, Returning, ReturnTarget, restore_lower, restore_upper, Retiring,
       execute_en
  <2> QED
    BY <2>1, <2>2, <2>3 DEF Arch!isaVars
<1>2. CASE Next /\ halted
  BY <1>2, StoppedStutters
<1>3. CASE Next /\ ~halted /\ ~imm_mode /\ (~idecode_en \/ ~NoReturn)
  BY <1>3, WaitingStutters
<1>4. CASE Next /\ ~halted /\ ~imm_mode /\ idecode_en /\ NoReturn
  <2>1. CASE HasSecondByte(curr_inst)
    BY <1>4, <2>1, FirstOfTwoStutters
  <2>2. CASE ~HasSecondByte(curr_inst)
    <3>1. Kind(curr_inst) \in AluOps \cup CrOps \cup {"NOP", "USR", "HALT", "RET"}
      BY <2>2, CurrentByte, KindLength DEF IInv, Kinds
    <3> QED
      BY <1>4, <2>2, <3>1, ControlStep, RegisterAluStep, ReturnStep
  <2> QED
    BY <2>1, <2>2
<1>5. CASE Next /\ ~halted /\ imm_mode
  <2>1. Kind(prev_inst) \in AluOps \cup {"LD", "ST", "JMP", "CALL"}
    BY <1>5 DEF IInv, BetweenBytes, SecondByteKinds
  <2> QED
    BY <1>5, <2>1, ImmediateAluStep, LoadStep, StoreStep, JumpStep, CallStep,
       CallNotTakenStep
<1> QED
  BY <1>1, <1>2, <1>3, <1>4, <1>5 DEF IInv, TypeOK

\* The pipeline does what the instructions do one after another, for all
\* programs whose jumps and calls see the latest flags and which put behind a
\* HALT nothing that idecode executes nevertheless.
THEOREM RtlIsaCorrect ==
  Spec /\ []NothingBehindHalt /\ []BranchSeesLatestFlags => ImplementsIsa
<1>1. Init => IsaInv /\ Arch!Init
  BY IsaInitially
<1>2. IInv /\ IsaInv /\ [Next]_rtlVars /\ NothingBehindHalt /\ BranchSeesLatestFlags
        => IsaInv'
  BY IsaInductive
<1>3. IInv /\ IsaInv /\ [Next]_rtlVars /\ NothingBehindHalt => [Arch!Next]_(Arch!isaVars)
  BY StepRefines
<1> QED
  BY <1>1, <1>2, <1>3, Invariance, PTL DEF Spec, ImplementsIsa, Arch!Spec

-----------------------------------------------------------------------------
(* Programs that meet the hypotheses.                                      *)

\* No jump or call stands directly behind a STORE to CR, and a conditional
\* one not directly behind an ALU instruction on registers either.
BranchesSettle ==
  FirstByte({"JMP", "CALL"}) =>
    /\ ~cr_update_en
    /\ Reading => Bit(cr, CR_BCZ) = 0 /\ Bit(cr, CR_BCNZ) = 0

\* The byte behind a HALT starts neither a CALL nor a control instruction.
HaltsEndCode ==
  FirstByte({"HALT"}) => Kind(ByteAt(PC)) \notin CrOps \cup {"CALL"}

\* What is decoded once the program has stopped is the byte behind the HALT.
BehindHalt == halted /\ idecode_en => Kind(curr_inst) \notin CrOps \cup {"CALL"}

\* Only of an instruction whose operands are being read are the flags late.
LEMMA SettledSeesFlags ==
  ASSUME IInv, IsaInv, BranchesSettle
  PROVE  BranchSeesLatestFlags
<1> SUFFICES ASSUME FirstByte({"JMP", "CALL"})
             PROVE  exec_ctrl_next # "EXEC_NOP" <=> Taken(ArchCr, ArchSr)
  BY DEF BranchSeesLatestFlags
<1>1. exec_ctrl_next # "EXEC_NOP" <=> Taken(cr, sr_next)
  BY DEF exec_ctrl_next, FirstByte, AluOps
<1>2. ArchCr = cr
  BY DEF BranchesSettle, ArchCr, cr_base
<1>3. CASE Reading
  <2>1. \A s : Taken(cr, s)
    BY <1>3 DEF BranchesSettle, Taken
  <2> QED
    BY <1>1, <1>2, <2>1
<1>4. CASE ~Reading
  <2>1. ~restore_lower
    <3>1. CASE halted
      BY <3>1 DEF restore_lower, execute_en
    <3>2. CASE ~halted
      <4>1. NoReturn
        BY <3>2, WhileReturning, IsaReturns
      <4> QED
        BY <3>2, <4>1 DEF IsaInv, ReturnStages, NoReturn, restore_lower, execute_en
    <3> QED
      BY <3>1, <3>2
  <2> QED
    BY <1>1, <1>2, <1>4, <2>1 DEF ArchSr
<1> QED
  BY <1>3, <1>4

LEMMA SettledStops ==
  ASSUME IInv, IsaInv, BehindHalt
  PROVE  NothingBehindHalt
<1> SUFFICES ASSUME halted PROVE ~FirstByte(CrOps) /\ exec_ctrl_next # "CALL"
  BY DEF NothingBehindHalt, latch_ret_addr
<1>1. ex.ctrl # "CALL"
  BY DEF IsaInv, Stopped
<1> QED
  BY <1>1 DEF BehindHalt, FirstByte, exec_ctrl_next, AluOps

LEMMA NextBehindHalt ==
  ASSUME IInv, IsaInv, [Next]_rtlVars, HaltsEndCode, BehindHalt
  PROVE  BehindHalt'
<1>1. CASE UNCHANGED rtlVars
  BY <1>1 DEF rtlVars, fetchRegs, decodeRegs, execRegs, fileRegs, BehindHalt, curr_inst,
     restore_ongoing
<1>2. CASE Next /\ halted
  BY <1>2 DEF Next, Ifetch, ifetch_en, BehindHalt
<1>3. CASE Next /\ ~halted /\ halted'
  <2>1. FirstByte({"HALT"})
    BY <1>3 DEF Next, Idecode
  <2>2. NoReturn /\ ~imm_mode
    BY <1>3, <2>1, WhileReturning, IsaReturns DEF FirstByte
  <2>3. inst_reg' = ByteAt(PC)
    BY <1>3, <2>2, InExecute, NextPc DEF restore_ongoing, NoReturn
  <2>4. UNCHANGED inst_mem
    BY <1>3 DEF Next, Memories
  <2>5. curr_inst' \in {0, inst_reg'}
    BY DEF curr_inst
  <2>6. Kind(0) \notin CrOps \cup {"CALL"}
    BY SecondBytes DEF CrOps, BYTE
  <2> QED
    BY <2>1, <2>3, <2>5, <2>6 DEF BehindHalt, HaltsEndCode
<1> QED
  BY <1>1, <1>2, <1>3 DEF BehindHalt

\* What the rules for programs give is known in every state.
LEMMA SettledInvariance ==
  Spec /\ []HaltsEndCode /\ []BranchesSettle => [](IInv /\ IsaInv /\ BehindHalt)
<1>1. Init => IsaInv /\ BehindHalt
  BY IsaInitially DEF Init, Reset, BehindHalt
<1>2. IInv /\ IsaInv /\ BehindHalt /\ [Next]_rtlVars /\ HaltsEndCode /\ BranchesSettle
        => IsaInv' /\ BehindHalt'
  BY IsaInductive, NextBehindHalt, SettledStops, SettledSeesFlags
<1> QED
  BY <1>1, <1>2, Invariance, PTL DEF Spec

\* The hypotheses as a programmer can meet them: the pipeline does what the
\* instructions do one after another, for all programs in which no conditional
\* branch stands directly behind an ALU instruction on registers, no branch
\* directly behind a STORE to CR, and neither a CALL nor a control instruction
\* directly behind a HALT.
THEOREM SettledIsaCorrect ==
  Spec /\ []HaltsEndCode /\ []BranchesSettle => ImplementsIsa
<1>1. Init => Arch!Init
  BY IsaInitially
<1>2. IInv /\ IsaInv /\ BehindHalt /\ [Next]_rtlVars => [Arch!Next]_(Arch!isaVars)
  BY StepRefines, SettledStops
<1> QED
  BY <1>1, <1>2, SettledInvariance, PTL DEF Spec, ImplementsIsa, Arch!Spec

\* In these programs every branch is decided on the flags and the CR that the
\* instructions in front of it leave, although it is decided while they are
\* still being executed.
THEOREM LatestFlagsCorrect ==
  Spec /\ []HaltsEndCode /\ []BranchesSettle => []BranchSeesLatestFlags
<1>1. IInv /\ IsaInv /\ BranchesSettle => BranchSeesLatestFlags
  BY SettledSeesFlags
<1> QED
  BY <1>1, SettledInvariance, PTL

\* In these programs what the pipeline still decodes behind a HALT is harmless:
\* it is neither a CALL nor a control instruction, whichever way the program has
\* come to its HALT.
THEOREM BehindHaltCorrect ==
  Spec /\ []HaltsEndCode /\ []BranchesSettle => []NothingBehindHalt
<1>1. IInv /\ IsaInv /\ BehindHalt => NothingBehindHalt
  BY SettledStops
<1> QED
  BY <1>1, SettledInvariance, PTL

\* In these programs a HALT is the end: no STORE and no push of an instruction
\* in front of it or behind it reaches the data memory any more.
THEOREM HaltCorrect ==
  Spec /\ []HaltsEndCode /\ []BranchesSettle => HaltStops
<1>1. ASSUME IInv, IsaInv, BehindHalt, [Next]_rtlVars, halted
      PROVE  data_mem' = data_mem
  <2>1. CASE UNCHANGED rtlVars
    BY <2>1 DEF rtlVars
  <2>2. CASE Next
    <3>1. NothingBehindHalt
      BY <1>1, SettledStops
    <3>2. ~m_wr
      BY <1>1, <3>1 DEF m_wr, IsaInv, Stopped, Retiring, IInv, BusProtocol, AluOps
    <3> QED
      BY <2>2, <3>2 DEF Next, Memories
  <2> QED
    BY <1>1, <2>1, <2>2
<1>2. IInv => \A a \in DOMAIN data_mem : data_mem[a] = Read(data_mem, a)
  BY DEF Read
<1>3. IInv /\ IsaInv /\ BehindHalt /\ [Next]_rtlVars =>
        [halted => \A a \in DOMAIN data_mem' : data_mem'[a] = Read(data_mem, a)]_rtlVars
  BY <1>1, <1>2
<1> QED
  BY <1>3, SettledInvariance, PTL DEF Spec, HaltStops

===============================================================================
