-------------------------- MODULE NoobsCModel_proofs --------------------------
(***************************************************************************)
(* Theorems about the C model, for all programs, all data and all sizes of *)
(* the two memories: its globals keep their types, a stopped fetch is      *)
(* always on its way to being resumed, the two bytes of an instruction are *)
(* decoded one right after the other; and, in the second part, it          *)
(* implements NoobsIsa.                                                    *)
(***************************************************************************)
EXTENDS NoobsCModel, NoobsDefs_proofs

\* Between its two bytes an instruction that has a second byte is neither
\* executed nor overtaken: fetching goes on and execute() has nothing to do.
SecondBytePending ==
  imm_mode =>
    /\ Kind(prev_instruction) \in SecondByteKinds
    /\ exec_params.execute_control = Kind(prev_instruction)
    /\ ~exec_params.execute_en
    /\ ifetch_en
    /\ phase # "ifetch" => idecode_en

\* StallHasTransfer is not inductive alone: the second byte stops fetching,
\* and that it belongs to a transfer is known from the first.
IInv == TypeOK /\ StallHasTransfer /\ SecondBytePending

-----------------------------------------------------------------------------
(* Types                                                                   *)

\* noobs_cpu_init() and the loaders leave every global in its type.
LEMMA InitType == Init => TypeOK
<1> SUFFICES ASSUME Init PROVE TypeOK
  OBVIOUS
<1>1. instruction_mem \in [InstAddr -> BYTE]
  BY LoadInstructionsType DEF Init
<1>2. IsMemory(data_mem)
  BY LoadDataType DEF Init
<1>3. exec_params \in ExecParams
  BY DEF Init, ExecParams, ExecControls, BYTE, REG, ADDRESS
<1>4. regs \in [REG -> BYTE] /\ cr \in BYTE /\ sr \in BYTE /\ sp \in BYTE
  BY DEF Init, BYTE, CR_SP_INIT_MSB
<1> QED
  <2>1. ControlType
    BY DEF Init, ControlType
  <2>2. RegisterType /\ DecodeType
    BY <1>3, <1>4 DEF Init, RegisterType, DecodeType, WORD, BYTE
  <2> QED
    BY <1>1, <1>2, <2>1, <2>2 DEF TypeOK, MemoryType


\* Every call leaves the control globals in their types.
LEMMA NextControl ==
  ASSUME ControlType, [Next]_vars
  PROVE  ControlType'
<1> USE DEF ControlType, vars, memories, cpuRegs, fetchVars, decodeVars
<1>1. CASE Execute
  BY <1>1 DEF Execute, ExecuteDisabled, ExecuteNothing, ExecuteAlu, ExecuteLoad,
       ExecuteStore, ExecuteIllegalAccess, ExecuteJmp, ExecuteCallTaken,
       ExecuteCallNotTaken, ExecuteRet, ExecuteReturns, Exit
<1>2. CASE Idecode
  BY <1>2 DEF Idecode, DecodeDisabled, DecodeSecondByte, DecodeExits, DecodeNop,
       DecodeRet, DecodeHalt, DecodeControl, DecodeTransfer, DecodeAlu,
       DecodeMemory, DecodeFirstByte, HasSecondByte, IdecodeReturns, Exit
<1>3. CASE Ifetch
  BY <1>3 DEF Ifetch, Fetch, FetchOutOfBounds, FetchDisabled, IfetchReturns, Exit
<1>4. CASE UNCHANGED vars
  BY <1>4
<1> QED
  BY <1>1, <1>2, <1>3, <1>4 DEF Next, Terminated

\* A write changes memories into memories.
LEMMA NextMemory ==
  ASSUME MemoryType, RegisterType, DecodeType, [Next]_vars
  PROVE  MemoryType'
<1> USE DEF MemoryType, vars, memories
<1>1. CASE ExecuteStore
  <2>1. regs[exec_params.dst_reg] \in BYTE
    BY DEF RegisterType, DecodeType, ExecParams
  <2>2. CASE UNCHANGED memories
    BY <2>2
  <2>3. CASE \E m \in StoreOutcomes(data_mem, instruction_mem, EffectiveAddress,
                                    regs[exec_params.dst_reg]) :
               data_mem' = m[1] /\ instruction_mem' = m[2]
    BY <2>1, <2>3, StoreType
  <2> QED
    BY <1>1, <2>2, <2>3 DEF ExecuteStore
<1>2. CASE ExecuteCallTaken
  <2> DEFINE top == StackAddr(cr, sp)
  <2>1. (pc \div 256) % 8 \in BYTE /\ pc % 256 \in BYTE
    BY WordBytes DEF RegisterType
  <2>2. PICK m \in StoreOutcomes(data_mem, instruction_mem, top, (pc \div 256) % 8) :
          \E n \in StoreOutcomes(m[1], m[2], top + 1, pc % 256) :
            data_mem' = n[1] /\ instruction_mem' = n[2]
    BY <1>2 DEF ExecuteCallTaken
  <2>3. IsMemory(m[1]) /\ m[2] \in [InstAddr -> BYTE]
    BY <2>1, StoreType
  <2> QED
    BY <2>1, <2>2, <2>3, StoreType
<1>3. CASE Execute /\ ~ExecuteStore /\ ~ExecuteCallTaken
  BY <1>3 DEF Execute, ExecuteDisabled, ExecuteNothing, ExecuteAlu, ExecuteLoad,
       ExecuteIllegalAccess, ExecuteJmp, ExecuteCallNotTaken, ExecuteRet, Exit
<1>4. CASE Idecode
  BY <1>4 DEF Idecode, DecodeDisabled, DecodeSecondByte, DecodeExits, DecodeNop,
       DecodeRet, DecodeHalt, DecodeControl, DecodeTransfer, DecodeAlu,
       DecodeMemory, DecodeFirstByte, IdecodeReturns, Exit
<1>5. CASE Ifetch
  BY <1>5 DEF Ifetch, Fetch, FetchOutOfBounds, FetchDisabled, IfetchReturns, Exit
<1>6. CASE UNCHANGED vars
  BY <1>6
<1> QED
  BY <1>1, <1>2, <1>3, <1>4, <1>5, <1>6 DEF Next, Execute, Terminated

\* Each of the addresses 0 to 6 names a register.
LEMMA MappedRegisterType ==
  ASSUME RegisterType, NEW a \in ADDRESS, a < 7
  PROVE  MappedRegister(a) \in BYTE
<1>1. CASE a \in {4, 5, 6}
  BY <1>1 DEF MappedRegister, RegisterType
<1>2. CASE a \in REG
  <2>1. MappedRegister(a) = regs[a]
    BY <1>2 DEF MappedRegister, REG
  <2> QED
    BY <1>2, <2>1 DEF RegisterType
<1> QED
  BY <1>1, <1>2 DEF ADDRESS, REG

\* The registers: what is loaded, computed, pushed and popped fits them.
LEMMA NextRegister ==
  ASSUME MemoryType, RegisterType, DecodeType, [Next]_vars
  PROVE  RegisterType'
<1> USE DEF RegisterType, vars, cpuRegs, decodeVars
<1>1. CASE ExecuteAlu
  <2> DEFINE p == exec_params
             r == AluResult(p.execute_control, p.src0_val, p.src1_val)
  <2>1. r \in WORD
    BY AluResultType DEF DecodeType, ExecParams
  <2>2. r % 256 \in BYTE /\ AluFlags(sr, r) \in BYTE
    BY <2>1, WordBytes, AluFlagsType
  <2> QED
    BY <1>1, <2>2 DEF ExecuteAlu, ExecuteReturns
<1>2. CASE ExecuteLoad
  <2>1. exec_params.address \in ADDRESS
    BY DEF DecodeType, ExecParams
  <2>2. exec_params.address < 7 => MappedRegister(exec_params.address) \in BYTE
    BY <2>1, MappedRegisterType
  <2>3. \A v \in LoadOutcomes(data_mem, EffectiveAddress) : v \in BYTE
    BY LoadType DEF MemoryType
  <2>4. \A v \in BYTE : [regs EXCEPT ![exec_params.dst_reg] = v] \in [REG -> BYTE]
    OBVIOUS
  <2> QED
    BY <1>2, <2>2, <2>3, <2>4 DEF ExecuteLoad, ExecuteReturns
<1>3. CASE ExecuteStore
  <2>1. regs[exec_params.dst_reg] \in BYTE
    BY DEF DecodeType, ExecParams
  <2>2. \A a \in REG :
          [regs EXCEPT ![a] = regs[exec_params.dst_reg]] \in [REG -> BYTE]
    BY <2>1
  <2>3. regs' \in [REG -> BYTE] /\ cr' \in BYTE /\ sp' \in BYTE
    BY <1>3, <2>1, <2>2 DEF ExecuteStore
  <2>4. UNCHANGED <<pc, exec_pc, sr>>
    BY <1>3 DEF ExecuteStore, ExecuteReturns
  <2> QED
    BY <2>3, <2>4
<1>4. CASE ExecuteJmp
  <2>1. exec_params.address \in WORD
    BY AddressIsWord DEF DecodeType, ExecParams
  <2> QED
    BY <1>4, <2>1, AluFlagsType DEF ExecuteJmp, ExecuteReturns
<1>5. CASE ExecuteCallTaken
  <2>1. exec_params.address \in WORD
    BY AddressIsWord DEF DecodeType, ExecParams
  <2>2. (sp + 2) % 256 \in BYTE
    BY DEF BYTE
  <2>3. pc' = exec_params.address /\ sp' = (sp + 2) % 256
    BY <1>5 DEF ExecuteCallTaken
  <2>4. UNCHANGED <<exec_pc, sr, cr, regs>>
    BY <1>5 DEF ExecuteCallTaken, ExecuteReturns
  <2> QED
    BY <2>1, <2>2, <2>3, <2>4
<1>6. CASE ExecuteRet
  <2> DEFINE top == StackAddr(cr, sp)
  <2>1. PICK hi \in LoadOutcomes(data_mem, top - 2), lo \in LoadOutcomes(data_mem, top - 1) :
          pc' = hi * 256 + lo
    BY <1>6 DEF ExecuteRet
  <2>2. pc' \in WORD
    BY <2>1, LoadType, TwoBytes DEF MemoryType
  <2>3. (sp + 254) % 256 \in BYTE
    BY DEF BYTE
  <2> QED
    BY <1>6, <2>2, <2>3 DEF ExecuteRet, ExecuteReturns
<1>7. CASE ExecuteDisabled \/ ExecuteNothing \/ ExecuteIllegalAccess \/ ExecuteCallNotTaken
  BY <1>7 DEF ExecuteDisabled, ExecuteNothing, ExecuteIllegalAccess,
       ExecuteCallNotTaken, ExecuteReturns, Exit
<1>8. CASE Idecode
  <2>1. PrevPc \in WORD
    <3>1. pc + 65535 \in Nat
      BY WordSum
    <3> QED
      BY <3>1, Modulo DEF PrevPc
  <2>2. \A kind : CrAfter(kind, cr) \in BYTE
    BY CrAfterType
  <2> QED
    BY <1>8, <2>1, <2>2 DEF Idecode, DecodeDisabled, DecodeSecondByte, DecodeExits,
         DecodeNop, DecodeRet, DecodeHalt, DecodeControl, DecodeTransfer, DecodeAlu,
         DecodeMemory, DecodeFirstByte, IdecodeReturns, Exit
<1>9. CASE Ifetch
  <2>1. NextPc \in WORD
    <3>1. pc + 1 \in Nat
      BY WordSum
    <3> QED
      BY <3>1, Modulo DEF NextPc
  <2> QED
    BY <1>9, <2>1 DEF Ifetch, Fetch, FetchOutOfBounds, FetchDisabled, IfetchReturns, Exit
<1>10. CASE UNCHANGED vars
  BY <1>10
<1> QED
  BY <1>1, <1>2, <1>3, <1>4, <1>5, <1>6, <1>7, <1>8, <1>9, <1>10
     DEF Next, Execute, Terminated

\* What the stages assign to the fields of exec_params keeps their types.
LEMMA EnableUpdate ==
  ASSUME NEW p \in ExecParams, NEW en \in BOOLEAN
  PROVE  [p EXCEPT !.execute_en = en] \in ExecParams
BY DEF ExecParams

\* A decoded instruction without operands.
LEMMA ControlUpdate ==
  ASSUME NEW p \in ExecParams, NEW control \in ExecControls
  PROVE  [p EXCEPT !.execute_control = control] \in ExecParams
BY DEF ExecParams

\* A LOAD or STORE, with its register.
LEMMA DestinationUpdate ==
  ASSUME NEW p \in ExecParams, NEW control \in ExecControls, NEW dst \in REG
  PROVE  [p EXCEPT !.execute_control = control, !.dst_reg = dst] \in ExecParams
BY DEF ExecParams

\* The operands of an ALU operation.
LEMMA OperandsUpdate ==
  ASSUME NEW p \in ExecParams, NEW s0 \in BYTE, NEW s1 \in BYTE
  PROVE  [p EXCEPT !.src0_val = s0, !.src1_val = s1] \in ExecParams
BY DEF ExecParams

\* The second byte completes an address or is an immediate operand.
LEMMA SecondByteUpdate ==
  ASSUME NEW p \in ExecParams, NEW a \in ADDRESS, NEW s1 \in BYTE
  PROVE  /\ [p EXCEPT !.execute_en = TRUE, !.address = a] \in ExecParams
         /\ [p EXCEPT !.execute_en = TRUE, !.src1_val = s1] \in ExecParams
<1>1. [p EXCEPT !.execute_en = TRUE, !.address = a] \in ExecParams
  BY DEF ExecParams
<1>2. [p EXCEPT !.execute_en = TRUE, !.src1_val = s1] \in ExecParams
  BY DEF ExecParams
<1> QED
  BY <1>1, <1>2

\* The operands of an ALU operation are bytes.
LEMMA OperandsType ==
  ASSUME RegisterType, DecodeType
  PROVE  WithOperands \in ExecParams
<1> DEFINE p0 == regs[GET_REG_PTR0(instruction)]
           p1 == regs[GET_REG_PTR1(instruction)]
           s0 == IF Kind(instruction) = "SUB" /\ ~IS_IMM(instruction) THEN p1 ELSE p0
           s1 == IF IS_IMM(instruction) THEN exec_params.src1_val
                 ELSE IF Kind(instruction) = "SUB" THEN p0 ELSE p1
<1>1. GET_REG_PTR0(instruction) \in REG /\ GET_REG_PTR1(instruction) \in REG
  BY PointerType DEF DecodeType
<1>2. p0 \in BYTE /\ p1 \in BYTE /\ exec_params.src1_val \in BYTE
  BY <1>1 DEF RegisterType, DecodeType, ExecParams
<1>3. s0 \in BYTE /\ s1 \in BYTE
  BY <1>2
<1>4. WithOperands = [exec_params EXCEPT !.src0_val = s0, !.src1_val = s1]
  BY DEF WithOperands
<1> HIDE DEF s0, s1
<1>5. exec_params \in ExecParams
  BY DEF DecodeType
<1> QED
  BY <1>3, <1>4, <1>5, OperandsUpdate

\* idecode() assembles what it hands over from the fields of the bytes.
LEMMA IdecodeParams ==
  ASSUME RegisterType, DecodeType, Idecode
  PROVE  exec_params' \in ExecParams
<1>1. exec_params \in ExecParams /\ instruction \in BYTE /\ prev_instruction \in BYTE
  BY DEF DecodeType
<1>2. CASE DecodeSecondByte
  <2>1. Address(prev_instruction, instruction) \in ADDRESS
    BY <1>1, AddressType
  <2>2. \/ exec_params' = [exec_params EXCEPT !.execute_en = TRUE,
                             !.address = Address(prev_instruction, instruction)]
        \/ exec_params' = [exec_params EXCEPT !.execute_en = TRUE,
                             !.src1_val = instruction]
    BY <1>2 DEF DecodeSecondByte
  <2> QED
    BY <1>1, <2>1, <2>2, SecondByteUpdate
<1>3. ASSUME NEW params \in ExecParams,
             exec_params' = [params EXCEPT !.execute_en = ~HasSecondByte(instruction)]
      PROVE  exec_params' \in ExecParams
  BY <1>3, EnableUpdate
<1>4. CASE DecodeNop \/ DecodeRet \/ DecodeControl
  <2>1. {"EXEC_NOP", "EXEC_IDLE", "RET"} \subseteq ExecControls
    BY DEF ExecControls
  <2>2. PICK control \in ExecControls :
          DecodeFirstByte([exec_params EXCEPT !.execute_control = control])
    BY <1>4, <2>1 DEF DecodeNop, DecodeRet, DecodeControl
  <2> QED
    BY <1>1, <1>3, <2>2, ControlUpdate DEF DecodeFirstByte
<1>5. CASE DecodeHalt
  BY <1>1, <1>3, <1>5 DEF DecodeHalt, DecodeFirstByte
<1>6. CASE DecodeTransfer
  <2>1. Kind(instruction) \in ExecControls
    BY <1>6 DEF DecodeTransfer, FirstByte, ExecControls
  <2>2. [exec_params EXCEPT !.execute_control = Kind(instruction)] \in ExecParams
    BY <1>1, <2>1, ControlUpdate
  <2> QED
    BY <1>3, <1>6, <2>2 DEF DecodeTransfer, DecodeFirstByte
<1>7. CASE DecodeAlu
  <2>1. GET_REG_PTR1(instruction) \in REG
    BY <1>1, PointerType
  <2>2. Kind(instruction) \in ExecControls
    BY <1>7 DEF DecodeAlu, FirstByte, ExecControls
  <2>3. [WithOperands EXCEPT !.execute_control = Kind(instruction),
           !.dst_reg = GET_REG_PTR1(instruction)] \in ExecParams
    BY <2>1, <2>2, OperandsType, DestinationUpdate
  <2> QED
    BY <1>3, <1>7, <2>3 DEF DecodeAlu, DecodeFirstByte
<1>8. CASE DecodeMemory
  <2>1. GET_LD_ST_REG_PTR(instruction) \in REG
    BY <1>1, PointerType
  <2>2. Kind(instruction) \in ExecControls
    BY <1>8 DEF DecodeMemory, FirstByte, ExecControls
  <2>3. [exec_params EXCEPT !.execute_control = Kind(instruction),
           !.dst_reg = GET_LD_ST_REG_PTR(instruction)] \in ExecParams
    BY <1>1, <2>1, <2>2, DestinationUpdate
  <2> QED
    BY <1>3, <1>8, <2>3 DEF DecodeMemory, DecodeFirstByte
<1>9. CASE DecodeDisabled \/ DecodeExits
  BY <1>1, <1>9, EnableUpdate DEF DecodeDisabled, DecodeExits, Exit
<1> QED
  BY <1>2, <1>4, <1>5, <1>6, <1>7, <1>8, <1>9 DEF Idecode

\* The bytes handed on are bytes, the parameters of their types.
LEMMA NextDecode ==
  ASSUME MemoryType, RegisterType, DecodeType, ControlType, [Next]_vars
  PROVE  DecodeType'
<1> USE DEF DecodeType, vars, fetchVars, decodeVars
<1>1. exec_params \in ExecParams
  OBVIOUS
<1>2. [exec_params EXCEPT !.execute_en = FALSE] \in ExecParams
  BY <1>1, EnableUpdate
<1>3. CASE Execute
  <2>1. exec_params' \in {exec_params, [exec_params EXCEPT !.execute_en = FALSE]}
    BY <1>3 DEF Execute, ExecuteDisabled, ExecuteNothing, ExecuteAlu, ExecuteLoad,
         ExecuteStore, ExecuteIllegalAccess, ExecuteJmp, ExecuteCallTaken,
         ExecuteCallNotTaken, ExecuteRet, ExecuteReturns, Exit
  <2>2. UNCHANGED <<instruction, prev_instruction>>
    BY <1>3 DEF Execute, ExecuteDisabled, ExecuteNothing, ExecuteAlu, ExecuteLoad,
         ExecuteStore, ExecuteIllegalAccess, ExecuteJmp, ExecuteCallTaken,
         ExecuteCallNotTaken, ExecuteRet, ExecuteReturns, Exit
  <2> QED
    BY <1>1, <1>2, <2>1, <2>2
<1>4. CASE Idecode
  <2>1. instruction' \in BYTE /\ prev_instruction' \in BYTE
    BY <1>4 DEF Idecode, DecodeDisabled, DecodeSecondByte, DecodeExits, DecodeNop,
         DecodeRet, DecodeHalt, DecodeControl, DecodeTransfer, DecodeAlu,
         DecodeMemory, DecodeFirstByte, IdecodeReturns, Exit
  <2> QED
    BY <1>4, <2>1, IdecodeParams
<1>5. CASE Ifetch
  <2>1. instruction' \in BYTE
    <3>1. CASE Fetch
      BY <3>1, StrayAssumption DEF Fetch, MemoryType
    <3>2. CASE FetchDisabled
      BY <3>2 DEF FetchDisabled, BYTE
    <3>3. CASE FetchOutOfBounds
      BY <3>3 DEF FetchOutOfBounds, Exit
    <3> QED
      BY <1>5, <3>1, <3>2, <3>3 DEF Ifetch
  <2>2. UNCHANGED <<prev_instruction, exec_params>>
    BY <1>5 DEF Ifetch, Fetch, FetchOutOfBounds, FetchDisabled, IfetchReturns, Exit
  <2> QED
    BY <2>1, <2>2
<1>6. CASE UNCHANGED vars
  BY <1>6
<1> QED
  BY <1>3, <1>4, <1>5, <1>6 DEF Next, Terminated

\* Every global keeps the width of its C type, and an address never has more
\* than eleven bits.
THEOREM TypeCorrect == Spec => []TypeOK
<1>1. Init => TypeOK
  BY InitType
<1>2. TypeOK /\ [Next]_vars => TypeOK'
  BY NextControl, NextMemory, NextRegister, NextDecode DEF TypeOK
<1> QED
  BY <1>1, <1>2, PTL DEF Spec

-----------------------------------------------------------------------------
(* The protocol between the three calls                                    *)

\* execute() starts the fetch again when it carries out a transfer, and does
\* nothing between the two bytes of an instruction.
LEMMA ExecuteKeeps ==
  ASSUME DecodeType, StallHasTransfer, SecondBytePending, Execute
  PROVE  StallHasTransfer' /\ SecondBytePending'
<1> USE DEF StallHasTransfer, SecondBytePending, fetchVars, decodeVars
<1>1. phase = "execute"
  BY DEF Execute, ExecuteDisabled, ExecuteNothing, ExecuteAlu, ExecuteLoad,
     ExecuteStore, ExecuteIllegalAccess, ExecuteJmp, ExecuteCallTaken,
     ExecuteCallNotTaken, ExecuteRet, Executing
<1>2. CASE ExecuteDisabled
  BY <1>1, <1>2 DEF ExecuteDisabled
<1>3. CASE ExecuteIllegalAccess
  BY <1>1, <1>3 DEF ExecuteIllegalAccess, Exit
<1>4. CASE ~ExecuteDisabled /\ ~ExecuteIllegalAccess
  <2>1. exec_params.execute_en /\ phase' = "idecode" /\ UNCHANGED <<imm_mode>>
    BY <1>4 DEF Execute, ExecuteNothing, ExecuteAlu, ExecuteLoad, ExecuteStore, ExecuteJmp,
       ExecuteCallTaken, ExecuteCallNotTaken, ExecuteRet, ExecuteReturns, Executing
  <2>2. CASE ExecuteNothing \/ ExecuteAlu \/ ExecuteLoad \/ ExecuteStore
    <3>1. ifetch_en /\ UNCHANGED ifetch_en
      BY <2>2 DEF ExecuteNothing, ExecuteAlu, ExecuteLoad, ExecuteStore, Executing,
         AluOps, Transfers
    <3> QED
      BY <2>1, <3>1
  <2>3. CASE ExecuteJmp \/ ExecuteCallTaken \/ ExecuteCallNotTaken \/ ExecuteRet
    <3>1. ifetch_en' = TRUE
      BY <2>3 DEF ExecuteJmp, ExecuteCallTaken, ExecuteCallNotTaken, ExecuteRet
    <3> QED
      BY <2>1, <3>1
  <2> QED
    BY <1>4, <2>2, <2>3 DEF Execute
<1> QED
  BY <1>2, <1>3, <1>4

\* idecode() stops the fetch for a transfer only, and only once it has the
\* transfer's last byte.
LEMMA IdecodeKeeps ==
  ASSUME DecodeType, StallHasTransfer, SecondBytePending, Idecode
  PROVE  StallHasTransfer' /\ SecondBytePending'
<1>1. CASE DecodeExits
  <2>1. UNCHANGED <<phase, ifetch_en, idecode_en, imm_mode, prev_instruction, exec_params>>
    BY <1>1 DEF DecodeExits, Exit, fetchVars, decodeVars
  <2> QED
    BY <2>1 DEF StallHasTransfer, SecondBytePending
<1>2. CASE ~DecodeExits
  <2>1. phase = "idecode" /\ phase' = "ifetch" /\ prev_instruction' = instruction
    BY <1>2 DEF Idecode, DecodeDisabled, DecodeSecondByte, DecodeNop, DecodeRet,
       DecodeHalt, DecodeControl, DecodeTransfer, DecodeAlu, DecodeMemory,
       FirstByte, Decoding, DecodeFirstByte, IdecodeReturns
  <2>2. ifetch_en
    BY <2>1 DEF StallHasTransfer
  <2>3. CASE DecodeDisabled
    <3>1. ~imm_mode /\ UNCHANGED <<imm_mode, ifetch_en>>
      BY <2>1, <2>3 DEF DecodeDisabled, SecondBytePending
    <3> QED
      BY <2>2, <3>1 DEF StallHasTransfer, SecondBytePending
  <2>4. CASE DecodeSecondByte
    <3>1. ~imm_mode'
      BY <2>4 DEF DecodeSecondByte
    <3>2. CASE ifetch_en'
      BY <3>1, <3>2 DEF StallHasTransfer, SecondBytePending
    <3>3. CASE ~ifetch_en'
      <4>1. Kind(prev_instruction) \in {"JMP", "CALL"}
        BY <2>2, <2>4, <3>3 DEF DecodeSecondByte
      <4>2. exec_params.execute_control \in Transfers
        BY <2>4, <4>1 DEF DecodeSecondByte, SecondBytePending, Transfers
      <4>3. exec_params'.execute_en /\ UNCHANGED exec_params.execute_control
        BY <2>4 DEF DecodeSecondByte, DecodeType, ExecParams
      <4> QED
        BY <2>1, <3>1, <4>2, <4>3 DEF StallHasTransfer, SecondBytePending
    <3> QED
      BY <3>2, <3>3
  <2>5. CASE DecodeRet
    <3>1. ~HasSecondByte(instruction)
      BY <2>5, SecondByteKind DEF DecodeRet, FirstByte, SecondByteKinds, AluOps, DecodeType
    <3>2. exec_params' = [[exec_params EXCEPT !.execute_control = "RET"]
                            EXCEPT !.execute_en = TRUE]
      BY <2>5, <3>1 DEF DecodeRet, DecodeFirstByte
    <3>3. exec_params'.execute_en /\ exec_params'.execute_control = "RET"
      BY <3>2 DEF DecodeType, ExecParams
    <3>4. ~imm_mode'
      BY <2>5, <3>1 DEF DecodeRet, DecodeFirstByte
    <3> QED
      BY <2>1, <3>3, <3>4 DEF StallHasTransfer, SecondBytePending, Transfers
  <2>6. CASE DecodeNop \/ DecodeHalt \/ DecodeControl
    <3>1. ~HasSecondByte(instruction)
      BY <2>6, SecondByteKind DEF DecodeNop, DecodeHalt, DecodeControl, FirstByte,
         SecondByteKinds, AluOps, CrOps, DecodeType
    <3>2. ~imm_mode' /\ UNCHANGED ifetch_en
      BY <2>6, <3>1 DEF DecodeNop, DecodeHalt, DecodeControl, DecodeFirstByte
    <3> QED
      BY <2>2, <3>2 DEF StallHasTransfer, SecondBytePending
  <2>7. CASE DecodeTransfer \/ DecodeAlu \/ DecodeMemory
    <3>1. /\ imm_mode' = HasSecondByte(instruction)
          /\ UNCHANGED ifetch_en
      BY <2>7 DEF DecodeTransfer, DecodeAlu, DecodeMemory, DecodeFirstByte
    <3>2. /\ exec_params'.execute_en = ~HasSecondByte(instruction)
          /\ exec_params'.execute_control = Kind(instruction)
      BY <2>7 DEF DecodeTransfer, DecodeAlu, DecodeMemory, DecodeFirstByte, WithOperands,
         DecodeType, ExecParams
    <3>3. HasSecondByte(instruction) => Kind(instruction) \in SecondByteKinds
      BY SecondByteKind DEF DecodeType
    <3> QED
      BY <2>1, <2>2, <3>1, <3>2, <3>3 DEF StallHasTransfer, SecondBytePending
  <2> QED
    BY <1>2, <2>3, <2>4, <2>5, <2>6, <2>7 DEF Idecode
<1> QED
  BY <1>1, <1>2

\* ifetch() hands over the second byte, and leaves a transfer alone.
LEMMA IfetchKeeps ==
  ASSUME StallHasTransfer, SecondBytePending, Ifetch
  PROVE  StallHasTransfer' /\ SecondBytePending'
<1> USE DEF StallHasTransfer, SecondBytePending, decodeVars, fetchVars
<1>1. CASE Fetch
  BY <1>1 DEF Fetch, Fetching, IfetchReturns
<1>2. CASE FetchOutOfBounds
  BY <1>2 DEF FetchOutOfBounds, Exit
<1>3. CASE FetchDisabled
  BY <1>3 DEF FetchDisabled, IfetchReturns
<1> QED
  BY <1>1, <1>2, <1>3 DEF Ifetch

\* Each call main() makes keeps the inductive invariant.
LEMMA Inductive == IInv /\ [Next]_vars => IInv'
<1> SUFFICES ASSUME IInv, [Next]_vars PROVE IInv'
  OBVIOUS
<1>1. TypeOK'
  BY NextControl, NextMemory, NextRegister, NextDecode DEF IInv, TypeOK
<1>2. CASE Execute
  BY <1>1, <1>2, ExecuteKeeps DEF IInv, TypeOK
<1>3. CASE Idecode
  BY <1>1, <1>3, IdecodeKeeps DEF IInv, TypeOK
<1>4. CASE Ifetch
  BY <1>1, <1>4, IfetchKeeps DEF IInv
<1>5. CASE UNCHANGED vars
  <2>1. UNCHANGED <<phase, ifetch_en, idecode_en, imm_mode, prev_instruction, exec_params>>
    BY <1>5 DEF vars, fetchVars, decodeVars
  <2> QED
    BY <1>1, <2>1 DEF IInv, StallHasTransfer, SecondBytePending
<1> QED
  BY <1>2, <1>3, <1>4, <1>5 DEF Next, Terminated

\* The inductive invariant holds throughout.
LEMMA Invariance == Spec => []IInv
<1>1. Init => IInv
  BY InitType DEF IInv, Init, StallHasTransfer, SecondBytePending
<1> QED
  BY <1>1, Inductive, PTL DEF Spec

\* Whenever fetching is stopped, a transfer that starts it again is on its
\* way through execute().
THEOREM StallCorrect == Spec => []StallHasTransfer
<1>1. IInv => StallHasTransfer
  BY DEF IInv
<1> QED
  BY <1>1, Invariance, PTL

\* The byte behind a first byte is the next one decoded, and idecode() never
\* reaches "FATAL: Something wrong with OPCODE".
THEOREM SecondByteCorrect == Spec => []SecondByteFollows
<1>1. IInv => SecondByteFollows
  BY DEF IInv, SecondBytePending, SecondByteFollows, SecondByteUnexpected,
     SecondByteKinds
<1> QED
  BY <1>1, Invariance, PTL

-----------------------------------------------------------------------------
(* The C model implements NoobsIsa: whatever execute(), idecode() and      *)
(* ifetch() do in a turn is one instruction of the abstract machine, or    *)
(* nothing of it. The abstract pc is exec_pc while an instruction is under *)
(* way, else the address of the byte to be decoded next; the invariant     *)
(* IsaInv says what is known of the instruction under way, so that what    *)
(* execute() does with exec_params is what the bytes at exec_pc call for.  *)
(*                                                                         *)
(* The theorem has one hypothesis about the program, PrefetchIntact: a     *)
(* store that overwrites the byte fetched but not decoded yet is seen by   *)
(* the abstract machine and not by the C model. A program whose stores     *)
(* stay inside the data memory meets it.                                   *)

\* The address of the next byte to be decoded.
Following == IF phase # "ifetch" /\ idecode_en THEN PrevPc ELSE pc

\* What is fetched lies in the memory and is what the memory holds.
Fetched ==
  /\ idecode_en \/ exec_params.execute_en \/ imm_mode => pc < INST_MEM_SIZE
  /\ idecode_en /\ phase # "ifetch" /\ PrevPc # 65535 =>
       instruction = instruction_mem[PrevPc]

\* Where an instruction under way may be, and which of the stages are busy.
Stages ==
  /\ halted => phase = "ifetch" /\ ifetch_en /\ exec_params.execute_en
  /\ exec_params.execute_en =>
       /\ phase # "idecode" /\ ~imm_mode
       /\ phase = "execute" =>
            (idecode_en <=> exec_params.execute_control \notin Transfers)
       /\ phase = "ifetch" /\ ~halted =>
            (ifetch_en <=> exec_params.execute_control \notin Transfers)

\* What a first byte has put into exec_params; the registers it has read have
\* not been written since.
Started(b) ==
  LET p0 == regs[GET_REG_PTR0(b)]
      p1 == regs[GET_REG_PTR1(b)]
      swap == Kind(b) = "SUB" /\ ~IS_IMM(b)
  IN
  /\ Kind(b) # "USR"
  /\ Kind(b) \in AluOps \cup Transfers \cup {"LD", "ST"} => exec_params.execute_control = Kind(b)
  /\ Kind(b) \in AluOps =>
       /\ exec_params.dst_reg = GET_REG_PTR1(b)
       /\ exec_params.src0_val = IF swap THEN p1 ELSE p0
       /\ ~IS_IMM(b) => exec_params.src1_val = IF swap THEN p0 ELSE p1
  /\ Kind(b) \in {"LD", "ST"} => exec_params.dst_reg = GET_LD_ST_REG_PTR(b)
  /\ Kind(b) = "NOP" => exec_params.execute_control = "EXEC_NOP"
  /\ Kind(b) \in CrOps => exec_params.execute_control = "EXEC_IDLE"
  /\ halted <=> Kind(b) = "HALT"

\* What its second byte has added.
Completed(b, second) ==
  /\ Kind(b) \in {"JMP", "CALL", "LD", "ST"} => exec_params.address = Address(b, second)
  /\ Kind(b) \in AluOps /\ IS_IMM(b) => exec_params.src1_val = second

\* An instruction at 65535 is not the program's.
UnderWay ==
  exec_pc # 65535 =>
    /\ imm_mode =>
         /\ exec_pc + 1 < INST_MEM_SIZE /\ Following = exec_pc + 1
         /\ prev_instruction = instruction_mem[exec_pc]
         /\ HasSecondByte(prev_instruction) /\ Started(prev_instruction)
    /\ exec_params.execute_en =>
         LET b == instruction_mem[exec_pc]
         IN  /\ exec_pc + 1 < INST_MEM_SIZE
             /\ Following = exec_pc + (IF HasSecondByte(b) THEN 2 ELSE 1)
             /\ Started(b)
             /\ HasSecondByte(b) => Completed(b, instruction_mem[exec_pc + 1])

\* What the refinement needs to know of the instructions under way.
IsaInv == status = "running" => Fetched /\ Stages /\ UnderWay

-----------------------------------------------------------------------------
(* The definitions of NoobsDefs are the same in both machines.             *)

\* How an instruction byte is decoded.
LEMMA SameKind ==
  /\ \A b : Arch!Kind(b) = Kind(b)
  /\ \A b : Arch!HasSecondByte(b) <=> HasSecondByte(b)
  /\ \A b : Arch!IS_IMM(b) <=> IS_IMM(b)
  /\ Arch!AluOps = AluOps /\ Arch!CrOps = CrOps
  /\ Arch!InstAddr = InstAddr /\ Arch!REG = REG
<1>1. \A b : Arch!Kind(b) = Kind(b)
  BY DEF Kind, Arch!Kind, MiscKind, Arch!MiscKind, GET_BASE_OP, Arch!GET_BASE_OP,
     GET_MC_CTRL_USR_OP, Arch!GET_MC_CTRL_USR_OP
<1>2. \A b : Arch!IS_IMM(b) <=> IS_IMM(b)
  BY DEF IS_IMM, Arch!IS_IMM, Bit, Arch!Bit
<1> QED
  BY <1>1, <1>2 DEF HasSecondByte, Arch!HasSecondByte, AluOps, CrOps, Arch!AluOps,
     Arch!CrOps, InstAddr, Arch!InstAddr, REG, Arch!REG

\* The ALU, the flags and the conditions.
LEMMA SameAlu ==
  /\ \A op, x, y : Arch!AluResult(op, x, y) = AluResult(op, x, y)
  /\ \A s, r : Arch!AluFlags(s, r) = AluFlags(s, r)
  /\ \A s : Arch!ClearFlags(s) = ClearFlags(s)
  /\ \A k, c : Arch!CrAfter(k, c) = CrAfter(k, c)
  /\ \A c, s : Arch!Taken(c, s) <=> Taken(c, s)
<1>1. \A op, x, y : Arch!AluResult(op, x, y) = AluResult(op, x, y)
  BY DEF Arch!AluResult, AluResult, Logic, Arch!Logic, BitOp, Arch!BitOp, Bit, Arch!Bit
<1>2. \A s, o, n, z : Arch!WithFlags(s, o, n, z) = WithFlags(s, o, n, z)
  BY DEF WithFlags, Arch!WithFlags, SR_Z, SR_NZ, SR_ST_OVF, SR_OVF, Arch!SR_Z,
     Arch!SR_NZ, Arch!SR_ST_OVF, Arch!SR_OVF, Bit, Arch!Bit
<1>3. \A k, c : Arch!CrAfter(k, c) = CrAfter(k, c)
  BY DEF CrAfter, Arch!CrAfter, SetBit, ClearBit, Arch!SetBit, Arch!ClearBit, Bit,
     Arch!Bit, CR_BCZ, CR_BCNZ, CR_ADR_MODE, Arch!CR_BCZ, Arch!CR_BCNZ, Arch!CR_ADR_MODE
<1>4. \A c, s : Arch!Taken(c, s) <=> Taken(c, s)
  BY DEF Taken, Arch!Taken, Bit, Arch!Bit, CR_BCZ, CR_BCNZ, Arch!CR_BCZ, Arch!CR_BCNZ,
     SR_Z, SR_NZ, SR_OVF, Arch!SR_Z, Arch!SR_NZ, Arch!SR_OVF
<1> QED
  BY <1>1, <1>2, <1>3, <1>4 DEF AluFlags, Arch!AluFlags, ClearFlags, Arch!ClearFlags

\* The memories, inside their bounds and outside.
LEMMA SameMemory ==
  /\ \A m, a : Arch!LoadOutcomes(m, a) = LoadOutcomes(m, a)
  /\ \A m, i, a, v : Arch!StoreOutcomes(m, i, a, v) = StoreOutcomes(m, i, a, v)
  /\ \A c, s : Arch!StackAddr(c, s) = StackAddr(c, s)
  /\ \A m : Arch!IsMemory(m) <=> IsMemory(m)
BY DEF LoadOutcomes, Arch!LoadOutcomes, Read, Arch!Read, DataAddr, Arch!DataAddr,
   StoreOutcomes, Arch!StoreOutcomes, Write, Arch!Write, InstAddr, Arch!InstAddr,
   StackAddr, Arch!StackAddr, IsMemory, Arch!IsMemory, BYTE, Arch!BYTE

\* The fields of an instruction.
LEMMA SameFields ==
  /\ \A a, b : Arch!Address(a, b) = Address(a, b)
  /\ \A b : Arch!GET_REG_PTR0(b) = GET_REG_PTR0(b)
  /\ \A b : Arch!GET_REG_PTR1(b) = GET_REG_PTR1(b)
  /\ \A b : Arch!GET_LD_ST_REG_PTR(b) = GET_LD_ST_REG_PTR(b)
  /\ \A x, w : Arch!Bit(x, w) = Bit(x, w)
  /\ Arch!CR_ADR_MODE = CR_ADR_MODE
BY DEF Address, Arch!Address, GET_REG_PTR0, Arch!GET_REG_PTR0, GET_REG_PTR1,
   Arch!GET_REG_PTR1, GET_LD_ST_REG_PTR, Arch!GET_LD_ST_REG_PTR, Bit, Arch!Bit,
   CR_ADR_MODE, Arch!CR_ADR_MODE

-----------------------------------------------------------------------------
(* The program counter.                                                    *)

\* The program counter and the address behind it, which wraps to 0.
LEMMA PcFacts ==
  ASSUME TypeOK
  PROVE  /\ pc \in WORD /\ PrevPc \in WORD /\ exec_pc \in WORD
         /\ PrevPc = IF pc = 0 THEN 65535 ELSE pc - 1
         /\ NextPc = IF pc = 65535 THEN 0 ELSE pc + 1
<1>1. pc \in WORD /\ exec_pc \in WORD
  BY DEF TypeOK, RegisterType
<1>2. \A n \in WORD : (n + 65535) % 65536 = IF n = 0 THEN 65535 ELSE n - 1
  BY SMT DEF WORD
<1>3. \A n \in WORD : (n + 1) % 65536 = IF n = 65535 THEN 0 ELSE n + 1
  BY SMT DEF WORD
<1>4. \A n \in WORD : (n + 65535) % 65536 \in WORD
  BY SMT DEF WORD
<1> QED
  BY <1>1, <1>2, <1>3, <1>4, SMT DEF PrevPc, NextPc

\* The sizes of the instruction memory the proofs use.
LEMMA Limits ==
  /\ INST_MEM_SIZE \in Nat /\ INST_MEM_SIZE > 1 /\ INST_MEM_SIZE <= 2048
  /\ InstAddr = 0 .. INST_MEM_SIZE - 1
BY InstMemAssumption, ReturnAssumption DEF InstAddr

\* The same of the state after a step.
LEMMA PcPrime ==
  ASSUME TypeOK'
  PROVE  PrevPc' = IF pc' = 0 THEN 65535 ELSE pc' - 1
<1>1. \A n \in WORD : (n + 65535) % 65536 = IF n = 0 THEN 65535 ELSE n - 1
  BY SMT DEF WORD
<1>2. pc' \in WORD
  BY DEF TypeOK, RegisterType
<1> QED
  BY <1>1, <1>2, SMT DEF PrevPc

-----------------------------------------------------------------------------
(* IsaInv is kept by each of the three calls.                              *)

\* What execute() leaves behind: nothing is under way in it any more, and
\* behind anything but a transfer the prefetched byte is still the next one.
LEMMA ExecuteKeepsIsa ==
  ASSUME TypeOK, IsaInv, status = "running", Execute, PrefetchKept
  PROVE  IsaInv'
<1>1. phase = "execute" /\ Fetched /\ Stages /\ UnderWay
  BY DEF IsaInv, Execute, ExecuteDisabled, ExecuteNothing, ExecuteAlu, ExecuteLoad,
     ExecuteStore, ExecuteIllegalAccess, ExecuteJmp, ExecuteCallTaken,
     ExecuteCallNotTaken, ExecuteRet, Executing
<1>2. CASE ExecuteDisabled
  <2>1. /\ ~exec_params.execute_en /\ phase' = "idecode"
        /\ UNCHANGED <<instruction_mem, pc, regs, halted, idecode_en, instruction,
                       prev_instruction, imm_mode, exec_pc, exec_params>>
    BY <1>2 DEF ExecuteDisabled, memories, cpuRegs, fetchVars, decodeVars
  <2>2. Following' = Following /\ PrevPc' = PrevPc
    BY <1>1, <2>1 DEF Following, PrevPc
  <2>3. Fetched' /\ Stages'
    BY <1>1, <2>1, <2>2 DEF Fetched, Stages
  <2>4. UnderWay'
    BY <1>1, <2>1, <2>2 DEF UnderWay, Started
  <2> QED
    BY <2>3, <2>4 DEF IsaInv
<1>3. CASE ExecuteIllegalAccess
  BY <1>3 DEF ExecuteIllegalAccess, Exit, IsaInv
<1>4. CASE ~ExecuteDisabled /\ ~ExecuteIllegalAccess
  <2>1. /\ exec_params.execute_en /\ ExecuteReturns
        /\ exec_params.execute_control \notin Transfers => UNCHANGED pc
    BY <1>4 DEF Execute, ExecuteNothing, ExecuteAlu, ExecuteLoad, ExecuteStore, ExecuteJmp,
       ExecuteCallTaken, ExecuteCallNotTaken, ExecuteRet, Executing, Transfers
  <2>2. /\ ~exec_params'.execute_en /\ ~halted' /\ ~imm_mode' /\ phase' = "idecode"
        /\ UNCHANGED <<idecode_en, instruction>>
    BY <1>1, <2>1 DEF ExecuteReturns, decodeVars, Stages, TypeOK, DecodeType, ExecParams
  <2>3. CASE ~idecode_en
    BY <2>2, <2>3 DEF IsaInv, Fetched, Stages, UnderWay
  <2>4. CASE idecode_en
    <3>1. UNCHANGED pc /\ PrevPc' = PrevPc
      BY <1>1, <2>1, <2>4 DEF Stages, PrevPc
    <3>2. pc < INST_MEM_SIZE
      BY <1>1, <2>4 DEF Fetched
    <3>3. PrevPc # 65535 => PrevPc \in InstAddr
      BY <3>2, PcFacts, Limits, SMT DEF WORD
    <3>4. PrevPc # 65535 => instruction = instruction_mem'[PrevPc]
      BY <1>1, <2>4, <3>3 DEF Fetched, PrefetchKept
    <3> QED
      BY <2>2, <3>1, <3>2, <3>4 DEF IsaInv, Fetched, Stages, UnderWay
  <2> QED
    BY <2>3, <2>4
<1> QED
  BY <1>2, <1>3, <1>4

\* The second byte completes what the first one started, and what has been
\* read for the first one is still what the registers hold.
LEMMA SecondByteKeepsIsa ==
  ASSUME IInv, IsaInv, status = "running", DecodeSecondByte
  PROVE  IsaInv'
<1> PICK b : b = prev_instruction
  OBVIOUS
<1> PICK second : second = instruction
  OBVIOUS
<1>1. /\ phase = "idecode" /\ idecode_en /\ imm_mode /\ Fetched /\ Stages /\ UnderWay
      /\ phase' = "ifetch" /\ ~imm_mode'
      /\ UNCHANGED <<instruction_mem, pc, regs, halted, exec_pc, idecode_en>>
  BY DEF DecodeSecondByte, Decoding, IdecodeReturns, IsaInv, memories
<1>2. /\ ~halted /\ ifetch_en /\ ~exec_params.execute_en /\ exec_params \in ExecParams
      /\ exec_params.execute_control = Kind(b) /\ Kind(b) \in SecondByteKinds
  BY <1>1 DEF Stages, IInv, SecondBytePending, TypeOK, DecodeType
<1>3. /\ exec_params'.execute_en
      /\ exec_params'.execute_control = Kind(b)
      /\ exec_params'.dst_reg = exec_params.dst_reg
      /\ exec_params'.src0_val = exec_params.src0_val
      /\ Kind(b) \in {"JMP", "CALL", "LD", "ST"} =>
           exec_params'.address = Address(b, second)
      /\ Kind(b) \in AluOps => exec_params'.src1_val = second
  BY <1>2 DEF DecodeSecondByte, ExecParams, AluOps
<1>4. ifetch_en' <=> Kind(b) \notin Transfers
  BY <1>2 DEF DecodeSecondByte, Transfers, AluOps, SecondByteKinds, IInv, TypeOK, ControlType
<1>5. Fetched' /\ Stages'
  BY <1>1, <1>2, <1>3, <1>4 DEF Fetched, Stages
<1>6. ASSUME exec_pc # 65535
      PROVE  UnderWay'
  <2>1. /\ exec_pc + 1 < INST_MEM_SIZE /\ PrevPc = exec_pc + 1
        /\ b = instruction_mem[exec_pc] /\ HasSecondByte(b) /\ Started(b)
    BY <1>1, <1>6 DEF UnderWay, Following
  <2>2. PrevPc # 65535 /\ pc = exec_pc + 2
    BY <2>1, PcFacts, Limits, SMT DEF IInv, WORD
  <2>3. Following' = exec_pc + 2 /\ second = instruction_mem[exec_pc + 1]
    BY <1>1, <2>1, <2>2 DEF Fetched, Following
  <2>4. b \in BYTE /\ (Kind(b) \in AluOps => IS_IMM(b))
    BY <2>1, KindLength DEF IInv, TypeOK, DecodeType
  <2>5. Started(b)'
    BY <1>1, <1>2, <1>3, <2>1, <2>4 DEF Started
  <2>6. Completed(b, second)'
    BY <1>3 DEF Completed
  <2> QED
    BY <1>1, <1>3, <2>1, <2>3, <2>5, <2>6 DEF UnderWay
<1>7. UnderWay'
  BY <1>1, <1>6 DEF UnderWay
<1> QED
  BY <1>5, <1>7 DEF IsaInv

\* What the handlers of a first byte have in common.
LEMMA FirstByteFields ==
  ASSUME RegisterType, DecodeType, Idecode, ~DecodeDisabled, ~DecodeSecondByte,
         ~DecodeExits
  PROVE  LET k == Kind(instruction) IN
         /\ phase = "idecode" /\ idecode_en /\ ~imm_mode
         /\ imm_mode' = HasSecondByte(instruction)
         /\ exec_params'.execute_en = ~HasSecondByte(instruction)
         /\ exec_pc' = PrevPc /\ phase' = "ifetch" /\ prev_instruction' = instruction
         /\ UNCHANGED <<status, instruction_mem, pc, regs, idecode_en, instruction>>
         /\ k # "USR"
         /\ halted' = IF k = "HALT" THEN TRUE ELSE halted
         /\ ifetch_en' = IF k = "RET" THEN FALSE ELSE ifetch_en
<1>1. exec_params \in ExecParams /\ WithOperands \in ExecParams
  BY OperandsType DEF DecodeType
<1>2. \A p \in ExecParams : DecodeFirstByte(p) =>
        /\ imm_mode' = HasSecondByte(instruction)
        /\ exec_params'.execute_en = ~HasSecondByte(instruction)
        /\ exec_pc' = PrevPc /\ phase' = "ifetch" /\ prev_instruction' = instruction
        /\ UNCHANGED <<status, instruction_mem, pc, regs, idecode_en, instruction>>
  BY DEF DecodeFirstByte, IdecodeReturns, ExecParams, memories
<1> USE DEF FirstByte, Decoding
<1>3. CASE DecodeNop
  <2>1. [exec_params EXCEPT !.execute_control = "EXEC_NOP"] \in ExecParams
    BY <1>1, ControlUpdate DEF ExecControls
  <2> QED
    BY <1>2, <1>3, <2>1 DEF DecodeNop
<1>4. CASE DecodeRet
  <2>1. [exec_params EXCEPT !.execute_control = "RET"] \in ExecParams
    BY <1>1, ControlUpdate DEF ExecControls
  <2> QED
    BY <1>2, <1>4, <2>1 DEF DecodeRet
<1>5. CASE DecodeHalt
  BY <1>1, <1>2, <1>5 DEF DecodeHalt
<1>6. CASE DecodeControl
  <2>1. [exec_params EXCEPT !.execute_control = "EXEC_IDLE"] \in ExecParams
    BY <1>1, ControlUpdate DEF ExecControls
  <2> QED
    BY <1>2, <1>6, <2>1 DEF DecodeControl, CrOps
<1>7. CASE DecodeTransfer
  <2>1. [exec_params EXCEPT !.execute_control = Kind(instruction)] \in ExecParams
    BY <1>1, <1>7, ControlUpdate DEF ExecControls, DecodeTransfer
  <2> QED
    BY <1>2, <1>7, <2>1 DEF DecodeTransfer
<1>8. CASE DecodeAlu
  <2>1. [WithOperands EXCEPT !.execute_control = Kind(instruction),
           !.dst_reg = GET_REG_PTR1(instruction)] \in ExecParams
    BY <1>1, <1>8, DestinationUpdate, PointerType DEF ExecControls, DecodeAlu, DecodeType
  <2> QED
    BY <1>2, <1>8, <2>1 DEF DecodeAlu, AluOps
<1>9. CASE DecodeMemory
  <2>1. [exec_params EXCEPT !.execute_control = Kind(instruction),
           !.dst_reg = GET_LD_ST_REG_PTR(instruction)] \in ExecParams
    BY <1>1, <1>9, DestinationUpdate, PointerType DEF ExecControls, DecodeMemory, DecodeType
  <2> QED
    BY <1>2, <1>9, <2>1 DEF DecodeMemory
<1> QED
  BY <1>3, <1>4, <1>5, <1>6, <1>7, <1>8, <1>9 DEF Idecode

\* What a first byte starts is what UnderWay says of it.
LEMMA FirstByteStarts ==
  ASSUME RegisterType, DecodeType, ~halted, Idecode, ~DecodeDisabled,
         ~DecodeSecondByte, ~DecodeExits, NEW b, b = instruction
  PROVE  /\ Started(b)'
         /\ Kind(b) # "HALT" /\ ~HasSecondByte(b) =>
              (exec_params'.execute_control \in Transfers <=> Kind(b) = "RET")
<1>1. exec_params \in ExecParams /\ b \in BYTE
  BY DEF DecodeType
<1>2. Kind(b) # "USR" /\ UNCHANGED regs /\ (halted' <=> Kind(b) = "HALT")
  BY FirstByteFields
<1> USE DEF FirstByte, DecodeFirstByte
<1>3. CASE DecodeNop
  <2>1. Kind(b) = "NOP" /\ exec_params'.execute_control = "EXEC_NOP"
    BY <1>1, <1>3 DEF DecodeNop, ExecParams
  <2> QED
    BY <1>2, <2>1 DEF Started, AluOps, CrOps, Transfers
<1>4. CASE DecodeRet
  <2>1. Kind(b) = "RET" /\ exec_params'.execute_control = "RET"
    BY <1>1, <1>4 DEF DecodeRet, ExecParams
  <2> QED
    BY <1>2, <2>1 DEF Started, AluOps, CrOps, Transfers
<1>5. CASE DecodeHalt
  <2>1. Kind(b) = "HALT"
    BY <1>5 DEF DecodeHalt
  <2> QED
    BY <1>2, <2>1 DEF Started, AluOps, CrOps, Transfers
<1>6. CASE DecodeControl
  <2>1. Kind(b) \in CrOps /\ exec_params'.execute_control = "EXEC_IDLE"
    BY <1>1, <1>6 DEF DecodeControl, ExecParams
  <2> QED
    BY <1>2, <2>1 DEF Started, AluOps, CrOps, Transfers
<1>7. CASE DecodeTransfer
  <2>1. Kind(b) \in {"JMP", "CALL"} /\ exec_params'.execute_control = Kind(b)
    BY <1>1, <1>7 DEF DecodeTransfer, ExecParams
  <2>2. HasSecondByte(b)
    BY <1>1, <2>1, KindLength
  <2> QED
    BY <1>2, <2>1, <2>2 DEF Started, AluOps, CrOps, Transfers
<1>8. CASE DecodeAlu
  <2> DEFINE p0 == regs[GET_REG_PTR0(b)]
             p1 == regs[GET_REG_PTR1(b)]
  <2>1. /\ Kind(b) \in AluOps /\ exec_params'.execute_control = Kind(b)
        /\ exec_params'.dst_reg = GET_REG_PTR1(b)
        /\ exec_params'.src0_val = IF Kind(b) = "SUB" /\ ~IS_IMM(b) THEN p1 ELSE p0
        /\ ~IS_IMM(b) => exec_params'.src1_val = IF Kind(b) = "SUB" THEN p0 ELSE p1
    BY <1>1, <1>8 DEF DecodeAlu, ExecParams, WithOperands
  <2> QED
    BY <1>2, <2>1 DEF Started, AluOps, CrOps, Transfers
<1>9. CASE DecodeMemory
  <2>1. /\ Kind(b) \in {"LD", "ST"} /\ exec_params'.execute_control = Kind(b)
        /\ exec_params'.dst_reg = GET_LD_ST_REG_PTR(b)
    BY <1>1, <1>9 DEF DecodeMemory, ExecParams
  <2> QED
    BY <1>2, <2>1 DEF Started, AluOps, CrOps, Transfers
<1> QED
  BY <1>3, <1>4, <1>5, <1>6, <1>7, <1>8, <1>9 DEF Idecode

\* After idecode() what it has decoded is under way: either execute() has it,
\* or its second byte is the next to come.
LEMMA IdecodeKeepsIsa ==
  ASSUME IInv, IsaInv, status = "running", Idecode
  PROVE  IsaInv'
<1>1. /\ phase = "idecode" \/ DecodeExits
      /\ Fetched /\ Stages /\ UnderWay
      /\ exec_params \in ExecParams /\ RegisterType /\ DecodeType
  BY DEF Idecode, IsaInv, DecodeDisabled, DecodeSecondByte, DecodeNop, DecodeRet,
     DecodeHalt, DecodeControl, DecodeTransfer, DecodeAlu, DecodeMemory,
     FirstByte, Decoding, IInv, TypeOK, DecodeType
<1>2. CASE DecodeExits
  BY <1>2 DEF DecodeExits, Exit, IsaInv
<1>3. CASE DecodeDisabled
  <2>1. ~imm_mode /\ ~halted
    BY <1>1, <1>3 DEF DecodeDisabled, Stages, IInv, SecondBytePending
  <2>2. /\ ~exec_params'.execute_en /\ ~imm_mode' /\ ~halted' /\ ~idecode_en'
        /\ phase' = "ifetch"
    BY <1>1, <1>3, <2>1 DEF DecodeDisabled, IdecodeReturns, ExecParams
  <2> QED
    BY <2>2 DEF IsaInv, Fetched, Stages, UnderWay
<1>4. CASE DecodeSecondByte
  BY <1>4, SecondByteKeepsIsa
<1>5. CASE ~DecodeExits /\ ~DecodeDisabled /\ ~DecodeSecondByte
  <2> PICK b : b = instruction
    OBVIOUS
  <2>1. /\ phase = "idecode" /\ idecode_en /\ ~imm_mode
        /\ imm_mode' = HasSecondByte(b)
        /\ exec_params'.execute_en = ~HasSecondByte(b)
        /\ exec_pc' = PrevPc /\ phase' = "ifetch" /\ prev_instruction' = b
        /\ UNCHANGED <<status, instruction_mem, pc, regs, idecode_en, instruction>>
        /\ Kind(b) # "USR"
        /\ halted' = IF Kind(b) = "HALT" THEN TRUE ELSE halted
        /\ ifetch_en' = IF Kind(b) = "RET" THEN FALSE ELSE ifetch_en
    BY <1>1, <1>5, FirstByteFields
  <2>2. ~halted /\ ifetch_en
    BY <1>1, <2>1 DEF Stages, IInv, StallHasTransfer
  <2>3. /\ Started(b)'
        /\ Kind(b) # "HALT" /\ ~HasSecondByte(b) =>
             (exec_params'.execute_control \in Transfers <=> Kind(b) = "RET")
    BY <1>1, <1>5, <2>2, FirstByteStarts
  <2>4. /\ HasSecondByte(b) => imm_mode' /\ ~exec_params'.execute_en
        /\ ~HasSecondByte(b) => ~imm_mode' /\ exec_params'.execute_en
    BY <2>1 DEF HasSecondByte
  <2>10. Kind(b) = "HALT" => ~HasSecondByte(b)
    BY <1>1, KindLength DEF DecodeType
  <2>5. Fetched'
    BY <1>1, <2>1, SMT DEF Fetched
  <2>9. Stages'
    <3>1. CASE HasSecondByte(b)
      BY <2>1, <2>2, <2>4, <2>10, <3>1, SMT DEF Stages
    <3>2. CASE ~HasSecondByte(b)
      BY <2>1, <2>2, <2>3, <2>4, <3>2, SMT DEF Stages
    <3> QED
      BY <3>1, <3>2
  <2>6. Following' = pc
    BY <2>1 DEF Following
  <2>7. ASSUME PrevPc # 65535
        PROVE  pc = PrevPc + 1 /\ pc < INST_MEM_SIZE /\ b = instruction_mem[PrevPc]
    BY <1>1, <2>1, <2>7, PcFacts, SMT DEF Fetched, IInv, WORD
  <2>8. UnderWay'
    <3>1. CASE HasSecondByte(b)
      BY <2>1, <2>3, <2>4, <2>6, <2>7, <3>1, SMT DEF UnderWay
    <3>2. CASE ~HasSecondByte(b)
      BY <2>1, <2>3, <2>4, <2>6, <2>7, <3>2, SMT DEF UnderWay
    <3> QED
      BY <3>1, <3>2
  <2> QED
    BY <2>5, <2>8, <2>9 DEF IsaInv
<1> QED
  BY <1>2, <1>3, <1>4, <1>5

\* ifetch() hands over the byte behind; main() leaves the loop once halted.
LEMMA IfetchKeepsIsa ==
  ASSUME IInv, IsaInv, status = "running", Ifetch
  PROVE  IsaInv'
<1>1. /\ phase = "ifetch" \/ FetchOutOfBounds
      /\ Fetched /\ Stages /\ UnderWay
  BY DEF Ifetch, Fetch, FetchDisabled, Fetching, IsaInv
<1>2. CASE FetchOutOfBounds
  BY <1>2 DEF FetchOutOfBounds, Exit, IsaInv
<1>3. CASE halted /\ ~FetchOutOfBounds
  BY <1>3 DEF Ifetch, Fetch, FetchDisabled, IfetchReturns, IsaInv
<1>4. CASE Fetch /\ ~halted
  <2>1. /\ phase = "ifetch" /\ ifetch_en /\ phase' = "execute" /\ idecode_en' = TRUE
        /\ NextPc < INST_MEM_SIZE /\ pc' = NextPc
        /\ instruction' \in IF pc \in InstAddr THEN {instruction_mem[pc]} ELSE STRAY_BYTES
        /\ UNCHANGED <<instruction_mem, regs, halted, prev_instruction, imm_mode,
                       exec_pc, exec_params>>
    BY <1>4 DEF Fetch, Fetching, IfetchReturns, memories, cpuRegs, decodeVars
  <2>2. TypeOK /\ TypeOK'
    <3>1. [Next]_vars
      BY DEF Next
    <3> QED
      BY <3>1, Inductive DEF IInv
  <2>3. PrevPc' = pc /\ (pc # 65535 => pc \in InstAddr)
    <3>1. PrevPc' = IF pc' = 0 THEN 65535 ELSE pc' - 1
      BY <2>2, PcPrime
    <3> QED
      BY <2>1, <2>2, <3>1, PcFacts, Limits, SMT DEF WORD
  <2>4. Following' = Following
    BY <2>1, <2>3 DEF Following
  <2>5. Fetched'
    BY <2>1, <2>3 DEF Fetched
  <2>6. Stages'
    BY <1>1, <1>4, <2>1 DEF Stages
  <2>7. UnderWay'
    BY <1>1, <2>1, <2>4, SMT DEF UnderWay, Started, Completed
  <2> QED
    BY <2>5, <2>6, <2>7 DEF IsaInv
<1>5. CASE FetchDisabled /\ ~halted
  <2>1. /\ phase = "ifetch" /\ ~ifetch_en /\ phase' = "execute" /\ ~idecode_en'
        /\ UNCHANGED <<instruction_mem, pc, regs, halted, prev_instruction, imm_mode,
                       exec_pc, exec_params>>
    BY <1>5 DEF FetchDisabled, IfetchReturns, memories, cpuRegs, decodeVars
  <2>2. /\ exec_params.execute_en /\ exec_params.execute_control \in Transfers
        /\ ~imm_mode
    BY <1>1, <2>1 DEF IInv, StallHasTransfer, Stages
  <2>3. Following' = Following
    BY <2>1 DEF Following
  <2> QED
    BY <1>1, <1>5, <2>1, <2>2, <2>3, SMT DEF IsaInv, Fetched, Stages, UnderWay, Started, Completed
<1> QED
  BY <1>2, <1>3, <1>4, <1>5 DEF Ifetch

\* Once it has ended the process does nothing more.
LEMMA EndedStays ==
  ASSUME Next, status # "running"
  PROVE  UNCHANGED vars
BY DEF Next, Execute, ExecuteDisabled, ExecuteNothing, ExecuteAlu, ExecuteLoad,
   ExecuteStore, ExecuteIllegalAccess, ExecuteJmp, ExecuteCallTaken,
   ExecuteCallNotTaken, ExecuteRet, Executing,
   Idecode, DecodeDisabled, DecodeSecondByte, DecodeExits, SecondByteUnexpected,
   DecodeNop, DecodeRet, DecodeHalt, DecodeControl, DecodeTransfer, DecodeAlu,
   DecodeMemory, FirstByte, Decoding,
   Ifetch, Fetch, FetchOutOfBounds, FetchDisabled, Fetching, Terminated

\* As long as the prefetched byte is left alone, the invariant is kept.
LEMMA IsaInductive ==
  ASSUME IInv, IsaInv, [Next]_vars, [PrefetchKept]_vars
  PROVE  IsaInv'
<1>1. CASE UNCHANGED vars
  BY <1>1 DEF IsaInv, Fetched, Stages, UnderWay, Started, Completed, Following, PrevPc,
     vars, memories, cpuRegs, fetchVars, decodeVars
<1>2. CASE status # "running" /\ Next
  <2>1. UNCHANGED vars
    BY <1>2, EndedStays
  <2> QED
    BY <1>1, <2>1
<1>3. CASE status = "running" /\ Next /\ PrefetchKept
  BY <1>3, ExecuteKeepsIsa, IdecodeKeepsIsa, IfetchKeepsIsa DEF Next, Terminated, IInv
<1> QED
  BY <1>1, <1>2, <1>3

-----------------------------------------------------------------------------
(* The abstract machine at an address of the program.                      *)

\* Nothing is under way at the start, and the abstract machine starts at 0.
LEMMA IsaInitially ==
  ASSUME Init
  PROVE  IsaInv /\ Arch!Init
<1>1. IInv
  BY InitType DEF Init, IInv, StallHasTransfer, SecondBytePending
<1>2. IsaInv
  BY DEF Init, IsaInv, Fetched, Stages, UnderWay
<1>3. ArchPc = 0
  BY DEF Init, ArchPc, Pending
<1> QED
  BY <1>1, <1>2, <1>3, SameMemory, SameKind DEF Init, Arch!Init, IInv, TypeOK, MemoryType,
     BYTE, Arch!BYTE, CR_SP_INIT_MSB, Arch!CR_SP_INIT_MSB

\* Before the process ends, the next instruction to take effect is the one in
\* execute() or between its two bytes, else the one behind.
LEMMA ArchPcRunning ==
  ASSUME status # "halted"
  PROVE  ArchPc = IF Pending \/ imm_mode THEN exec_pc ELSE Following
BY DEF ArchPc, Following

\* The same after a step.
LEMMA ArchPcAfter ==
  ASSUME status' # "halted"
  PROVE  ArchPc' = IF Pending' \/ imm_mode' THEN exec_pc' ELSE Following'
BY DEF ArchPc, Following

\* The abstract instruction at an address of the program.
LEMMA Instruction ==
  ASSUME IInv, NEW a, a = ArchPc, a \in Nat, a + 1 < INST_MEM_SIZE,
         NEW b, b = instruction_mem[a]
  PROVE  /\ b \in BYTE /\ Arch!First = b
         /\ Arch!Second = instruction_mem[a + 1]
         /\ Arch!Length = (IF HasSecondByte(b) THEN 2 ELSE 1)
         /\ Arch!Plus(1) = a + 1 /\ Arch!Plus(2) = a + 2
         /\ Arch!Plus(Arch!Length) = a + (IF HasSecondByte(b) THEN 2 ELSE 1)
<1>1. a \in InstAddr /\ a + 1 \in InstAddr
  BY Limits
<1>2. b \in BYTE
  BY <1>1 DEF IInv, TypeOK, MemoryType
<1>3. Arch!First = b
  BY <1>1, SameKind DEF Arch!First, Arch!ByteAt
<1>4. a < 2048
  BY Limits
<1>5. (a + 1) % 65536 = a + 1 /\ (a + 2) % 65536 = a + 2
  BY <1>4, SMT
<1>6. Arch!Plus(1) = a + 1 /\ Arch!Plus(2) = a + 2
  BY <1>5 DEF Arch!Plus
<1>7. Arch!Second = instruction_mem[a + 1]
  BY <1>1, <1>6, SameKind DEF Arch!Second, Arch!ByteAt
<1>8. Arch!Length = (IF HasSecondByte(b) THEN 2 ELSE 1)
  BY <1>3, SameKind DEF Arch!Length
<1> QED
  BY <1>2, <1>3, <1>6, <1>7, <1>8

\* When an instruction of the program is fatal.
LEMMA WhenFaulty ==
  ASSUME IInv, NEW a, a = ArchPc, a \in Nat, a + 1 < INST_MEM_SIZE,
         NEW b, b = instruction_mem[a]
  PROVE  Arch!Faulty <=>
           \/ Kind(b) = "USR"
           \/ Kind(b) \in {"JMP", "CALL"} /\ a + 2 >= INST_MEM_SIZE
           \/ Kind(b) \notin Transfers \cup CrOps /\ ~HasSecondByte(b) /\ a + 2 >= INST_MEM_SIZE
           \/ Kind(b) \notin Transfers \cup CrOps /\ HasSecondByte(b) /\ a + 3 >= INST_MEM_SIZE
           \/ Kind(b) = "LD" /\ Address(b, instruction_mem[a + 1]) = 7
           \/ Kind(b) = "ST" /\ Address(b, instruction_mem[a + 1]) \in {5, 7}
<1>1. /\ Arch!First = b /\ Arch!Second = instruction_mem[a + 1]
      /\ Arch!Length = (IF HasSecondByte(b) THEN 2 ELSE 1)
  BY Instruction
<1>2. Arch!Kind(Arch!First) = Kind(b) /\ Arch!CrOps = CrOps
  BY <1>1, SameKind
<1>3. Arch!IllegalAccess <=>
        \/ Kind(b) = "LD" /\ Address(b, instruction_mem[a + 1]) = 7
        \/ Kind(b) = "ST" /\ Address(b, instruction_mem[a + 1]) \in {5, 7}
  BY <1>1, <1>2, SameFields DEF Arch!IllegalAccess
<1>4. Arch!LastFetched >= INST_MEM_SIZE - 1 <=>
        \/ Kind(b) \in {"JMP", "CALL"} /\ a + 2 >= INST_MEM_SIZE
        \/ Kind(b) \notin Transfers \cup CrOps /\ ~HasSecondByte(b) /\ a + 2 >= INST_MEM_SIZE
        \/ Kind(b) \notin Transfers \cup CrOps /\ HasSecondByte(b) /\ a + 3 >= INST_MEM_SIZE
  <2>1. "RET" \notin CrOps /\ "JMP" \notin CrOps /\ "CALL" \notin CrOps
    BY DEF CrOps
  <2>2. CASE Kind(b) = "RET"
    <3>1. Arch!LastFetched = a
      BY <1>2, <2>2 DEF Arch!LastFetched
    <3> QED
      BY <2>2, <3>1, Limits DEF Transfers
  <2>3. CASE Kind(b) \in {"JMP", "CALL"}
    <3>1. Arch!LastFetched = a + 1
      BY <1>2, <2>3, <2>1 DEF Arch!LastFetched
    <3> QED
      BY <2>3, <3>1, Limits DEF Transfers
  <2>4. CASE Kind(b) \in CrOps
    <3>1. Arch!LastFetched = a
      BY <1>2, <2>4, <2>1 DEF Arch!LastFetched
    <3> QED
      BY <2>4, <2>1, <3>1, Limits DEF Transfers
  <2>5. CASE Kind(b) \notin Transfers \cup CrOps
    <3>1. Arch!LastFetched = a + (IF HasSecondByte(b) THEN 2 ELSE 1)
      BY <1>1, <1>2, <2>5 DEF Arch!LastFetched, Transfers
    <3> QED
      BY <2>5, <3>1, Limits DEF Transfers
  <2> QED
    BY <2>2, <2>3, <2>4, <2>5 DEF Transfers
<1>5. ~(ArchPc >= INST_MEM_SIZE - 1)
  BY Limits
<1> QED
  BY <1>2, <1>3, <1>4, <1>5 DEF Arch!Faulty

-----------------------------------------------------------------------------
(* Each call is an instruction, or none.                                   *)

\* The instruction under way is the program's.
InProgram == exec_pc # 65535

\* What execute() is about to carry out is the abstract machine's next
\* instruction, and nothing but its address can make it fatal.
LEMMA AboutToExecute ==
  ASSUME IInv, IsaInv, status = "running", phase = "execute",
         exec_params.execute_en, exec_params.execute_control # "EXEC_IDLE",
         InProgram, NEW b, b = instruction_mem[exec_pc],
         NEW second, second = instruction_mem[exec_pc + 1]
  PROVE  /\ b \in BYTE /\ second \in BYTE /\ ArchPc = exec_pc
         /\ Arch!First = b /\ Arch!Second = second
         /\ Kind(b) \in AluOps \cup Transfers \cup {"NOP", "LD", "ST"}
         /\ Kind(b) \in AluOps \cup Transfers \cup {"LD", "ST"} =>
              exec_params.execute_control = Kind(b)
         /\ Kind(b) = "NOP" => exec_params.execute_control = "EXEC_NOP"
         /\ Arch!Plus(Arch!Length) = Following
         /\ Kind(b) \in {"JMP", "CALL"} => Arch!Plus(2) = Following
         /\ Started(b) /\ (HasSecondByte(b) => Completed(b, second))
         /\ ~halted /\ ~imm_mode
         /\ Arch!Faulty <=>
              \/ Kind(b) = "LD" /\ exec_params.address = 7
              \/ Kind(b) = "ST" /\ exec_params.address \in {5, 7}
<1>1. Fetched /\ Stages /\ UnderWay
  BY DEF IsaInv
<1>2. ~halted /\ ~imm_mode /\ Pending
  BY <1>1 DEF Stages, Pending
<1>3. ArchPc = exec_pc
  BY <1>2, ArchPcRunning
<1>4. /\ exec_pc + 1 < INST_MEM_SIZE /\ Started(b)
      /\ Following = exec_pc + (IF HasSecondByte(b) THEN 2 ELSE 1)
      /\ HasSecondByte(b) => Completed(b, second)
  BY <1>1, SMT DEF UnderWay, InProgram
<1>5. exec_pc \in Nat
  BY PcFacts DEF IInv, WORD
<1>6. /\ b \in BYTE /\ Arch!First = b /\ Arch!Second = second
      /\ Arch!Plus(2) = exec_pc + 2
      /\ Arch!Plus(Arch!Length) = Following
  BY <1>3, <1>4, <1>5, Instruction
<1>7. second \in BYTE
  BY <1>4, <1>5, Limits DEF IInv, TypeOK, MemoryType
<1>8. /\ Kind(b) \in AluOps \cup Transfers \cup {"NOP", "LD", "ST"}
      /\ Kind(b) \in AluOps \cup Transfers \cup {"LD", "ST"} =>
           exec_params.execute_control = Kind(b)
      /\ Kind(b) = "NOP" => exec_params.execute_control = "EXEC_NOP"
  BY <1>2, <1>4, <1>6, KindLength DEF Started, Kinds, Transfers
<1>9. Kind(b) \in {"JMP", "CALL", "LD", "ST"} =>
        HasSecondByte(b) /\ exec_params.address = Address(b, second)
  BY <1>4, <1>6, KindLength DEF Completed
<1>10. /\ Kind(b) \in Transfers => Following < INST_MEM_SIZE
       /\ Kind(b) \notin Transfers => Following + 1 < INST_MEM_SIZE
  <2>1. pc < INST_MEM_SIZE
    BY <1>1 DEF Fetched
  <2>2. CASE Kind(b) \in Transfers
    <3>1. Following = pc
      BY <1>1, <1>8, <2>2 DEF Stages, Following
    <3> QED
      BY <2>1, <2>2, <3>1
  <2>3. CASE Kind(b) \notin Transfers
    <3>1. exec_params.execute_control \notin Transfers
      BY <1>8, <2>3 DEF Transfers
    <3>2. Following = PrevPc
      BY <1>1, <3>1 DEF Stages, Following
    <3>3. PrevPc = exec_pc + (IF HasSecondByte(b) THEN 2 ELSE 1)
      BY <1>4, <3>2
    <3>4. pc = PrevPc + 1
      BY <1>4, <1>5, <3>3, PcFacts, Limits, SMT DEF IInv, WORD
    <3> QED
      BY <1>4, <1>5, <2>1, <2>3, <3>2, <3>4
  <2> QED
    BY <2>2, <2>3
<1>11. Arch!Faulty <=>
         \/ Kind(b) = "LD" /\ exec_params.address = 7
         \/ Kind(b) = "ST" /\ exec_params.address \in {5, 7}
  <2>1. /\ Kind(b) \in {"JMP", "CALL"} => exec_pc + 2 < INST_MEM_SIZE
        /\ Kind(b) \notin Transfers \cup CrOps =>
             exec_pc + (IF HasSecondByte(b) THEN 3 ELSE 2) < INST_MEM_SIZE
    BY <1>4, <1>5, <1>9, <1>10, Limits DEF Transfers
  <2>2. Kind(b) # "USR"
    BY <1>8 DEF AluOps, Transfers
  <2>3. /\ ~(Kind(b) \in {"JMP", "CALL"} /\ exec_pc + 2 >= INST_MEM_SIZE)
        /\ ~(/\ Kind(b) \notin Transfers \cup CrOps /\ ~HasSecondByte(b)
             /\ exec_pc + 2 >= INST_MEM_SIZE)
        /\ ~(/\ Kind(b) \notin Transfers \cup CrOps /\ HasSecondByte(b)
             /\ exec_pc + 3 >= INST_MEM_SIZE)
    BY <1>5, <2>1, Limits
  <2>4. Arch!Faulty <=>
           \/ Kind(b) = "LD" /\ Address(b, second) = 7
           \/ Kind(b) = "ST" /\ Address(b, second) \in {5, 7}
    BY <1>3, <1>4, <1>5, <2>2, <2>3, WhenFaulty
  <2> QED
    BY <1>9, <2>4
<1>12. Kind(b) \in {"JMP", "CALL"} => Arch!Plus(2) = Following
  BY <1>4, <1>6, <1>9
<1> QED
  BY <1>2, <1>3, <1>4, <1>6, <1>7, <1>8, <1>11, <1>12

\* Where the program goes on after execute().
LEMMA AfterExecute ==
  ASSUME IInv, IsaInv, status = "running", phase = "execute",
         exec_params.execute_en, ExecuteReturns
  PROVE  /\ status' = "running"
         /\ exec_params.execute_control \in Transfers => ArchPc' = pc'
         /\ exec_params.execute_control \notin Transfers /\ UNCHANGED pc => ArchPc' = Following
<1>1. /\ ~exec_params'.execute_en /\ ~imm_mode' /\ phase' = "idecode" /\ status' = "running"
      /\ UNCHANGED idecode_en
      /\ idecode_en <=> exec_params.execute_control \notin Transfers
  BY DEF IsaInv, Stages, ExecuteReturns, decodeVars, IInv, TypeOK, DecodeType, ExecParams
<1>2. ArchPc' = Following'
  BY <1>1, ArchPcAfter DEF Pending
<1>3. exec_params.execute_control \in Transfers => Following' = pc'
  BY <1>1 DEF Following
<1>4. exec_params.execute_control \notin Transfers /\ UNCHANGED pc => Following' = Following
  BY <1>1 DEF Following, PrevPc
<1> QED
  BY <1>1, <1>2, <1>3, <1>4

\* The abstract machine may do an instruction that is not faulty.
LEMMA MayExecute ==
  ASSUME status = "running", NEW b, Arch!First = b, ~Arch!Faulty, NEW kinds,
         Kind(b) \in kinds
  PROVE  Arch!Executes(kinds)
BY SameKind DEF Arch!Executes

\* Whatever is done at 65535 is allowed.
LEMMA Anything ==
  ASSUME status = "running", ArchPc = 65535
  PROVE  Arch!Next
BY DEF Arch!Next, Arch!Wild

\* NOP and the ALU operations.
LEMMA ComputeStep ==
  ASSUME IInv, IsaInv, InProgram, exec_params.execute_control # "EXEC_IDLE",
         ExecuteNothing \/ ExecuteAlu
  PROVE  Arch!Next
<1> PICK b : b = instruction_mem[exec_pc]
  OBVIOUS
<1> PICK second : second = instruction_mem[exec_pc + 1]
  OBVIOUS
<1>1. /\ status = "running" /\ phase = "execute" /\ exec_params.execute_en
      /\ ExecuteReturns /\ UNCHANGED <<instruction_mem, data_mem, pc, sp, cr>>
      /\ exec_params.execute_control \in {"EXEC_NOP"} \cup AluOps
  BY DEF ExecuteNothing, ExecuteAlu, Executing, memories, cpuRegs
<1>2. /\ b \in BYTE /\ second \in BYTE /\ ArchPc = exec_pc
      /\ Arch!First = b /\ Arch!Second = second
      /\ Kind(b) \in AluOps \cup Transfers \cup {"NOP", "LD", "ST"}
      /\ Kind(b) \in AluOps \cup Transfers \cup {"LD", "ST"} =>
           exec_params.execute_control = Kind(b)
      /\ Kind(b) = "NOP" => exec_params.execute_control = "EXEC_NOP"
      /\ Arch!Plus(Arch!Length) = Following
      /\ Started(b) /\ (HasSecondByte(b) => Completed(b, second))
      /\ Arch!Faulty <=>
           \/ Kind(b) = "LD" /\ exec_params.address = 7
           \/ Kind(b) = "ST" /\ exec_params.address \in {5, 7}
  BY <1>1, AboutToExecute
<1>3. Kind(b) \in {"NOP"} \cup AluOps /\ ~Arch!Faulty
  BY <1>1, <1>2 DEF AluOps, Transfers
<1>4. exec_params.execute_control \notin Transfers
  BY <1>1 DEF AluOps, Transfers
<1>5. Arch!Continue
  BY <1>1, <1>2, <1>4, AfterExecute DEF Arch!Continue
<1>6. CASE ExecuteNothing
  <2>1. Kind(b) = "NOP"
    BY <1>2, <1>3, <1>6 DEF ExecuteNothing, Executing, AluOps
  <2>2. Arch!Executes({"NOP", "USR"})
    BY <1>1, <1>2, <1>3, <2>1, MayExecute
  <2>3. Arch!Nothing
    BY <1>1, <1>5, <1>6, <2>2 DEF Arch!Nothing, ExecuteNothing, cpuRegs
  <2> QED
    BY <2>3 DEF Arch!Next
<1>7. CASE ExecuteAlu
  <2> DEFINE src == regs[GET_REG_PTR0(b)]
             dst == regs[GET_REG_PTR1(b)]
             p   == exec_params
             r   == AluResult(p.execute_control, p.src0_val, p.src1_val)
  <2>1. Kind(b) \in AluOps /\ p.execute_control = Kind(b)
    BY <1>2, <1>3, <1>7 DEF ExecuteAlu, Executing, AluOps
  <2>2. /\ p.dst_reg = GET_REG_PTR1(b)
        /\ p.src0_val = IF Kind(b) = "SUB" /\ ~IS_IMM(b) THEN dst ELSE src
        /\ ~IS_IMM(b) => p.src1_val = IF Kind(b) = "SUB" /\ ~IS_IMM(b) THEN src ELSE dst
        /\ IS_IMM(b) => p.src1_val = second
    BY <1>2, <2>1, KindLength DEF Started, Completed
  <2>3. r = IF IS_IMM(b) THEN AluResult(Kind(b), src, second)
            ELSE AluResult(Kind(b), dst, src)
    <3>1. src \in BYTE /\ dst \in BYTE
      BY <1>2, PointerType DEF IInv, TypeOK, RegisterType
    <3>2. CASE IS_IMM(b) \/ Kind(b) = "SUB"
      BY <2>1, <2>2, <3>2
    <3>3. CASE ~IS_IMM(b) /\ Kind(b) # "SUB"
      <4>1. AluResult(Kind(b), dst, src) = AluResult(Kind(b), src, dst)
        BY <2>1, <3>1, <3>3, AluCommutes
      <4> QED
        BY <2>1, <2>2, <3>3, <4>1
    <3> QED
      BY <3>2, <3>3
  <2> HIDE DEF r
  <2>4. regs' = [regs EXCEPT ![GET_REG_PTR1(b)] = r % 256] /\ sr' = AluFlags(sr, r)
    BY <1>7, <2>2 DEF ExecuteAlu, r
  <2>5. Arch!Executes(Arch!AluOps)
    BY <1>1, <1>2, <1>3, <2>1, MayExecute, SameKind
  <2>6. /\ Arch!GET_REG_PTR1(Arch!First) = GET_REG_PTR1(b)
        /\ Arch!GET_REG_PTR0(Arch!First) = GET_REG_PTR0(b)
        /\ Arch!Kind(Arch!First) = Kind(b) /\ (Arch!IS_IMM(Arch!First) <=> IS_IMM(b))
        /\ Arch!AluResult(Kind(b), src, second) = AluResult(Kind(b), src, second)
        /\ Arch!AluResult(Kind(b), dst, src) = AluResult(Kind(b), dst, src)
        /\ Arch!AluFlags(sr, r) = AluFlags(sr, r)
    BY <1>2, SameAlu, SameFields, SameKind
  <2>7. Arch!Alu
    BY <1>1, <1>2, <1>5, <2>3, <2>4, <2>5, <2>6 DEF Arch!Alu
  <2> QED
    BY <2>7 DEF Arch!Next
<1> QED
  BY <1>6, <1>7

\* LOAD and STORE.
LEMMA MemoryStep ==
  ASSUME IInv, IsaInv, InProgram, ExecuteLoad \/ ExecuteStore
  PROVE  Arch!Next
<1> PICK b : b = instruction_mem[exec_pc]
  OBVIOUS
<1> PICK second : second = instruction_mem[exec_pc + 1]
  OBVIOUS
<1> PICK a \in ADDRESS : a = exec_params.address
  BY DEF IInv, TypeOK, DecodeType, ExecParams
<1>1. /\ status = "running" /\ phase = "execute" /\ exec_params.execute_en
      /\ ExecuteReturns /\ UNCHANGED <<pc, sr>>
      /\ exec_params.execute_control \in {"LD", "ST"}
  BY DEF ExecuteLoad, ExecuteStore, Executing
<1>2. /\ b \in BYTE /\ second \in BYTE /\ ArchPc = exec_pc
      /\ Arch!First = b /\ Arch!Second = second
      /\ Kind(b) \in AluOps \cup Transfers \cup {"NOP", "LD", "ST"}
      /\ Kind(b) \in AluOps \cup Transfers \cup {"LD", "ST"} =>
           exec_params.execute_control = Kind(b)
      /\ Kind(b) = "NOP" => exec_params.execute_control = "EXEC_NOP"
      /\ Arch!Plus(Arch!Length) = Following
      /\ Started(b) /\ (HasSecondByte(b) => Completed(b, second))
      /\ Arch!Faulty <=>
           \/ Kind(b) = "LD" /\ exec_params.address = 7
           \/ Kind(b) = "ST" /\ exec_params.address \in {5, 7}
  BY <1>1, AboutToExecute DEF Transfers
<1>3. /\ Kind(b) = exec_params.execute_control /\ a = Address(b, second)
      /\ exec_params.dst_reg = GET_LD_ST_REG_PTR(b)
  BY <1>1, <1>2, KindLength DEF Started, Completed, AluOps, Transfers
<1>4. a \in Nat
  BY DEF ADDRESS
<1>5. Arch!Continue
  BY <1>1, <1>2, AfterExecute DEF Arch!Continue, Transfers
<1>6. Arch!Effective(a) = EffectiveAddress
  BY SameFields DEF Arch!Effective, EffectiveAddress
<1>7. CASE ExecuteLoad
  <2>1. Kind(b) = "LD" /\ UNCHANGED <<instruction_mem, data_mem, cr, sp>>
    BY <1>3, <1>7 DEF ExecuteLoad, Executing, memories
  <2>2. a # 7
    BY <1>4, <1>7 DEF ExecuteLoad, ADDRESS
  <2>3. Arch!Executes({"LD"})
    BY <1>1, <1>2, <2>1, <2>2, MayExecute
  <2> DEFINE values == CASE a < 7 -> {Arch!Register(a)}
                         [] a = 7 -> STRAY_BYTES
                         [] OTHER -> LoadOutcomes(data_mem, EffectiveAddress)
  <2>4. \E v \in values : regs' = [regs EXCEPT ![GET_LD_ST_REG_PTR(b)] = v]
    <3>1. Arch!Register(a) = MappedRegister(a)
      BY DEF Arch!Register, MappedRegister
    <3>2. CASE a < 7
      <4>1. ~(a > 7)
        BY <1>4, <3>2 DEF ADDRESS
      <4>2. regs' = [regs EXCEPT ![GET_LD_ST_REG_PTR(b)] = MappedRegister(a)]
        BY <1>3, <1>7, <4>1 DEF ExecuteLoad
      <4>3. values = {MappedRegister(a)}
        BY <3>1, <3>2
      <4> HIDE DEF values
      <4> QED
        BY <4>2, <4>3
    <3>3. CASE ~(a < 7)
      <4>1. values = LoadOutcomes(data_mem, EffectiveAddress)
        BY <2>2, <3>3
      <4> HIDE DEF values
      <4> QED
        BY <1>3, <1>7, <3>3, <4>1 DEF ExecuteLoad
    <3> QED
      BY <3>2, <3>3
  <2>5. /\ Arch!Address(Arch!First, Arch!Second) = a
        /\ Arch!GET_LD_ST_REG_PTR(Arch!First) = GET_LD_ST_REG_PTR(b)
        /\ Arch!LoadOutcomes(data_mem, Arch!Effective(a)) = LoadOutcomes(data_mem, EffectiveAddress)
    BY <1>2, <1>3, <1>6, SameMemory, SameFields
  <2>6. Arch!Load
    BY <1>1, <1>5, <2>1, <2>3, <2>4, <2>5 DEF Arch!Load
  <2> QED
    BY <2>6 DEF Arch!Next
<1>8. CASE ExecuteStore
  <2> DEFINE v == regs[exec_params.dst_reg]
  <2>1. Kind(b) = "ST"
    BY <1>3, <1>8 DEF ExecuteStore, Executing
  <2>2. a \notin {5, 7}
    BY <1>4, <1>8 DEF ExecuteStore, ADDRESS, REG
  <2>3. Arch!Executes({"ST"})
    BY <1>1, <1>2, <2>1, <2>2, MayExecute
  <2>4. /\ regs' = IF a \in REG THEN [regs EXCEPT ![a] = v] ELSE regs
        /\ cr' = IF a = 4 THEN v ELSE cr
        /\ sp' = IF a = 6 THEN v ELSE sp
    BY <1>4, <1>8 DEF ExecuteStore, ADDRESS, REG
  <2>5. \E m \in IF a < 7 THEN {<<data_mem, instruction_mem>>}
                 ELSE StoreOutcomes(data_mem, instruction_mem, EffectiveAddress, v) :
          data_mem' = m[1] /\ instruction_mem' = m[2]
    <3>1. CASE a < 7
      <4>1. UNCHANGED <<data_mem, instruction_mem>>
        <5>1. ~(a > 7)
          BY <1>4, <3>1 DEF ADDRESS
        <5>2. UNCHANGED memories
          BY <1>8, <5>1 DEF ExecuteStore
        <5> QED
          BY <5>2 DEF memories
      <4> QED
        BY <3>1, <4>1
    <3>2. CASE ~(a < 7)
      BY <1>4, <1>8, <2>2, <3>2 DEF ExecuteStore, ADDRESS, REG
    <3> QED
      BY <3>1, <3>2
  <2>6. /\ Arch!Address(Arch!First, Arch!Second) = a /\ Arch!REG = REG
        /\ regs[Arch!GET_LD_ST_REG_PTR(Arch!First)] = v
        /\ Arch!StoreOutcomes(data_mem, instruction_mem, Arch!Effective(a), v) =
             StoreOutcomes(data_mem, instruction_mem, EffectiveAddress, v)
    BY <1>2, <1>3, <1>6, SameMemory, SameFields, SameKind
  <2> HIDE DEF v
  <2>7. Arch!Store
    BY <1>1, <1>5, <2>2, <2>3, <2>4, <2>5, <2>6 DEF Arch!Store
  <2> QED
    BY <2>7 DEF Arch!Next
<1> QED
  BY <1>7, <1>8

\* What stops the process in execute() is fatal to the abstract machine.
LEMMA IllegalAccessStep ==
  ASSUME IInv, IsaInv, InProgram, ExecuteIllegalAccess
  PROVE  Arch!Next
<1> PICK b : b = instruction_mem[exec_pc]
  OBVIOUS
<1>1. /\ status = "running" /\ phase = "execute" /\ exec_params.execute_en
      /\ \/ exec_params.execute_control = "LD" /\ exec_params.address = 7
         \/ exec_params.execute_control = "ST" /\ exec_params.address \in {5, 7}
  BY DEF ExecuteIllegalAccess, Executing
<1>2. /\ Kind(b) \in AluOps \cup Transfers \cup {"NOP", "LD", "ST"}
      /\ Kind(b) \in AluOps \cup Transfers \cup {"LD", "ST"} =>
           exec_params.execute_control = Kind(b)
      /\ Kind(b) = "NOP" => exec_params.execute_control = "EXEC_NOP"
      /\ Arch!Faulty <=>
           \/ Kind(b) = "LD" /\ exec_params.address = 7
           \/ Kind(b) = "ST" /\ exec_params.address \in {5, 7}
  BY <1>1, AboutToExecute
<1>3. Arch!Faulty
  BY <1>1, <1>2
<1>4. /\ status' = "exited" /\ UNCHANGED <<instruction_mem, data_mem, regs, sr, cr, sp>>
      /\ UNCHANGED <<phase, pc, halted, idecode_en, imm_mode, exec_pc, exec_params>>
  BY DEF ExecuteIllegalAccess, Exit, memories, cpuRegs, fetchVars, decodeVars
<1>5. ArchPc' = ArchPc
  BY <1>1, <1>4 DEF ArchPc, Pending, PrevPc
<1>6. Arch!Fatal
  BY <1>1, <1>3, <1>4, <1>5 DEF Arch!Fatal
<1> QED
  BY <1>6 DEF Arch!Next

\* The control transfers find themselves at the abstract pc, and pc behind them.
LEMMA AboutToTransfer ==
  ASSUME IInv, IsaInv, status = "running", phase = "execute",
         exec_params.execute_en, exec_params.execute_control \in Transfers,
         InProgram, ExecuteReturns,
         NEW a \in ADDRESS, a = exec_params.address
  PROVE  /\ Arch!Executes({exec_params.execute_control})
         /\ status' = "running" /\ ArchPc' = pc'
         /\ pc \in Nat /\ pc < 2048
         /\ exec_params.execute_control \in {"JMP", "CALL"} =>
              /\ Arch!Target = a
              /\ Arch!Plus(2) = pc /\ Arch!Plus(Arch!Length) = pc
<1> PICK b : b = instruction_mem[exec_pc]
  OBVIOUS
<1> PICK second : second = instruction_mem[exec_pc + 1]
  OBVIOUS
<1>1. /\ b \in BYTE /\ second \in BYTE /\ ArchPc = exec_pc
      /\ Arch!First = b /\ Arch!Second = second
      /\ Kind(b) \in AluOps \cup Transfers \cup {"NOP", "LD", "ST"}
      /\ Kind(b) \in AluOps \cup Transfers \cup {"LD", "ST"} =>
           exec_params.execute_control = Kind(b)
      /\ Kind(b) = "NOP" => exec_params.execute_control = "EXEC_NOP"
      /\ Arch!Plus(Arch!Length) = Following
      /\ Kind(b) \in {"JMP", "CALL"} => Arch!Plus(2) = Following
      /\ HasSecondByte(b) => Completed(b, second)
      /\ Arch!Faulty <=>
           \/ Kind(b) = "LD" /\ exec_params.address = 7
           \/ Kind(b) = "ST" /\ exec_params.address \in {5, 7}
  BY AboutToExecute DEF Transfers
<1>2. Kind(b) = exec_params.execute_control
  BY <1>1 DEF Transfers
<1>3. ~Arch!Faulty
  BY <1>1, <1>2 DEF Transfers
<1>4. Arch!Executes({exec_params.execute_control})
  BY <1>1, <1>2, <1>3, MayExecute
<1>5. status' = "running" /\ ArchPc' = pc'
  BY AfterExecute
<1>6. Following = pc /\ pc < INST_MEM_SIZE
  BY DEF IsaInv, Stages, Fetched, Following
<1>7. pc \in Nat /\ pc < 2048
  BY <1>6, PcFacts, Limits DEF IInv, WORD
<1>8. ASSUME exec_params.execute_control \in {"JMP", "CALL"}
      PROVE  Arch!Target = a
  <2>1. Address(b, second) = a
    BY <1>1, <1>2, <1>8, KindLength DEF Completed
  <2>2. a % 65536 = a
    <3>1. a \in 0 .. 2047
      BY DEF ADDRESS
    <3>2. \A n \in 0 .. 2047 : n % 65536 = n
      BY SMT
    <3> QED
      BY <3>1, <3>2
  <2> QED
    BY <1>1, <2>1, <2>2, SameFields DEF Arch!Target
<1> QED
  BY <1>1, <1>2, <1>4, <1>5, <1>6, <1>7, <1>8

\* Taken and not taken, JMP clears the flags; CALL and RET keep them.
LEMMA FlagsOfTransfers ==
  /\ Arch!FlagsAfter("JMP", Arch!Taken(cr, sr)) = ClearFlags(sr)
  /\ Arch!FlagsAfter("CALL", TRUE) = sr /\ Arch!FlagsAfter("CALL", FALSE) = sr
  /\ Arch!FlagsAfter("RET", TRUE) = sr
<1>1. /\ Arch!FlagsAfter("JMP", TRUE) = ClearFlags(sr)
      /\ Arch!FlagsAfter("JMP", FALSE) = ClearFlags(sr)
  BY SameAlu DEF Arch!FlagsAfter
<1>2. Arch!Taken(cr, sr) \in BOOLEAN
  BY DEF Arch!Taken
<1>3. Arch!FlagsAfter("JMP", Arch!Taken(cr, sr)) = ClearFlags(sr)
  <2>1. CASE Arch!Taken(cr, sr) = TRUE
    BY <1>1, <2>1
  <2>2. CASE Arch!Taken(cr, sr) = FALSE
    BY <1>1, <2>2
  <2> QED
    BY <1>2, <2>1, <2>2
<1>4. /\ Arch!FlagsAfter("CALL", TRUE) = sr /\ Arch!FlagsAfter("CALL", FALSE) = sr
      /\ Arch!FlagsAfter("RET", TRUE) = sr
  BY DEF Arch!FlagsAfter
<1> QED
  BY <1>3, <1>4

\* JMP, CALL and RET.
LEMMA TransferStep ==
  ASSUME IInv, IsaInv, InProgram,
         ExecuteJmp \/ ExecuteCallTaken \/ ExecuteCallNotTaken \/ ExecuteRet
  PROVE  Arch!Next
<1> PICK a \in ADDRESS : a = exec_params.address
  BY DEF IInv, TypeOK, DecodeType, ExecParams
<1>1. /\ status = "running" /\ phase = "execute" /\ exec_params.execute_en
      /\ exec_params.execute_control \in Transfers /\ ExecuteReturns
  BY DEF ExecuteJmp, ExecuteCallTaken, ExecuteCallNotTaken, ExecuteRet, Executing, Transfers
<1>2. /\ Arch!Executes({exec_params.execute_control})
      /\ status' = "running" /\ ArchPc' = pc'
      /\ pc \in Nat /\ pc < 2048
      /\ exec_params.execute_control \in {"JMP", "CALL"} =>
           /\ Arch!Target = a
           /\ Arch!Plus(2) = pc /\ Arch!Plus(Arch!Length) = pc
  BY <1>1, AboutToTransfer
<1>3. CASE ExecuteJmp
  <2>1. Arch!Executes({"JMP"}) /\ Arch!Target = a /\ Arch!Plus(2) = pc
    BY <1>2, <1>3 DEF ExecuteJmp, Executing
  <2>2. /\ pc' = IF Taken(cr, sr) THEN a ELSE pc
        /\ sr' = ClearFlags(sr) /\ UNCHANGED <<instruction_mem, data_mem, regs, cr, sp>>
    BY <1>3 DEF ExecuteJmp, memories
  <2>3. Arch!Jump
    BY <1>1, <1>2, <2>1, <2>2, SameAlu, FlagsOfTransfers DEF Arch!Jump
  <2> QED
    BY <2>3 DEF Arch!Next
<1>4. CASE ExecuteCallTaken
  <2> DEFINE top == StackAddr(cr, sp)
  <2>0. exec_params.execute_control = "CALL"
    BY <1>4 DEF ExecuteCallTaken, Executing
  <2>1. Arch!Executes({"CALL"}) /\ Arch!Target = a /\ Arch!Plus(2) = pc
    BY <1>2, <2>0
  <2>2. /\ pc' = a /\ sp' = (sp + 2) % 256 /\ UNCHANGED <<sr, cr, regs>>
        /\ Arch!Taken(cr, sr)
    BY <1>4, SameAlu DEF ExecuteCallTaken
  <2>3. (pc \div 256) % 8 = (pc \div 256) % 16
    BY <1>2, SMT
  <2>4. Arch!StackAddr(cr, sp) = top /\ Arch!NextSlot(top) = top + 1
    BY SameMemory DEF Arch!NextSlot
  <2>5. \E m \in StoreOutcomes(data_mem, instruction_mem, top, (pc \div 256) % 8) :
        \E n \in StoreOutcomes(m[1], m[2], top + 1, pc % 256) :
          data_mem' = n[1] /\ instruction_mem' = n[2]
    BY <1>4 DEF ExecuteCallTaken
  <2>6. \E m \in Arch!StoreOutcomes(data_mem, instruction_mem, Arch!StackAddr(cr, sp),
                                    (Arch!Plus(2) \div 256) % 16) :
        \E n \in Arch!StoreOutcomes(m[1], m[2], Arch!NextSlot(Arch!StackAddr(cr, sp)),
                                    Arch!Plus(2) % 256) :
          data_mem' = n[1] /\ instruction_mem' = n[2]
    BY <2>1, <2>3, <2>4, <2>5, SameMemory
  <2>7. ArchPc' = Arch!Target /\ sr' = Arch!FlagsAfter("CALL", TRUE)
    BY <1>2, <2>1, <2>2, FlagsOfTransfers
  <2>8. Arch!Call
    BY <1>1, <1>2, <2>1, <2>2, <2>6, <2>7 DEF Arch!Call
  <2> QED
    BY <2>8 DEF Arch!Next
<1>5. CASE ExecuteCallNotTaken
  <2>0. exec_params.execute_control = "CALL"
    BY <1>5 DEF ExecuteCallNotTaken, Executing
  <2>1. Arch!Executes({"CALL"}) /\ Arch!Plus(Arch!Length) = pc
    BY <1>2, <2>0
  <2>2. /\ UNCHANGED <<instruction_mem, data_mem, pc, sr, sp, cr, regs>>
        /\ ~Arch!Taken(cr, sr)
    BY <1>5, SameAlu DEF ExecuteCallNotTaken, memories, cpuRegs
  <2>3. Arch!Continue
    BY <1>1, <1>2, <2>1, <2>2 DEF Arch!Continue
  <2>4. sr' = Arch!FlagsAfter("CALL", FALSE)
    BY <2>2, FlagsOfTransfers
  <2>5. Arch!CallNotTaken
    BY <2>1, <2>2, <2>3, <2>4 DEF Arch!CallNotTaken
  <2> QED
    BY <2>5 DEF Arch!Next
<1>6. CASE ExecuteRet
  <2> DEFINE top == StackAddr(cr, sp)
  <2>0. exec_params.execute_control = "RET"
    BY <1>6 DEF ExecuteRet, Executing
  <2>1. Arch!Executes({"RET"})
    BY <1>2, <2>0
  <2>2. sp' = (sp + 254) % 256 /\ UNCHANGED <<instruction_mem, data_mem, sr, cr, regs>>
    BY <1>6 DEF ExecuteRet, memories
  <2>3. PICK hi \in LoadOutcomes(data_mem, top - 2), lo \in LoadOutcomes(data_mem, top - 1) :
          pc' = hi * 256 + lo
    BY <1>6 DEF ExecuteRet
  <2>4. (hi * 256 + lo) % 65536 = hi * 256 + lo
    <3>1. hi \in BYTE /\ lo \in BYTE
      BY LoadType DEF IInv, TypeOK, MemoryType
    <3> QED
      BY <3>1, SMT DEF BYTE
  <2>5. ArchPc' = (hi * 256 + lo) % 65536
    BY <1>2, <2>3, <2>4
  <2>6. /\ hi \in Arch!LoadOutcomes(data_mem, Arch!PreviousSlot(2))
        /\ lo \in Arch!LoadOutcomes(data_mem, Arch!PreviousSlot(1))
    BY <2>3, SameMemory DEF Arch!PreviousSlot
  <2>7. sr' = Arch!FlagsAfter("RET", TRUE)
    BY <2>2, FlagsOfTransfers
  <2> HIDE DEF top
  <2>8. Arch!Return
    BY <1>1, <1>2, <2>1, <2>2, <2>5, <2>6, <2>7, SMT DEF Arch!Return
  <2> QED
    BY <2>8 DEF Arch!Next
<1> QED
  BY <1>3, <1>4, <1>5, <1>6

\* idecode() carries out the control instructions; the process may end in it.
LEMMA ControlStep ==
  ASSUME IInv, IsaInv, status = "running", DecodeControl, ArchPc # 65535
  PROVE  Arch!Next
<1> PICK b : b = instruction
  OBVIOUS
<1>1. /\ phase = "idecode" /\ idecode_en /\ ~imm_mode /\ Kind(b) \in CrOps
      /\ Fetched /\ Stages /\ exec_params \in ExecParams /\ b \in BYTE
  BY DEF DecodeControl, FirstByte, Decoding, IsaInv, IInv, TypeOK, DecodeType
<1>2. ~HasSecondByte(b) /\ ~halted /\ ~exec_params.execute_en
  BY <1>1, KindLength DEF Stages
<1>3. ArchPc = PrevPc
  BY <1>1, <1>2, ArchPcRunning DEF Pending, Following
<1>4. PrevPc \in Nat /\ pc = PrevPc + 1 /\ pc < INST_MEM_SIZE /\ b = instruction_mem[PrevPc]
  BY <1>1, <1>3, PcFacts, SMT DEF Fetched, IInv, WORD
<1>5. /\ phase' = "ifetch" /\ exec_params'.execute_control = "EXEC_IDLE"
      /\ UNCHANGED <<status, instruction_mem, data_mem, pc, sr, sp, regs, halted>>
      /\ cr' = CrAfter(Kind(b), cr) /\ imm_mode' = HasSecondByte(b)
  BY <1>1 DEF DecodeControl, DecodeFirstByte, IdecodeReturns, ExecParams, memories
<1>6. ~imm_mode' /\ ~Pending'
  BY <1>2, <1>5 DEF Pending
<1>7. ArchPc' = pc
  BY <1>5, <1>6, ArchPcAfter DEF Following
<1>8. Arch!First = b /\ Arch!Plus(Arch!Length) = pc
  BY <1>2, <1>3, <1>4, Instruction
<1>9. ~Arch!Faulty
  <2>1. Kind(b) \notin {"USR", "LD", "ST"} \cup Transfers
    BY <1>1 DEF CrOps, Transfers
  <2> QED
    BY <1>1, <1>3, <1>4, <2>1, WhenFaulty DEF Transfers
<1>10. Arch!Executes(Arch!CrOps)
  BY <1>1, <1>8, <1>9, MayExecute, SameKind
<1>11. cr' = Arch!CrAfter(Arch!Kind(Arch!First), cr)
  BY <1>5, <1>8, SameKind, SameAlu
<1>12. Arch!Continue
  BY <1>5, <1>7, <1>8 DEF Arch!Continue
<1>13. Arch!Control
  BY <1>5, <1>10, <1>11, <1>12 DEF Arch!Control
<1> QED
  BY <1>13 DEF Arch!Next

\* "No USR defined OPs defined".
LEMMA DecodeExitStep ==
  ASSUME IInv, IsaInv, DecodeExits, ArchPc # 65535
  PROVE  Arch!Next
<1> PICK b : b = instruction
  OBVIOUS
<1>1. status = "running" /\ phase = "idecode" /\ idecode_en
  BY DEF DecodeExits, FirstByte, SecondByteUnexpected, Decoding
<1>2. /\ ~imm_mode /\ Kind(b) = "USR" /\ Exit
      /\ Fetched /\ Stages
  BY <1>1 DEF DecodeExits, FirstByte, SecondByteUnexpected, IsaInv, IInv,
     SecondBytePending, SecondByteKinds
<1>3. ArchPc = PrevPc
  BY <1>1, <1>2, ArchPcRunning DEF Pending, Following, Stages
<1>4. PrevPc \in Nat /\ PrevPc + 1 < INST_MEM_SIZE /\ b = instruction_mem[PrevPc]
  BY <1>1, <1>2, <1>3, PcFacts, SMT DEF Fetched, IInv, WORD
<1>5. Arch!Faulty
  BY <1>2, <1>3, <1>4, WhenFaulty
<1>6. /\ status' = "exited" /\ UNCHANGED <<instruction_mem, data_mem, regs, sr, cr, sp>>
      /\ UNCHANGED <<phase, pc, halted, idecode_en, imm_mode, exec_pc, exec_params>>
  BY <1>2 DEF Exit, memories, cpuRegs, fetchVars, decodeVars
<1>7. ArchPc' = ArchPc
  BY <1>1, <1>6 DEF ArchPc, Pending, PrevPc
<1>8. Arch!Fatal
  BY <1>1, <1>5, <1>6, <1>7 DEF Arch!Fatal
<1> QED
  BY <1>8 DEF Arch!Next

\* The rest of idecode() has no effect yet: the instruction it has started is
\* still the next to take effect.
LEMMA DecodeStutters ==
  ASSUME IInv, IsaInv, Idecode, ~DecodeControl, ~DecodeExits
  PROVE  UNCHANGED Arch!isaVars
<1>1. /\ status = "running" /\ phase = "idecode" /\ phase' = "ifetch"
      /\ UNCHANGED <<status, instruction_mem, data_mem, pc, sr, sp, cr, regs>>
  BY DEF Idecode, DecodeDisabled, DecodeSecondByte, DecodeNop, DecodeRet,
     DecodeHalt, DecodeTransfer, DecodeAlu, DecodeMemory, FirstByte, Decoding,
     DecodeFirstByte, IdecodeReturns, memories
<1>2. /\ ~exec_params.execute_en /\ exec_params \in ExecParams
      /\ RegisterType /\ DecodeType /\ ~halted /\ Stages
  BY <1>1 DEF IsaInv, Stages, IInv, TypeOK, DecodeType
<1>3. ArchPc = IF imm_mode THEN exec_pc ELSE Following
  BY <1>1, <1>2, ArchPcRunning DEF Pending
<1>4. ArchPc' = IF Pending' \/ imm_mode' THEN exec_pc' ELSE pc
  BY <1>1, ArchPcAfter DEF Following
<1>5. CASE DecodeDisabled
  <2>1. ~imm_mode /\ ~idecode_en
    BY <1>1, <1>5 DEF DecodeDisabled, IInv, SecondBytePending
  <2>2. ~imm_mode' /\ ~Pending'
    BY <1>2, <1>5, <2>1 DEF DecodeDisabled, ExecParams, Pending
  <2>3. ArchPc' = ArchPc
    BY <1>3, <1>4, <2>1, <2>2 DEF Following
  <2> QED
    BY <1>1, <2>3 DEF Arch!isaVars
<1>6. CASE DecodeSecondByte
  <2> PICK b : b = prev_instruction
    OBVIOUS
  <2>1. /\ imm_mode /\ exec_params.execute_control = Kind(b)
        /\ Kind(b) \in SecondByteKinds
    BY <1>1, <1>6 DEF DecodeSecondByte, IInv, SecondBytePending
  <2>2. UNCHANGED exec_pc /\ exec_params'.execute_en /\ exec_params'.execute_control = Kind(b)
    BY <1>2, <1>6, <2>1 DEF DecodeSecondByte, ExecParams
  <2>3. Pending'
    BY <2>1, <2>2 DEF Pending, SecondByteKinds, AluOps
  <2>4. ArchPc' = ArchPc
    BY <1>3, <1>4, <2>1, <2>2, <2>3
  <2> QED
    BY <1>1, <2>4 DEF Arch!isaVars
<1>7. CASE ~DecodeDisabled /\ ~DecodeSecondByte
  <2> PICK b : b = instruction
    OBVIOUS
  <2>1. /\ idecode_en /\ ~imm_mode /\ imm_mode' = HasSecondByte(b)
        /\ exec_params'.execute_en = ~HasSecondByte(b)
        /\ exec_pc' = PrevPc
        /\ halted' = IF Kind(b) = "HALT" THEN TRUE ELSE halted
    BY <1>2, <1>7, FirstByteFields
  <2>2. /\ HasSecondByte(b) => imm_mode'
        /\ ~HasSecondByte(b) => exec_params'.execute_en
    BY <2>1 DEF HasSecondByte
  <2>3. b \in BYTE /\ Started(b)'
    BY <1>2, <1>7, FirstByteStarts DEF DecodeType
  <2>4. Kind(b) \notin CrOps
    BY <1>7 DEF Idecode, DecodeNop, DecodeRet, DecodeHalt, DecodeTransfer, DecodeAlu,
       DecodeMemory, FirstByte, CrOps, AluOps
  <2>5. exec_params'.execute_control # "EXEC_IDLE" \/ halted'
    BY <2>3, <2>4, KindLength DEF Started, Kinds, AluOps, Transfers
  <2>6. Pending' \/ imm_mode'
    BY <2>2, <2>5 DEF Pending
  <2>7. ArchPc = PrevPc
    BY <1>1, <1>3, <2>1 DEF Following
  <2>8. ArchPc' = ArchPc
    BY <1>4, <2>1, <2>6, <2>7
  <2> QED
    BY <1>1, <2>8 DEF Arch!isaVars
<1> QED
  BY <1>5, <1>6, <1>7

\* exit(1) at a faulty instruction.
LEMMA OutOfBoundsFatal ==
  ASSUME status = "running", FetchOutOfBounds, Arch!Faulty
  PROVE  Arch!Next
<1>1. /\ status' = "exited" /\ UNCHANGED <<instruction_mem, data_mem, regs, sr, cr, sp>>
      /\ UNCHANGED <<phase, pc, halted, idecode_en, imm_mode, exec_pc, exec_params>>
  BY DEF FetchOutOfBounds, Exit, memories, cpuRegs, fetchVars, decodeVars
<1>2. ArchPc' = ArchPc
  BY <1>1 DEF ArchPc, Pending, PrevPc
<1>3. Arch!Fatal
  BY <1>1, <1>2 DEF Arch!Fatal
<1> QED
  BY <1>3 DEF Arch!Next

\* HALT has its effect when main() leaves the loop.
LEMMA HaltStep ==
  ASSUME IInv, IsaInv, status = "running", halted, Fetch \/ FetchDisabled, ArchPc # 65535
  PROVE  Arch!Next
<1>1. /\ phase = "ifetch" /\ ifetch_en /\ exec_params.execute_en /\ ~imm_mode
      /\ Fetched /\ UnderWay
  BY DEF IsaInv, Stages
<1>2. /\ Fetch /\ NextPc < INST_MEM_SIZE
      /\ status' = "halted" /\ UNCHANGED <<instruction_mem, data_mem, sr, sp, cr, regs, exec_pc>>
  BY <1>1 DEF Fetch, FetchDisabled, IfetchReturns, memories, cpuRegs, decodeVars
<1>3. ArchPc = exec_pc
  BY <1>1, ArchPcRunning DEF Pending
<1> PICK b : b = instruction_mem[exec_pc]
  OBVIOUS
<1>4. /\ exec_pc \in Nat /\ exec_pc + 1 < INST_MEM_SIZE /\ b \in BYTE
      /\ Following = exec_pc + (IF HasSecondByte(b) THEN 2 ELSE 1)
      /\ Started(b)
  <2>1. exec_pc \in Nat
    BY PcFacts DEF IInv, WORD
  <2>2. /\ exec_pc + 1 < INST_MEM_SIZE /\ Started(b)
        /\ Following = exec_pc + (IF HasSecondByte(b) THEN 2 ELSE 1)
    BY <1>1, <1>3, SMT DEF UnderWay
  <2>3. b \in BYTE
    BY <2>1, <2>2, Limits DEF IInv, TypeOK, MemoryType
  <2> QED
    BY <2>1, <2>2, <2>3
<1>5. Kind(b) = "HALT" /\ ~HasSecondByte(b)
  BY <1>4, KindLength DEF Started
<1>6. exec_pc + 2 < INST_MEM_SIZE
  <2>1. pc = exec_pc + 1
    BY <1>1, <1>4, <1>5 DEF Following
  <2> QED
    BY <1>2, <1>4, <2>1, PcFacts, Limits, SMT DEF IInv, WORD
<1>7. ~Arch!Faulty
  <2>1. "HALT" \notin CrOps \cup Transfers
    BY DEF CrOps, Transfers
  <2> QED
    BY <1>3, <1>4, <1>5, <1>6, <2>1, Limits, WhenFaulty
<1>8. Arch!First = b /\ Arch!Plus(1) = exec_pc + 1
  BY <1>3, <1>4, Instruction
<1>9. Arch!Executes({"HALT"})
  BY <1>5, <1>7, <1>8, MayExecute
<1>10. ArchPc' = exec_pc + 1
  <2>1. (exec_pc + 1) % 65536 = exec_pc + 1
    BY <1>4, Limits, SMT
  <2> QED
    BY <1>2, <2>1 DEF ArchPc
<1>11. Arch!Halt
  BY <1>2, <1>8, <1>9, <1>10 DEF Arch!Halt
<1> QED
  BY <1>11 DEF Arch!Next

\* A fetch behind the memory is fatal for the instruction that needs the byte
\* or is followed by it.
LEMMA OutOfBoundsStep ==
  ASSUME IInv, IsaInv, FetchOutOfBounds, ArchPc # 65535
  PROVE  Arch!Next
<1>1. /\ status = "running" /\ phase = "ifetch" /\ ifetch_en
      /\ Fetched /\ Stages /\ UnderWay /\ Following = pc
  BY DEF FetchOutOfBounds, Fetching, IsaInv, Following
<1>2. pc \in Nat /\ pc + 1 >= INST_MEM_SIZE
  BY PcFacts, Limits, SMT DEF FetchOutOfBounds, IInv, WORD
<1>3. exec_pc \in Nat
  BY PcFacts DEF IInv, WORD
<1> PICK b : b = instruction_mem[exec_pc]
  OBVIOUS
<1>4. CASE ~Pending /\ ~imm_mode
  <2>1. ArchPc = pc
    BY <1>1, <1>4, ArchPcRunning
  <2> QED
    BY <2>1, <1>1, <1>2, OutOfBoundsFatal, Limits DEF Arch!Faulty
<1>5. CASE imm_mode
  <2>1. ArchPc = exec_pc
    BY <1>1, <1>5, ArchPcRunning
  <2>2. exec_pc + 1 < INST_MEM_SIZE /\ pc = exec_pc + 1 /\ HasSecondByte(b) /\ b \in BYTE
    BY <1>1, <1>5, <2>1, SMT DEF UnderWay, IInv, TypeOK, DecodeType
  <2>3. Kind(b) \in {"JMP", "CALL"} \/ Kind(b) \notin Transfers \cup CrOps
    BY <2>2, KindLength DEF Transfers
  <2>4. Arch!Faulty
    BY <1>2, <1>3, <2>1, <2>2, <2>3, Limits, WhenFaulty
  <2> QED
    BY <1>1, <2>4, OutOfBoundsFatal
<1>6. CASE Pending /\ ~imm_mode
  <2>1. ArchPc = exec_pc /\ exec_params.execute_en
    BY <1>1, <1>6, ArchPcRunning DEF Pending
  <2>2. /\ exec_pc + 1 < INST_MEM_SIZE /\ Started(b)
        /\ pc = exec_pc + (IF HasSecondByte(b) THEN 2 ELSE 1)
    BY <1>1, <2>1, SMT DEF UnderWay
  <2>3. b \in BYTE
    BY <1>3, <2>2, Limits DEF IInv, TypeOK, MemoryType
  <2>4. Kind(b) \notin Transfers \cup CrOps
    <3>1. CASE halted
      BY <2>2, <3>1 DEF Started, Transfers, CrOps
    <3>2. CASE ~halted
      <4>1. exec_params.execute_control \notin Transfers \cup {"EXEC_IDLE"}
        BY <1>1, <1>6, <2>1, <3>2 DEF Stages, Pending
      <4> QED
        BY <2>2, <4>1 DEF Started
    <3> QED
      BY <3>1, <3>2
  <2>5. Arch!Faulty
    <3>1. CASE HasSecondByte(b)
      BY <1>2, <1>3, <2>1, <2>2, <2>4, <3>1, Limits, WhenFaulty
    <3>2. CASE ~HasSecondByte(b)
      BY <1>2, <1>3, <2>1, <2>2, <2>4, <3>2, Limits, WhenFaulty
    <3> QED
      BY <3>1, <3>2
  <2> QED
    BY <1>1, <2>5, OutOfBoundsFatal
<1> QED
  BY <1>4, <1>5, <1>6

\* The rest of ifetch() has no effect the programmer sees.
LEMMA FetchStutters ==
  ASSUME IInv, IsaInv, status = "running", ~halted, Fetch \/ FetchDisabled
  PROVE  UNCHANGED Arch!isaVars
<1>1. /\ phase = "ifetch" /\ phase' = "execute"
      /\ UNCHANGED <<status, instruction_mem, data_mem, sr, sp, cr, regs, halted,
                     imm_mode, exec_pc, exec_params>>
  BY DEF Fetch, FetchDisabled, Fetching, IfetchReturns, memories, cpuRegs, decodeVars
<1>2. Following' = pc
  <2>1. CASE FetchDisabled
    BY <1>1, <2>1 DEF FetchDisabled, Following
  <2>2. CASE Fetch
    <3>1. TypeOK'
      <4>1. [Next]_vars
        BY <2>2 DEF Next, Ifetch
      <4> QED
        BY <4>1, Inductive DEF IInv
    <3>2. PrevPc' = IF pc' = 0 THEN 65535 ELSE pc' - 1
      BY <3>1, PcPrime
    <3>3. pc' = NextPc /\ idecode_en'
      BY <2>2 DEF Fetch
    <3>4. PrevPc' = pc
      BY <3>2, <3>3, PcFacts, SMT DEF IInv, WORD
    <3> QED
      BY <1>1, <3>3, <3>4 DEF Following
  <2> QED
    BY <2>1, <2>2
<1>3. ArchPc' = ArchPc
  BY <1>1, <1>2, ArchPcRunning, ArchPcAfter DEF Pending, Following
<1> QED
  BY <1>1, <1>3 DEF Arch!isaVars

\* Each call main() makes is a step of the abstract machine, or none of it.
LEMMA StepRefines ==
  ASSUME IInv, IsaInv, [Next]_vars
  PROVE  [Arch!Next]_(Arch!isaVars)
<1>1. CASE UNCHANGED vars
  <2>1. ArchPc' = ArchPc
    BY <1>1 DEF vars, fetchVars, decodeVars, ArchPc, Pending, PrevPc
  <2> QED
    BY <1>1, <2>1 DEF vars, memories, cpuRegs, Arch!isaVars
<1>2. CASE Next /\ status # "running"
  <2>1. UNCHANGED vars
    BY <1>2, EndedStays
  <2> QED
    BY <1>1, <2>1
<1>3. CASE status = "running" /\ ArchPc = 65535
  BY <1>3, Anything
<1>4. CASE status = "running" /\ ArchPc # 65535 /\ Execute
  <2>1. CASE ExecuteDisabled
    <3>1. /\ UNCHANGED <<status, instruction_mem, data_mem, pc, sr, sp, cr, regs, halted,
                         idecode_en, imm_mode, exec_pc, exec_params>>
          /\ phase = "execute" /\ phase' = "idecode"
      BY <2>1 DEF ExecuteDisabled, memories, cpuRegs, fetchVars, decodeVars
    <3>2. ArchPc' = ArchPc
      BY <3>1 DEF ArchPc, Pending, PrevPc
    <3> QED
      BY <3>1, <3>2 DEF Arch!isaVars
  <2>2. CASE ExecuteNothing /\ exec_params.execute_control = "EXEC_IDLE"
    <3>1. /\ phase = "execute" /\ exec_params.execute_en /\ ExecuteReturns
          /\ UNCHANGED <<instruction_mem, data_mem, pc, sr, sp, cr, regs>>
      BY <2>2 DEF ExecuteNothing, Executing, memories, cpuRegs
    <3>2. ~Pending /\ ~imm_mode
      BY <1>4, <2>2, <3>1 DEF Pending, IsaInv, Stages
    <3>3. ArchPc' = ArchPc
      BY <1>4, <2>2, <3>1, <3>2, AfterExecute, ArchPcRunning DEF Transfers
    <3>4. UNCHANGED status
      BY <3>1 DEF ExecuteReturns
    <3> QED
      BY <3>1, <3>3, <3>4 DEF Arch!isaVars
  <2>3. CASE ~ExecuteDisabled /\ exec_params.execute_control # "EXEC_IDLE"
    <3>1. Pending
      BY <1>4, <2>3 DEF Execute, ExecuteNothing, ExecuteAlu, ExecuteLoad, ExecuteStore,
         ExecuteIllegalAccess, ExecuteJmp, ExecuteCallTaken, ExecuteCallNotTaken,
         ExecuteRet, Executing, Pending
    <3>2. InProgram
      BY <1>4, <3>1, ArchPcRunning DEF InProgram
    <3> QED
      BY <1>4, <2>3, <3>2, ComputeStep, MemoryStep, IllegalAccessStep, TransferStep
         DEF Execute
  <2>4. exec_params.execute_control = "EXEC_IDLE" => ExecuteDisabled \/ ExecuteNothing
    BY <1>4 DEF Execute, ExecuteAlu, ExecuteLoad, ExecuteStore,
       ExecuteIllegalAccess, ExecuteJmp, ExecuteCallTaken, ExecuteCallNotTaken,
       ExecuteRet, Executing, AluOps
  <2> QED
    BY <2>1, <2>2, <2>3, <2>4
<1>5. CASE status = "running" /\ ArchPc # 65535 /\ Idecode
  BY <1>5, ControlStep, DecodeExitStep, DecodeStutters
<1>6. CASE status = "running" /\ ArchPc # 65535 /\ Ifetch
  <2>1. CASE FetchOutOfBounds
    BY <1>6, <2>1, OutOfBoundsStep
  <2>2. CASE (Fetch \/ FetchDisabled) /\ halted
    BY <1>6, <2>2, HaltStep
  <2>3. CASE (Fetch \/ FetchDisabled) /\ ~halted
    BY <1>6, <2>3, FetchStutters
  <2> QED
    BY <1>6, <2>1, <2>2, <2>3 DEF Ifetch
<1> QED
  BY <1>1, <1>2, <1>3, <1>4, <1>5, <1>6 DEF Next, Terminated

\* The C model implements the instruction set.
THEOREM IsaCorrect == Spec /\ PrefetchIntact => ImplementsIsa
<1>1. Init => IsaInv /\ Arch!Init
  BY IsaInitially
<1>2. IInv /\ IsaInv /\ [Next]_vars /\ [PrefetchKept]_vars => IsaInv'
  BY IsaInductive
<1>3. IInv /\ IsaInv /\ [Next]_vars => [Arch!Next]_(Arch!isaVars)
  BY StepRefines
<1> QED
  BY <1>1, <1>2, <1>3, Invariance, PTL DEF Spec, PrefetchIntact, ImplementsIsa, Arch!Spec

-----------------------------------------------------------------------------
(* Programs that meet the hypothesis.                                      *)

\* The program's stores stay inside the data memory (those to an address
\* below 8 go to a register). In direct mode they always do when the memory
\* has the 2048 bytes an address can name.
StoresInData ==
  Executing({"ST"}) /\ exec_params.address > 7 => EffectiveAddress \in DataAddr

\* Only a STORE can overwrite a byte that has been fetched: behind a CALL
\* nothing is fetched yet when it writes the return address.
LEMMA OnlyStoresHit ==
  ASSUME IInv, IsaInv, [Next]_vars, StoresInData
  PROVE  PrefetchKept
<1>1. CASE UNCHANGED instruction_mem
  BY <1>1 DEF PrefetchKept
<1>2. CASE ExecuteStore
  <2>1. \A v : \A m \in StoreOutcomes(data_mem, instruction_mem, EffectiveAddress, v) :
          EffectiveAddress \in DataAddr => m[2] = instruction_mem
    BY DEF StoreOutcomes
  <2>2. UNCHANGED instruction_mem
    BY <1>2, <2>1 DEF ExecuteStore, StoresInData, memories
  <2> QED
    BY <1>1, <2>2
<1>3. CASE ExecuteCallTaken
  <2>1. ~idecode_en
    BY <1>3 DEF ExecuteCallTaken, Executing, IsaInv, Stages, Transfers
  <2> QED
    BY <2>1 DEF PrefetchKept
<1>4. CASE Execute /\ ~ExecuteStore /\ ~ExecuteCallTaken
  <2>1. UNCHANGED instruction_mem
    BY <1>4 DEF Execute, ExecuteDisabled, ExecuteNothing, ExecuteAlu, ExecuteLoad,
       ExecuteIllegalAccess, ExecuteJmp, ExecuteCallNotTaken, ExecuteRet, Exit, memories
  <2> QED
    BY <1>1, <2>1
<1>5. CASE Idecode
  <2>1. UNCHANGED instruction_mem
    BY <1>5 DEF Idecode, DecodeDisabled, DecodeSecondByte, DecodeExits, DecodeNop,
       DecodeRet, DecodeHalt, DecodeControl, DecodeTransfer, DecodeAlu, DecodeMemory,
       DecodeFirstByte, IdecodeReturns, Exit, memories
  <2> QED
    BY <1>1, <2>1
<1>6. CASE Ifetch
  <2>1. UNCHANGED instruction_mem
    BY <1>6 DEF Ifetch, Fetch, FetchOutOfBounds, FetchDisabled, IfetchReturns, Exit, memories
  <2> QED
    BY <1>1, <2>1
<1>7. CASE UNCHANGED vars
  BY <1>1, <1>7 DEF vars, memories
<1> QED
  BY <1>2, <1>3, <1>4, <1>5, <1>6, <1>7 DEF Next, Terminated

\* A program whose stores stay inside the data memory runs on the C model as
\* on the abstract machine, whatever its calls do to the stack, whatever it
\* reads and wherever it jumps.
THEOREM InBoundsIsaCorrect == Spec /\ []StoresInData => ImplementsIsa
<1>1. Init => IsaInv /\ Arch!Init
  BY IsaInitially
<1>2. IInv /\ IsaInv /\ [Next]_vars /\ StoresInData => IsaInv'
  BY IsaInductive, OnlyStoresHit
<1>3. IInv /\ IsaInv /\ [Next]_vars => [Arch!Next]_(Arch!isaVars)
  BY StepRefines
<1> QED
  BY <1>1, <1>2, <1>3, Invariance, PTL DEF Spec, ImplementsIsa, Arch!Spec

===============================================================================
