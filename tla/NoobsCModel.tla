----------------------------- MODULE NoobsCModel -----------------------------
(***************************************************************************)
(* The C functional model, cmodel/NoobsCpu.c. main() runs                  *)
(*                                                                         *)
(*     while (!halted) { execute(); idecode(); ifetch(); ... }             *)
(*                                                                         *)
(* so the three pipeline stages are three calls in reverse order, each     *)
(* working on what the later call of the previous turn left in the         *)
(* globals. Each call is a step here; "phase" is the call main() makes     *)
(* next. update_shared_memory() does nothing unless an environment         *)
(* variable is set, and is not part of this module.                        *)
(***************************************************************************)
EXTENDS NoobsDefs

\* CALL pushes the lower eleven bits of pc, which reach every instruction.
ASSUME ReturnAssumption == INST_MEM_SIZE <= 2048

VARIABLES
  phase,              (* the call main() makes next                        *)
  status,             (* "running", "halted" (loop left), "exited" (exit(1)) *)
  instruction_mem, data_mem,
  pc, sr, sp, cr, regs,
  halted,
  ifetch_en, idecode_en,
  instruction,        (* the byte ifetch() hands to idecode()              *)
  prev_instruction, imm_mode,   (* idecode()'s static variables            *)
  exec_params,        (* what idecode() hands to execute()                 *)
  exec_pc             (* history: address of the instruction last decoded  *)

memories   == <<instruction_mem, data_mem>>
cpuRegs    == <<sr, sp, cr, regs>>
fetchVars  == <<ifetch_en, idecode_en, instruction>>
decodeVars == <<prev_instruction, imm_mode, exec_pc>>
vars == <<phase, status, memories, pc, cpuRegs, halted, fetchVars, decodeVars,
          exec_params>>

ExecControls ==
  AluOps \cup {"EXEC_NOP", "EXEC_IDLE", "LD", "ST", "JMP", "CALL", "RET"}

Transfers == {"JMP", "CALL", "RET"}

\* struct exec_params: what idecode() hands to execute().
ExecParams == [execute_en : BOOLEAN, execute_control : ExecControls,
               src0_val : BYTE, src1_val : BYTE, dst_reg : REG,
               address : ADDRESS]

\* noobs_cpu_init, after load_instructions and load_data; the globals it
\* does not assign are zero as statics are.
Init ==
  /\ phase = "execute" /\ status = "running"
  /\ \E code \in Programs : instruction_mem = LoadInstructions(code)
  /\ \E data \in DataImages : data_mem = LoadData(data)
  /\ pc = 0 /\ sr = 0 /\ sp = 0 /\ cr = CR_SP_INIT_MSB
  /\ regs = [r \in REG |-> 0]
  /\ halted = FALSE
  /\ ifetch_en = TRUE /\ idecode_en = FALSE /\ instruction = 0
  /\ prev_instruction = 0 /\ imm_mode = FALSE /\ exec_pc = 0
  /\ exec_params = [execute_en |-> FALSE, execute_control |-> "EXEC_NOP",
                    src0_val |-> 0, src1_val |-> 0, dst_reg |-> 0, address |-> 0]

\* fprintf(stderr, "FATAL..."); exit(1)
Exit ==
  /\ status' = "exited"
  /\ UNCHANGED <<phase, memories, pc, cpuRegs, halted, fetchVars, decodeVars,
                 exec_params>>

-----------------------------------------------------------------------------
(* execute()                                                               *)

Executing(control) ==
  /\ status = "running" /\ phase = "execute"
  /\ exec_params.execute_en /\ exec_params.execute_control \in control

\* The end of execute(): execute_en is cleared and main() goes on to idecode().
ExecuteReturns ==
  /\ phase' = "idecode"
  /\ exec_params' = [exec_params EXCEPT !.execute_en = FALSE]
  /\ UNCHANGED <<status, halted, idecode_en, instruction, decodeVars>>

ExecuteDisabled ==
  /\ status = "running" /\ phase = "execute" /\ ~exec_params.execute_en
  /\ phase' = "idecode"
  /\ UNCHANGED <<status, memories, pc, cpuRegs, halted, fetchVars, decodeVars,
                 exec_params>>

\* EXEC_NOP and EXEC_IDLE: the instruction has had its effect in idecode().
ExecuteNothing ==
  /\ Executing({"EXEC_NOP", "EXEC_IDLE"})
  /\ ExecuteReturns
  /\ UNCHANGED <<memories, pc, cpuRegs, ifetch_en>>

ExecuteAlu ==
  /\ Executing(AluOps)
  /\ LET p == exec_params
         r == AluResult(p.execute_control, p.src0_val, p.src1_val)
     IN  /\ regs' = [regs EXCEPT ![p.dst_reg] = r % 256]
         /\ sr' = AluFlags(sr, r)
  /\ ExecuteReturns
  /\ UNCHANGED <<memories, pc, sp, cr, ifetch_en>>

\* Addresses 0 to 6 name registers, whatever the addressing mode.
MappedRegister(a) ==
  CASE a = 4 -> cr [] a = 5 -> sr [] a = 6 -> sp [] OTHER -> regs[a]

EffectiveAddress ==
  exec_params.address + (IF Bit(cr, CR_ADR_MODE) = 1 THEN regs[3] ELSE 0)

ExecuteLoad ==
  /\ Executing({"LD"})
  /\ \/ /\ exec_params.address < 7
        /\ regs' = [regs EXCEPT ![exec_params.dst_reg] =
                      MappedRegister(exec_params.address)]
     \/ /\ exec_params.address > 7
        /\ \E v \in LoadOutcomes(data_mem, EffectiveAddress) :
             regs' = [regs EXCEPT ![exec_params.dst_reg] = v]
  /\ ExecuteReturns
  /\ UNCHANGED <<memories, pc, sr, sp, cr, ifetch_en>>

ExecuteStore ==
  /\ Executing({"ST"})
  /\ LET a == exec_params.address
         v == regs[exec_params.dst_reg]
     IN  \/ /\ a \in REG
            /\ regs' = [regs EXCEPT ![a] = v]
            /\ UNCHANGED <<memories, cr, sp>>
         \/ /\ a = 4 /\ cr' = v
            /\ UNCHANGED <<memories, regs, sp>>
         \/ /\ a = 6 /\ sp' = v
            /\ UNCHANGED <<memories, regs, cr>>
         \/ /\ a > 7
            /\ \E m \in StoreOutcomes(data_mem, instruction_mem, EffectiveAddress, v) :
                 data_mem' = m[1] /\ instruction_mem' = m[2]
            /\ UNCHANGED <<regs, cr, sp>>
  /\ ExecuteReturns
  /\ UNCHANGED <<pc, sr, ifetch_en>>

\* LOAD and STORE of the reserved address, STORE to the status register.
ExecuteIllegalAccess ==
  /\ \/ Executing({"LD"}) /\ exec_params.address = 7
     \/ Executing({"ST"}) /\ exec_params.address \in {5, 7}
  /\ Exit

\* Taken or not, JMP clears the result flags and fetching resumes.
ExecuteJmp ==
  /\ Executing({"JMP"})
  /\ pc' = IF Taken(cr, sr) THEN exec_params.address ELSE pc
  /\ sr' = ClearFlags(sr)
  /\ ifetch_en' = TRUE
  /\ ExecuteReturns
  /\ UNCHANGED <<memories, sp, cr, regs>>

ExecuteCallTaken ==
  /\ Executing({"CALL"}) /\ Taken(cr, sr)
  /\ LET top == StackAddr(cr, sp)
     IN  \E m \in StoreOutcomes(data_mem, instruction_mem, top, (pc \div 256) % 8) :
         \E n \in StoreOutcomes(m[1], m[2], top + 1, pc % 256) :
           data_mem' = n[1] /\ instruction_mem' = n[2]
  /\ pc' = exec_params.address
  /\ sp' = (sp + 2) % 256
  /\ ifetch_en' = TRUE
  /\ ExecuteReturns
  /\ UNCHANGED <<sr, cr, regs>>

\* Mutant: only a call that is taken starts fetching again.
ExecuteCallNotTakenStalls ==
  /\ Executing({"CALL"}) /\ ~Taken(cr, sr)
  /\ ExecuteReturns
  /\ UNCHANGED <<memories, pc, cpuRegs, ifetch_en>>

ExecuteCallNotTaken ==
  /\ Executing({"CALL"}) /\ ~Taken(cr, sr)
  /\ ifetch_en' = TRUE
  /\ ExecuteReturns
  /\ UNCHANGED <<memories, pc, cpuRegs>>

\* Mutant: fetching is not started again.
ExecuteRetStalls ==
  /\ Executing({"RET"})
  /\ LET top == StackAddr(cr, sp)
     IN  \E hi \in LoadOutcomes(data_mem, top - 2), lo \in LoadOutcomes(data_mem, top - 1) :
           pc' = hi * 256 + lo
  /\ sp' = (sp + 254) % 256
  /\ ExecuteReturns
  /\ UNCHANGED <<memories, sr, cr, regs, ifetch_en>>

ExecuteRet ==
  /\ Executing({"RET"})
  /\ LET top == StackAddr(cr, sp)
     IN  \E hi \in LoadOutcomes(data_mem, top - 2), lo \in LoadOutcomes(data_mem, top - 1) :
           pc' = hi * 256 + lo
  /\ sp' = (sp + 254) % 256
  /\ ifetch_en' = TRUE
  /\ ExecuteReturns
  /\ UNCHANGED <<memories, sr, cr, regs>>

Execute ==
  \/ ExecuteDisabled \/ ExecuteNothing \/ ExecuteAlu
  \/ ExecuteLoad \/ ExecuteStore \/ ExecuteIllegalAccess
  \/ ExecuteJmp \/ ExecuteCallTaken \/ ExecuteCallNotTaken \/ ExecuteRet

-----------------------------------------------------------------------------
(* idecode()                                                               *)

Decoding == status = "running" /\ phase = "idecode" /\ idecode_en

\* The end of every idecode() that does not exit.
IdecodeReturns ==
  /\ phase' = "ifetch"
  /\ prev_instruction' = instruction
  /\ UNCHANGED <<status, memories, pc, sr, sp, regs, idecode_en, instruction>>

DecodeDisabled ==
  /\ status = "running" /\ phase = "idecode" /\ ~idecode_en
  /\ exec_params' = [exec_params EXCEPT !.execute_en = FALSE]
  /\ IdecodeReturns
  /\ UNCHANGED <<cr, halted, ifetch_en, imm_mode, exec_pc>>

\* The second byte completes what the first byte, prev_instruction, started.
\* A control transfer stops fetching until it has been executed.
DecodeSecondByte ==
  /\ Decoding /\ imm_mode
  /\ imm_mode' = FALSE
  /\ \/ /\ Kind(prev_instruction) \in {"JMP", "CALL"}
        /\ exec_params' = [exec_params EXCEPT !.execute_en = TRUE,
             !.address = Address(prev_instruction, instruction)]
        /\ ifetch_en' = FALSE
     \/ /\ Kind(prev_instruction) \in {"LD", "ST"}
        /\ exec_params' = [exec_params EXCEPT !.execute_en = TRUE,
             !.address = Address(prev_instruction, instruction)]
        /\ UNCHANGED ifetch_en
     \/ /\ Kind(prev_instruction) \in AluOps
        /\ exec_params' = [exec_params EXCEPT !.execute_en = TRUE,
             !.src1_val = instruction]
        /\ UNCHANGED ifetch_en
  /\ IdecodeReturns
  /\ UNCHANGED <<cr, halted, exec_pc>>

\* "FATAL: Something wrong with OPCODE"
SecondByteUnexpected ==
  /\ Decoding /\ imm_mode
  /\ Kind(prev_instruction) \notin {"JMP", "CALL", "LD", "ST"} \cup AluOps

\* The address of the byte ifetch() fetched last.
PrevPc == (pc + 65535) % 65536

FirstByte(kinds) == Decoding /\ ~imm_mode /\ Kind(instruction) \in kinds

\* A first byte is decoded into exec_params'; execution waits for a second one.
DecodeFirstByte(params) ==
  /\ imm_mode' = HasSecondByte(instruction)
  /\ exec_params' = [params EXCEPT !.execute_en = ~HasSecondByte(instruction)]
  /\ exec_pc' = PrevPc
  /\ IdecodeReturns

DecodeNop ==
  /\ FirstByte({"NOP"})
  /\ DecodeFirstByte([exec_params EXCEPT !.execute_control = "EXEC_NOP"])
  /\ UNCHANGED <<cr, halted, ifetch_en>>

\* Mutant: fetching goes on behind a RET.
DecodeRetFetchesOn ==
  /\ FirstByte({"RET"})
  /\ DecodeFirstByte([exec_params EXCEPT !.execute_control = "RET"])
  /\ UNCHANGED <<cr, halted, ifetch_en>>

DecodeRet ==
  /\ FirstByte({"RET"})
  /\ DecodeFirstByte([exec_params EXCEPT !.execute_control = "RET"])
  /\ ifetch_en' = FALSE
  /\ UNCHANGED <<cr, halted>>

\* HALT ends main()'s loop after this turn; execute_control keeps its value.
DecodeHalt ==
  /\ FirstByte({"HALT"})
  /\ DecodeFirstByte(exec_params)
  /\ halted' = TRUE
  /\ UNCHANGED <<cr, ifetch_en>>

DecodeControl ==
  /\ FirstByte(CrOps)
  /\ DecodeFirstByte([exec_params EXCEPT !.execute_control = "EXEC_IDLE"])
  /\ cr' = CrAfter(Kind(instruction), cr)
  /\ UNCHANGED <<halted, ifetch_en>>

\* The two FATAL exits: that one, and "No USR defined OPs defined".
DecodeExits == (SecondByteUnexpected \/ FirstByte({"USR"})) /\ Exit

\* Mutant: fetching stops before the second byte has been fetched.
DecodeTransferStopsEarly ==
  /\ FirstByte({"JMP", "CALL"})
  /\ DecodeFirstByte([exec_params EXCEPT !.execute_control = Kind(instruction)])
  /\ ifetch_en' = FALSE
  /\ UNCHANGED <<cr, halted>>

DecodeTransfer ==
  /\ FirstByte({"JMP", "CALL"})
  /\ DecodeFirstByte([exec_params EXCEPT !.execute_control = Kind(instruction)])
  /\ UNCHANGED <<cr, halted, ifetch_en>>

\* The register form of SUB subtracts the first pointer from the second; the
\* immediate forms leave src1_val for the second byte.
WithOperands ==
  LET p0   == regs[GET_REG_PTR0(instruction)]
      p1   == regs[GET_REG_PTR1(instruction)]
      swap == Kind(instruction) = "SUB"
      imm  == IS_IMM(instruction)
  IN  [exec_params EXCEPT
         !.src0_val = IF swap /\ ~imm THEN p1 ELSE p0,
         !.src1_val = IF imm THEN @ ELSE IF swap THEN p0 ELSE p1]

DecodeAlu ==
  /\ FirstByte(AluOps)
  /\ DecodeFirstByte([WithOperands EXCEPT !.execute_control = Kind(instruction),
                        !.dst_reg = GET_REG_PTR1(instruction)])
  /\ UNCHANGED <<cr, halted, ifetch_en>>

DecodeMemory ==
  /\ FirstByte({"LD", "ST"})
  /\ DecodeFirstByte([exec_params EXCEPT !.execute_control = Kind(instruction),
                        !.dst_reg = GET_LD_ST_REG_PTR(instruction)])
  /\ UNCHANGED <<cr, halted, ifetch_en>>

Idecode ==
  \/ DecodeDisabled \/ DecodeSecondByte \/ DecodeExits
  \/ DecodeNop \/ DecodeRet \/ DecodeHalt \/ DecodeControl
  \/ DecodeTransfer \/ DecodeAlu \/ DecodeMemory

-----------------------------------------------------------------------------
(* ifetch(), and main()'s test of halted                                   *)

Fetching == status = "running" /\ phase = "ifetch" /\ ifetch_en

IfetchReturns ==
  /\ phase' = "execute"
  /\ status' = IF halted THEN "halted" ELSE status
  /\ UNCHANGED <<memories, cpuRegs, halted, ifetch_en, decodeVars, exec_params>>

\* pc is a uint16_t: 0xffff wraps to 0 and passes the bounds check, which
\* looks at pc after the increment.
NextPc == (pc + 1) % 65536

Fetch ==
  /\ Fetching /\ NextPc < INST_MEM_SIZE
  /\ instruction' \in IF pc \in InstAddr THEN {instruction_mem[pc]} ELSE STRAY_BYTES
  /\ pc' = NextPc
  /\ idecode_en' = TRUE
  /\ IfetchReturns

\* "FATAL: Instruction memory access out of bounds"
FetchOutOfBounds == Fetching /\ NextPc >= INST_MEM_SIZE /\ Exit

FetchDisabled ==
  /\ status = "running" /\ phase = "ifetch" /\ ~ifetch_en
  /\ instruction' = 0 /\ idecode_en' = FALSE
  /\ IfetchReturns
  /\ UNCHANGED pc

Ifetch == Fetch \/ FetchOutOfBounds \/ FetchDisabled

-----------------------------------------------------------------------------
\* The process has ended: nothing moves any more.
Terminated == status # "running" /\ UNCHANGED vars

Next == Execute \/ Idecode \/ Ifetch \/ Terminated

Spec == Init /\ [][Next]_vars

\* main() is one sequential loop: it keeps making its next call.
FairSpec == Spec /\ WF_vars(Next)

-----------------------------------------------------------------------------
(* What the C model promises                                               *)

\* The instruction handed to execute() but not executed yet. EXEC_IDLE has
\* had its effect; a HALT has none in execute().
Pending ==
  exec_params.execute_en /\ (exec_params.execute_control # "EXEC_IDLE" \/ halted)

\* The address of the next instruction to take effect.
ArchPc ==
  IF status = "halted" THEN (exec_pc + 1) % 65536
  ELSE IF Pending \/ imm_mode THEN exec_pc
  ELSE IF idecode_en /\ phase # "ifetch" THEN PrevPc ELSE pc

Arch == INSTANCE NoobsIsa WITH
  FLAG_CLEARING <- {<<"JMP", TRUE>>, <<"JMP", FALSE>>},
  SP_CARRIES    <- TRUE,
  PC_SPACE      <- 65536,
  FETCH_LIMIT   <- INST_MEM_SIZE - 1,
  STRICT        <- TRUE,
  status        <- IF status = "exited" THEN "fatal" ELSE status,
  pc            <- ArchPc,
  imem          <- instruction_mem,
  mem           <- data_mem

\* The overlapped calls execute(), idecode(), ifetch() have the effect of one
\* instruction after another: nothing a younger instruction reads in decode
\* is still to be written by an older one, and no prefetched byte of the
\* wrong path is ever executed.
ImplementsIsa == Arch!Spec

\* No store changes the byte that is fetched but not decoded yet: what a
\* program that writes past the data memory into its own code must respect.
PrefetchKept ==
  idecode_en /\ PrevPc \in InstAddr =>
    instruction_mem'[PrevPc] = instruction_mem[PrevPc]

PrefetchIntact == [][PrefetchKept]_vars

ControlType ==
  /\ phase \in {"execute", "idecode", "ifetch"}
  /\ status \in {"running", "halted", "exited"}
  /\ {halted, ifetch_en, idecode_en, imm_mode} \subseteq BOOLEAN

MemoryType == instruction_mem \in [InstAddr -> BYTE] /\ IsMemory(data_mem)

RegisterType ==
  /\ pc \in WORD /\ exec_pc \in WORD
  /\ sr \in BYTE /\ sp \in BYTE /\ cr \in BYTE /\ regs \in [REG -> BYTE]

DecodeType ==
  /\ instruction \in BYTE /\ prev_instruction \in BYTE
  /\ exec_params \in ExecParams

\* The globals keep the widths of their C types and the three calls agree on
\* what they hand over.
TypeOK == ControlType /\ MemoryType /\ RegisterType /\ DecodeType

\* While fetching is stopped a control transfer is on its way through
\* execute(), which starts it again; otherwise main() would loop forever
\* without executing anything.
StallHasTransfer ==
  ~ifetch_en =>
    /\ phase \in {"ifetch", "execute"}
    /\ exec_params.execute_en /\ exec_params.execute_control \in Transfers

\* The byte behind a first byte is the next one decoded: no stall, and no
\* wrong path, comes between the two. Hence "FATAL: Something wrong with
\* OPCODE" is never reached.
SecondByteFollows ==
  /\ ~SecondByteUnexpected
  /\ imm_mode => phase = "ifetch" \/ idecode_en

\* A stopped fetch resumes or the process ends; it is not lost in a loop
\* that executes nothing.
FetchResumes == ~ifetch_en ~> (ifetch_en \/ status # "running")

=============================================================================
