------------------------------- MODULE NoobsRtl -------------------------------
(***************************************************************************)
(* The pipelined CPU, vmodel/*.v. The variables are the flip-flops; a wire  *)
(* is an operator of them; one step is one rising clock edge, at which     *)
(* every module loads its flip-flops at once. An instruction is in         *)
(* inst_reg (decode), then in ex (operands are read), then in ex1 (it      *)
(* writes back), so up to three are under way together.                    *)
(***************************************************************************)
EXTENDS NoobsDefs

CONSTANTS
  PC_SPACE,      (* PC counts modulo this (4096: it has 12 bits)             *)
  FLOATING_BUS   (* what the data bus shows when no one drives it            *)

\* A PC of up to twelve bits that reaches every instruction, and the twelve
\* bits of the data bus, whose every address is a byte of the testbench's
\* memory.
ASSUME PcAssumption ==
  /\ PC_SPACE \in {2, 4, 8, 16, 32, 64, 128, 256, 512, 1024, 2048, 4096}
  /\ PC_SPACE >= INST_MEM_SIZE
ASSUME BusAssumption == FLOATING_BUS \in BYTE /\ DATA_MEM_SIZE >= 4096

VARIABLES
  \* ifetch.v
  PC, inst_reg, idecode_en,
  \* idecode.v
  imm_mode, prev_inst, fetch_en, halted, cr,
  func_ret, func_ret_q, restore_q, restore_qq,
  ex,           (* exec_en, exec_ctrl, exec_addr, exec_src0_reg and the other
                   registers idecode drives into execute and the reg_file   *)
  \* execute.v
  ex1,          (* execute_en_1D, exec_ctrl_1D, dst_reg_wr_sel              *)
  sr, sp_lsb, store_upper, store_lower, ret_addr0, ret_addr1, ret_addr_en,
  \* register_file.v
  regs, rd_data_0, rd_data_1,
  \* the memories of the testbench
  inst_mem, data_mem

fetchRegs  == <<PC, inst_reg, idecode_en>>
decodeRegs == <<imm_mode, prev_inst, fetch_en, halted, cr,
                func_ret, func_ret_q, restore_q, restore_qq, ex>>
execRegs   == <<ex1, sr, sp_lsb, store_upper, store_lower,
                ret_addr0, ret_addr1, ret_addr_en>>
fileRegs   == <<regs, rd_data_0, rd_data_1>>
rtlVars    == <<fetchRegs, decodeRegs, execRegs, fileRegs, inst_mem, data_mem>>

ExecCtrls == AluOps \cup {"EXEC_NOP", "LD", "ST", "JMP", "CALL", "RET"}

\* The state reset leaves. The registers the reset does not touch hold X
\* until they are loaded; 0 stands for it.
Reset ==
  /\ PC = 0 /\ inst_reg = 0 /\ idecode_en = FALSE
  /\ imm_mode = FALSE /\ prev_inst = 0 /\ fetch_en = TRUE /\ halted = FALSE
  /\ cr = CR_SP_INIT_MSB
  /\ func_ret = FALSE /\ func_ret_q = FALSE
  /\ restore_q = FALSE /\ restore_qq = FALSE
  /\ ex = [en |-> FALSE, ctrl |-> "EXEC_NOP", addr |-> 0,
           src0 |-> 0, rd0 |-> FALSE, src1 |-> 0, rd1 |-> FALSE, dst |-> 0,
           imm |-> 0, imm_vld |-> FALSE]
  /\ ex1 = [en |-> FALSE, ctrl |-> "EXEC_NOP", dst |-> 0]
  /\ sr = 0 /\ sp_lsb = 0
  /\ store_upper = FALSE /\ store_lower = FALSE /\ ret_addr_en = FALSE
  /\ ret_addr0 = 0 /\ ret_addr1 = 0
  /\ regs = [r \in REG |-> 0] /\ rd_data_0 = 0 /\ rd_data_1 = 0

\* A byte of data memory that data.txt does not set is 0, as in the block RAM
\* of the boards; in the testbench it is X, which NoobsLockstep has.
Init ==
  /\ Reset
  /\ \E code \in Programs : inst_mem = LoadInstructions(code)
  /\ \E data \in DataImages : data_mem = LoadData(data)

-----------------------------------------------------------------------------
(* Wires of execute.v                                                      *)

execute_en == ex.en /\ ~halted                 \* idecode's decode2exec_en
Retiring(ctrls) == ex1.en /\ ex1.ctrl \in ctrls

pc_branch     == execute_en /\ ex.ctrl \in {"JMP", "CALL"}
restore_lower == execute_en /\ ex.ctrl = "RET"
restore_upper == Retiring({"RET"})

\* Register addresses never reach the data memory, but a write of 7 does.
mapped_access ==
  \/ Retiring({"LD"}) /\ ex.addr < 8
  \/ Retiring({"ST"}) /\ ex.addr < 7

m_rd == ~mapped_access /\ (Retiring({"LD"}) \/ restore_upper \/ restore_lower)
m_wr == ~mapped_access /\ (Retiring({"ST"}) \/ store_upper \/ store_lower)

stack_addr ==
  IF store_lower \/ store_upper THEN StackAddr(cr, sp_lsb)
  ELSE (StackAddr(cr, sp_lsb) + 4095) % 4096

m_addr ==
  IF store_lower \/ store_upper \/ restore_lower \/ restore_upper
  THEN stack_addr
  ELSE IF Bit(cr, CR_ADR_MODE) = 1 THEN (ex.addr + regs[3]) % 4096 ELSE ex.addr

\* Mutant: the two bytes of a return address are swapped.
m_wr_data_swapped ==
  IF store_lower THEN ret_addr1 ELSE IF store_upper THEN ret_addr0 ELSE rd_data_0

m_wr_data ==
  IF store_lower THEN ret_addr0 ELSE IF store_upper THEN ret_addr1 ELSE rd_data_0

m_rd_data == IF m_rd THEN Read(data_mem, m_addr) ELSE FLOATING_BUS

\* Mutant: the complement is added, and the carry taken for the borrow.
AluOfComplement(op, x, y) ==
  CASE op = "ADD" -> x + y
    [] op = "SUB" -> x + (255 - y) + 1
    [] OTHER      -> Logic(op, x, y)

\* {ovf_flag, reg_wr_data}: nine bits, of which a carry or a borrow sets the
\* uppermost.
Alu(op, x, y) ==
  CASE op = "ADD" -> x + y
    [] op = "SUB" -> (x + 512 - y) % 512
    [] OTHER      -> Logic(op, x, y)

\* {4'd0, z_flag, nz_flag, 1'b0, ovf_flag}.
AluStatus(result) ==
  (IF result % 256 = 0 THEN SR_Z ELSE SR_NZ) + (IF result > 255 THEN SR_OVF ELSE 0)

src1_data  == IF ex.imm_vld THEN ex.imm ELSE rd_data_1
alu_result == Alu(ex1.ctrl, rd_data_0, src1_data)

\* A LOAD of a register reads its flip-flops as they are.
load_data ==
  CASE ex.addr \in REG -> regs[ex.addr]
    [] ex.addr = 4 -> cr
    [] ex.addr = 5 -> sr
    [] ex.addr = 6 -> sp_lsb
    [] OTHER -> m_rd_data

reg_wr_en   == Retiring(AluOps \cup {"LD"}) \/ (Retiring({"ST"}) /\ ex.addr \in REG)
reg_wr_sel  == IF Retiring({"ST"}) /\ ex.addr \in REG THEN ex.addr ELSE ex1.dst
\* Mutant: the carry is kept.
reg_wr_data_carry ==
  CASE Retiring(AluOps) -> alu_result
    [] Retiring({"LD"}) -> load_data
    [] OTHER            -> m_wr_data

reg_wr_data ==
  CASE Retiring(AluOps) -> alu_result % 256
    [] Retiring({"LD"}) -> load_data
    [] OTHER            -> m_wr_data

\* status_reg: what SR is about to become; every control transfer clears it.
sr_next ==
  CASE Retiring(AluOps)                 -> AluStatus(alu_result)
    [] Retiring({"JMP", "CALL", "RET"}) -> 0
    [] OTHER                            -> sr

cr_update_en == Retiring({"ST"}) /\ ex.addr = 4

sp_next ==
  CASE store_lower \/ store_upper         -> (sp_lsb + 1) % 256
    [] restore_lower \/ restore_upper     -> (sp_lsb + 255) % 256
    [] Retiring({"ST"}) /\ ex.addr = 6    -> m_wr_data
    [] OTHER                              -> sp_lsb

-----------------------------------------------------------------------------
(* Wires of idecode.v and ifetch.v                                         *)

\* Mutant: the fetch also waits for the cycle in which it is to resume.
restore_ongoing_longer == func_ret \/ func_ret_q \/ restore_q

restore_ongoing == func_ret \/ func_ret_q

\* Mutant: what was fetched behind a RET is decoded.
curr_inst_unmasked == IF idecode_en THEN inst_reg ELSE 0

\* While a return address is restored, and until the byte at it arrives, the
\* decoder sees NOPs instead of the bytes fetched on the wrong path.
curr_inst ==
  IF restore_ongoing \/ restore_q \/ restore_qq \/ ~idecode_en THEN 0 ELSE inst_reg

ifetch_en == fetch_en /\ ~halted /\ ~restore_ongoing

\* Mutant: a branch looks at SR as it is, not as it is about to become.
exec_ctrl_next_unforwarded ==
  CASE ~idecode_en \/ (~imm_mode /\ Kind(curr_inst) = "HALT") -> ex.ctrl
    [] idecode_en /\ ~imm_mode /\ Kind(curr_inst) \in {"JMP", "CALL"} ->
         IF Taken(cr, sr) THEN Kind(curr_inst) ELSE "EXEC_NOP"
    [] idecode_en /\ ~imm_mode /\ Kind(curr_inst) \in AluOps \cup {"LD", "ST", "RET"} ->
         Kind(curr_inst)
    [] OTHER -> "EXEC_NOP"

exec_ctrl_next ==
  CASE ~idecode_en -> ex.ctrl
    [] idecode_en /\ imm_mode -> "EXEC_NOP"
    [] idecode_en /\ ~imm_mode ->
         CASE Kind(curr_inst) \in {"JMP", "CALL"} ->
                IF Taken(cr, sr_next) THEN Kind(curr_inst) ELSE "EXEC_NOP"
           [] Kind(curr_inst) = "HALT" -> ex.ctrl
           [] Kind(curr_inst) \in AluOps \cup {"LD", "ST", "RET"} -> Kind(curr_inst)
           [] OTHER -> "EXEC_NOP"

exec_addr_next ==
  IF idecode_en /\ imm_mode /\ Kind(prev_inst) \in {"JMP", "CALL", "LD", "ST"}
  THEN Address(prev_inst, curr_inst) ELSE ex.addr

\* Mutant: the return address is latched, and pushed, a cycle later.
latch_ret_addr_late == execute_en /\ ex.ctrl = "CALL"

\* Decoded whatever halted says: a CALL behind a HALT gets here too.
latch_ret_addr == exec_ctrl_next = "CALL"

i_addr    == IF pc_branch THEN exec_addr_next % PC_SPACE ELSE PC
i_data    == IF i_addr \in InstAddr THEN inst_mem[i_addr] ELSE 0
next_addr == (PC + 1) % PC_SPACE

\* Mutant: a value that is being written is not forwarded.
ReadPortFromFile(en, sel) == IF en THEN regs[sel] ELSE 0

\* Both read ports see a value that is being written.
ReadPort(en, sel) ==
  IF ~en THEN 0
  ELSE IF reg_wr_en /\ reg_wr_sel = sel THEN reg_wr_data ELSE regs[sel]

ret_addr == ((ret_addr1 % 16) * 256 + ret_addr0) % PC_SPACE

-----------------------------------------------------------------------------
(* The rising clock edge                                                   *)

Ifetch ==
  /\ PC' = CASE ~ifetch_en  -> PC
             [] ifetch_en /\ pc_branch -> (i_addr + 1) % PC_SPACE
             [] ifetch_en /\ ~pc_branch -> IF ret_addr_en THEN ret_addr ELSE next_addr
  /\ inst_reg' = IF ifetch_en THEN i_data ELSE inst_reg
  /\ idecode_en' = ifetch_en

\* What idecode drives when it decodes nothing: the old values, but no
\* operand is read and nothing is executed.
Idle == [ex EXCEPT !.en = FALSE, !.rd0 = FALSE, !.rd1 = FALSE]

DecodeIdle ==
  /\ ~idecode_en
  /\ ex' = Idle
  /\ UNCHANGED <<imm_mode, fetch_en>>

DecodeSecondByte ==
  /\ idecode_en /\ imm_mode
  /\ imm_mode' = FALSE
  /\ ex' = [Idle EXCEPT !.ctrl = exec_ctrl_next, !.addr = exec_addr_next,
              !.imm_vld = TRUE,
              !.imm = IF Kind(prev_inst) \in {"LD", "ST"} THEN @ ELSE curr_inst]
  /\ fetch_en' = (fetch_en \/ Kind(prev_inst) \in {"JMP", "CALL"})

FirstByte(kinds) == idecode_en /\ ~imm_mode /\ Kind(curr_inst) \in kinds

Started ==
  [Idle EXCEPT !.en = TRUE, !.ctrl = exec_ctrl_next, !.imm_vld = FALSE]

\* Control instructions and transfers need no operand.
DecodeControl ==
  /\ FirstByte(CrOps \cup {"NOP", "USR", "RET", "HALT", "JMP", "CALL"})
  /\ imm_mode' = HasSecondByte(curr_inst)
  /\ ex' = Started
  /\ fetch_en' = CASE Kind(curr_inst) = "RET"  -> TRUE
                   [] Kind(curr_inst) = "HALT" -> FALSE
                   [] OTHER                    -> fetch_en

\* The register form of SUB subtracts the first pointer from the second.
DecodeAlu ==
  /\ FirstByte(AluOps)
  /\ imm_mode' = IS_IMM(curr_inst)
  /\ LET swap == Kind(curr_inst) = "SUB" /\ ~IS_IMM(curr_inst)
         p0   == GET_REG_PTR0(curr_inst)
         p1   == GET_REG_PTR1(curr_inst)
     IN  ex' = [Started EXCEPT
                 !.src0 = IF swap THEN p1 ELSE p0, !.rd0 = TRUE, !.dst = p1,
                 !.src1 = IF IS_IMM(curr_inst) THEN @ ELSE IF swap THEN p0 ELSE p1,
                 !.rd1 = ~IS_IMM(curr_inst)]
  /\ UNCHANGED fetch_en

DecodeLoad ==
  /\ FirstByte({"LD"})
  /\ imm_mode' = TRUE
  /\ ex' = [Started EXCEPT !.dst = GET_LD_ST_REG_PTR(curr_inst)]
  /\ UNCHANGED fetch_en

DecodeStore ==
  /\ FirstByte({"ST"})
  /\ imm_mode' = TRUE
  /\ ex' = [Started EXCEPT !.src0 = GET_LD_ST_REG_PTR(curr_inst), !.rd0 = TRUE]
  /\ UNCHANGED fetch_en

\* A STORE to CR and a control instruction decoded in the same cycle: the
\* instruction works on the stored value.
cr_base == IF cr_update_en THEN m_wr_data ELSE cr

Idecode ==
  /\ \/ DecodeIdle \/ DecodeSecondByte \/ DecodeControl
     \/ DecodeAlu \/ DecodeLoad \/ DecodeStore
  /\ cr' = IF FirstByte(CrOps) THEN CrAfter(Kind(curr_inst), cr_base) ELSE cr_base
  /\ halted' = (halted \/ FirstByte({"HALT"}))
  /\ prev_inst' = curr_inst
  /\ func_ret' = (idecode_en /\ exec_ctrl_next = "RET")
  /\ func_ret_q' = func_ret
  /\ restore_q' = restore_ongoing
  /\ restore_qq' = restore_q

Execute ==
  /\ ex1' = [en |-> execute_en, ctrl |-> ex.ctrl, dst |-> ex.dst]
  /\ sr' = sr_next
  /\ sp_lsb' = sp_next
  /\ store_upper' = latch_ret_addr
  /\ store_lower' = store_upper
  /\ ret_addr_en' = restore_upper
  /\ ret_addr0' = CASE latch_ret_addr -> next_addr % 256
                    [] ~latch_ret_addr /\ restore_lower -> m_rd_data
                    [] OTHER -> ret_addr0
  /\ ret_addr1' = CASE latch_ret_addr -> next_addr \div 256
                    [] ~latch_ret_addr /\ ~restore_lower /\ restore_upper -> m_rd_data
                    [] OTHER -> ret_addr1

RegisterFile ==
  /\ regs' = IF reg_wr_en THEN [regs EXCEPT ![reg_wr_sel] = reg_wr_data] ELSE regs
  /\ rd_data_0' = ReadPort(ex.rd0, ex.src0)
  /\ rd_data_1' = ReadPort(ex.rd1, ex.src1)

Memories ==
  /\ data_mem' = IF m_wr THEN Write(data_mem, m_addr, m_wr_data) ELSE data_mem
  /\ UNCHANGED inst_mem

Next == Ifetch /\ Idecode /\ Execute /\ RegisterFile /\ Memories

Spec == Init /\ [][Next]_rtlVars

\* The clock keeps ticking.
FairSpec == Spec /\ WF_rtlVars(Next)

-----------------------------------------------------------------------------
(* What the pipeline promises                                              *)

(* An instruction counts as executed once its last byte has been decoded;   *)
(* what it still has to write is completed here, oldest instruction first.  *)

\* The register instruction whose operands are being read.
Reading == execute_en /\ ex.ctrl \in AluOps /\ ~imm_mode

ReadingResult ==
  Alu(ex.ctrl, ReadPort(ex.rd0, ex.src0), ReadPort(ex.rd1, ex.src1))

ArchRegs ==
  LET written == IF reg_wr_en THEN [regs EXCEPT ![reg_wr_sel] = reg_wr_data] ELSE regs
  IN  IF Reading THEN [written EXCEPT ![ex.dst] = ReadingResult % 256] ELSE written

ArchSr ==
  CASE Reading       -> AluStatus(ReadingResult)
    [] restore_lower -> 0
    [] OTHER         -> sr_next

\* A call whose second byte is still to be decoded has pushed nothing yet.
ArchMem ==
  IF m_wr /\ ~store_upper THEN Write(data_mem, m_addr, m_wr_data) ELSE data_mem

ArchSp ==
  CASE store_upper   -> sp_lsb
    [] restore_lower -> (sp_lsb + 254) % 256
    [] OTHER         -> sp_next

ArchCr == cr_base

\* Where a return being carried out leads, from what is known of it so far.
Returning == restore_lower \/ restore_upper \/ ret_addr_en

ReturnTarget ==
  LET below(sp) == Read(data_mem, (StackAddr(cr, sp) + 4095) % 4096)
      upper     == CASE restore_lower -> below((sp_lsb + 255) % 256)
                     [] restore_upper -> below(sp_lsb)
                     [] OTHER         -> ret_addr1
      lower     == IF restore_lower THEN below(sp_lsb) ELSE ret_addr0
  IN  ((upper % 16) * 256 + lower) % PC_SPACE

Back(k) == (PC + PC_SPACE - k) % PC_SPACE

ArchPc ==
  CASE halted                 -> Back(1)
    [] ~halted /\ Returning   -> ReturnTarget
    [] ~halted /\ ~Returning /\ imm_mode -> Back(2)
    [] ~halted /\ ~Returning /\ ~imm_mode /\ idecode_en /\ ~restore_qq -> Back(1)
    [] OTHER                  -> PC

Arch == INSTANCE NoobsIsa WITH
  FLAG_CLEARING <- {<<"JMP", TRUE>>, <<"CALL", TRUE>>, <<"RET", TRUE>>},
  SP_CARRIES    <- FALSE,
  FETCH_LIMIT   <- PC_SPACE + 2,      \* never reached
  STRICT        <- FALSE,
  STRAY_BYTES   <- STRAY_BYTES \cup {FLOATING_BUS},
  status        <- IF halted THEN "halted" ELSE "running",
  pc            <- ArchPc,
  imem          <- inst_mem,
  mem           <- ArchMem,
  regs          <- ArchRegs,
  sr            <- ArchSr,
  cr            <- ArchCr,
  sp            <- ArchSp

\* Up to three instructions in flight, operands forwarded past the register
\* file, fetches redirected in mid-instruction and return addresses popped
\* over two cycles have the effect of one instruction after another.
ImplementsIsa == Arch!Spec

\* The flip-flops hold values of their widths.
TypeOK ==
  /\ PC \in 0..(PC_SPACE - 1) /\ inst_reg \in BYTE /\ prev_inst \in BYTE
  /\ {idecode_en, imm_mode, fetch_en, halted} \subseteq BOOLEAN
  /\ {func_ret, func_ret_q, restore_q, restore_qq} \subseteq BOOLEAN
  /\ {store_upper, store_lower, ret_addr_en} \subseteq BOOLEAN
  /\ cr \in BYTE /\ sr \in BYTE /\ sp_lsb \in BYTE
  /\ ret_addr0 \in BYTE /\ ret_addr1 \in BYTE
  /\ ex \in [en : BOOLEAN, ctrl : ExecCtrls, addr : ADDRESS, src0 : REG,
             rd0 : BOOLEAN, src1 : REG, rd1 : BOOLEAN, dst : REG, imm : BYTE,
             imm_vld : BOOLEAN]
  /\ ex1 \in [en : BOOLEAN, ctrl : ExecCtrls, dst : REG]
  /\ regs \in [REG -> BYTE] /\ rd_data_0 \in BYTE /\ rd_data_1 \in BYTE
  /\ inst_mem \in [InstAddr -> BYTE] /\ IsMemory(data_mem)

\* noobs_cpu's assertion data_memory_access_error: the one bus to the data
\* memory is never asked for a LOAD or a pop while a STORE or a push of an
\* overlapping instruction uses it.
DataBusExclusive == ~(m_rd /\ m_wr)

\* idecode's assertion fatal_err: no stall and no redirected fetch comes
\* between the two bytes of an instruction.
SecondByteFollows ==
  ~(idecode_en /\ imm_mode /\
      Kind(prev_inst) \notin AluOps \cup {"JMP", "CALL", "LD", "ST"})

\* The decoder sees instructions again after every RET.
ReturnCompletes ==
  func_ret ~> (halted \/ (idecode_en /\ ~restore_ongoing /\ ~restore_q /\ ~restore_qq))

\* Once HALT is decoded the program changes the data memory no more.
HaltStops ==
  [][halted => \A a \in DOMAIN data_mem' : data_mem'[a] = Read(data_mem, a)]_rtlVars

\* A jump or call is taken on the flags that all instructions before it have
\* left, those still in the pipeline included, and on the CR they have left.
BranchSeesLatestFlags ==
  FirstByte({"JMP", "CALL"}) =>
    ((exec_ctrl_next # "EXEC_NOP") <=> Taken(ArchCr, ArchSr))

\* What is decoded behind a HALT leaves the program's state as it is. idecode
\* does not see to it, since it looks at halted neither for a call nor for a
\* control instruction: a program does, as long as no HALT of a path that a
\* return has left is decoded.
NothingBehindHalt == halted => ~FirstByte(CrOps) /\ ~latch_ret_addr

=============================================================================
