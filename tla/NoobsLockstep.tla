---------------------------- MODULE NoobsLockstep ----------------------------
(***************************************************************************)
(* What tests/run_tests.sh does: the C model runs a program to its end,    *)
(* then the RTL runs the same program, and the data memories they leave    *)
(* are compared. Neither knows of the other, so that they may run one      *)
(* after the other here too. The C model's variables keep their names;     *)
(* those of the RTL that have the same name are prefixed with v_.          *)
(*                                                                         *)
(* The C model's memory is an array of zeros before data.txt is loaded;    *)
(* the testbench's is X in every byte that nothing has written yet. A      *)
(* program that reads such a byte means nothing the two could agree on.    *)
(***************************************************************************)
EXTENDS NoobsCModel

CONSTANTS
  PC_SPACE, FLOATING_BUS,    (* of the RTL                                   *)
  RTL_DATA_MEM_SIZE,         (* the testbench's memory: 4096 bytes           *)
  UNSET_BYTES                (* what X may turn out to be                    *)

ASSUME UnsetAssumption == UNSET_BYTES \subseteq BYTE

VARIABLES
  PC, inst_reg, v_idecode_en,
  v_imm_mode, prev_inst, fetch_en, v_halted, v_cr,
  func_ret, func_ret_q, restore_q, restore_qq, ex,
  ex1, v_sr, sp_lsb, store_upper, store_lower, ret_addr0, ret_addr1, ret_addr_en,
  v_regs, rd_data_0, rd_data_1,
  inst_mem, v_data_mem,
  defined      (* history: the C model has read no byte that was never given
                  a value                                                    *)

Rtl == INSTANCE NoobsRtl WITH
  DATA_MEM_SIZE <- RTL_DATA_MEM_SIZE,
  idecode_en    <- v_idecode_en,
  imm_mode      <- v_imm_mode,
  halted        <- v_halted,
  cr            <- v_cr,
  sr            <- v_sr,
  regs          <- v_regs,
  data_mem      <- v_data_mem

rtlVars ==
  <<PC, inst_reg, v_idecode_en, v_imm_mode, prev_inst, fetch_en, v_halted, v_cr,
    func_ret, func_ret_q, restore_q, restore_qq, ex,
    ex1, v_sr, sp_lsb, store_upper, store_lower, ret_addr0, ret_addr1, ret_addr_en,
    v_regs, rd_data_0, rd_data_1, inst_mem, v_data_mem>>

bothVars == <<vars, rtlVars, defined>>

\* Both memories have a value in the same bytes, those of data.txt. In the
\* instruction memory 0 may stand for X too: behind the last instruction of
\* a program, a HALT or a RET, nothing that is fetched is carried out.
LockstepInit ==
  /\ Init /\ Rtl!Reset
  /\ inst_mem = instruction_mem /\ v_data_mem = data_mem
  /\ defined = TRUE

\* The bytes of data memory that execute() reads in this step.
BytesRead ==
  CASE Executing({"LD"}) /\ exec_params.address > 7 -> {EffectiveAddress}
    [] Executing({"RET"}) -> {StackAddr(cr, sp) - 2, StackAddr(cr, sp) - 1}
    [] OTHER -> {}

RunCModel ==
  /\ status = "running" /\ (Execute \/ Idecode \/ Ifetch)
  /\ defined' = (defined /\ BytesRead \subseteq DOMAIN data_mem)
  /\ UNCHANGED rtlVars

ReadingX == Rtl!m_rd /\ Rtl!m_addr \notin DOMAIN v_data_mem

\* An X on the data bus is any byte; the memory keeps it from then on.
ReadUnset ==
  /\ status # "running" /\ ReadingX
  /\ \E x \in UNSET_BYTES : v_data_mem' = Write(v_data_mem, Rtl!m_addr, x)
  /\ UNCHANGED <<vars, defined, PC, inst_reg, v_idecode_en,
       v_imm_mode, prev_inst, fetch_en, v_halted, v_cr,
       func_ret, func_ret_q, restore_q, restore_qq, ex,
       ex1, v_sr, sp_lsb, store_upper, store_lower, ret_addr0, ret_addr1, ret_addr_en,
       v_regs, rd_data_0, rd_data_1, inst_mem>>

RunRtl ==
  /\ status # "running" /\ ~ReadingX /\ Rtl!Next
  /\ UNCHANGED <<vars, defined>>

LockstepNext == RunCModel \/ ReadUnset \/ RunRtl

LockstepSpec == LockstepInit /\ [][LockstepNext]_bothVars /\ WF_bothVars(LockstepNext)

-----------------------------------------------------------------------------
\* data_out.txt, the bytes from address 8 to the end of the data memory, is
\* the same after both runs of a program that reads only what was written. In
\* it 0 stands for the bytes that have no value: the testbench writes X so.
SameDataOut ==
  defined /\ status = "halted" /\ v_halted =>
    \A a \in (DOMAIN data_mem \cup DOMAIN v_data_mem) \cap (8..(DATA_MEM_SIZE - 1)) :
      Read(data_mem, a) = Read(v_data_mem, a)

\* A program that reads only what was written, and on which the C model
\* halts, makes the RTL halt too; otherwise the testbench would wait in vain
\* for u_idecode.halted.
RtlHaltsToo == (defined /\ status = "halted") ~> v_halted

=============================================================================
