------------------------------- MODULE NoobsIsa -------------------------------
(***************************************************************************)
(* What a NoobsCpu promises its programmer: one instruction at a time, in  *)
(* program order, with no pipeline. The C model and the RTL are each shown *)
(* to implement this module; where the two differ in what an instruction   *)
(* does, the difference is a constant here, so that it is visible and the  *)
(* rest is common to both.                                                 *)
(***************************************************************************)
EXTENDS NoobsDefs

CONSTANTS
  FLAG_CLEARING,   (* the <<kind, taken>> pairs that clear the result flags,
                      kind being "JMP", "CALL" or "RET"                     *)
  SP_CARRIES,      (* TRUE: the second stack byte of a call is at the next
                      address even across a page; FALSE: sp wraps first,
                      and the data bus, whose addresses have twelve bits     *)
  PC_SPACE,        (* the program counter counts modulo this                 *)
  FETCH_LIMIT,     (* fetching this address or a later one is fatal          *)
  STRICT           (* TRUE: illegal registers and opcodes are fatal          *)

VARIABLES
  status,          (* "running", "halted" or "fatal"                         *)
  pc,              (* address of the next instruction to be executed         *)
  imem, mem, regs, sr, cr, sp

isaVars == <<status, pc, imem, mem, regs, sr, cr, sp>>

Init ==
  /\ status = "running" /\ pc = 0
  /\ imem \in [InstAddr -> BYTE] /\ IsMemory(mem)
  /\ regs = [r \in REG |-> 0]
  /\ sr = 0 /\ cr = CR_SP_INIT_MSB /\ sp = 0

-----------------------------------------------------------------------------
\* The instruction at pc; past the instruction memory there are NOPs, where
\* they can be fetched at all.
ByteAt(a) == IF a \in InstAddr THEN imem[a] ELSE 0
Plus(k)   == (pc + k) % PC_SPACE
First     == ByteAt(pc)
Second    == ByteAt(Plus(1))
Length == IF HasSecondByte(First) THEN 2 ELSE 1

\* The instruction after a transfer is not fetched before the transfer is
\* done; otherwise the byte after the instruction is.
LastFetched ==
  CASE Kind(First) = "RET"            -> pc
    [] Kind(First) \in {"JMP", "CALL"} -> pc + 1
    [] Kind(First) \in CrOps          -> pc
    [] OTHER                          -> pc + Length

IllegalAccess ==
  \/ Kind(First) = "LD" /\ Address(First, Second) = 7
  \/ Kind(First) = "ST" /\ Address(First, Second) \in {5, 7}

\* Nothing can be executed whose fetch, or the prefetch behind it, is fatal:
\* not even a HALT.
Faulty ==
  \/ pc >= FETCH_LIMIT
  \/ STRICT /\ Kind(First) = "USR"
  \/ LastFetched >= FETCH_LIMIT
  \/ STRICT /\ IllegalAccess

Fatal ==
  /\ status = "running" /\ Faulty
  /\ status' = "fatal"
  /\ UNCHANGED <<pc, imem, mem, regs, sr, cr, sp>>

Executes(kinds) == status = "running" /\ ~Faulty /\ Kind(First) \in kinds

Continue == pc' = Plus(Length) /\ UNCHANGED status

\* NOP, and where they are not fatal USR and a STORE to the status register.
Nothing ==
  /\ \/ Executes({"NOP", "USR"})
     \/ Executes({"ST"}) /\ Address(First, Second) = 5
  /\ Continue
  /\ UNCHANGED <<imem, mem, regs, sr, cr, sp>>

Halt ==
  /\ Executes({"HALT"})
  /\ status' = "halted" /\ pc' = Plus(1)
  /\ UNCHANGED <<imem, mem, regs, sr, cr, sp>>

Control ==
  /\ Executes(CrOps)
  /\ cr' = CrAfter(Kind(First), cr)
  /\ Continue
  /\ UNCHANGED <<imem, mem, regs, sr, sp>>

\* Register form: dst op= src, the first operand of SUB being dst.
\* Immediate form: dst = src op the second byte.
Alu ==
  /\ Executes(AluOps)
  /\ LET dst == GET_REG_PTR1(First)
         src == regs[GET_REG_PTR0(First)]
         r   == IF IS_IMM(First)
                THEN AluResult(Kind(First), src, Second)
                ELSE AluResult(Kind(First), regs[dst], src)
     IN  /\ regs' = [regs EXCEPT ![dst] = r % 256]
         /\ sr' = AluFlags(sr, r)
  /\ Continue
  /\ UNCHANGED <<imem, mem, cr, sp>>

\* Addresses 0 to 6 are registers; from 8 on, R3 is added in indirect mode.
Register(a) == CASE a = 4 -> cr [] a = 5 -> sr [] a = 6 -> sp [] OTHER -> regs[a]

Effective(a) == a + (IF Bit(cr, CR_ADR_MODE) = 1 THEN regs[3] ELSE 0)

Load ==
  /\ Executes({"LD"})
  /\ LET a == Address(First, Second)
     IN  \E v \in CASE a < 7 -> {Register(a)}
                    [] a = 7 -> STRAY_BYTES
                    [] OTHER -> LoadOutcomes(mem, Effective(a)) :
           regs' = [regs EXCEPT ![GET_LD_ST_REG_PTR(First)] = v]
  /\ Continue
  /\ UNCHANGED <<imem, mem, sr, cr, sp>>

Store ==
  /\ Executes({"ST"}) /\ Address(First, Second) # 5
  /\ LET a == Address(First, Second)
         v == regs[GET_LD_ST_REG_PTR(First)]
     IN  /\ regs' = IF a \in REG THEN [regs EXCEPT ![a] = v] ELSE regs
         /\ cr' = IF a = 4 THEN v ELSE cr
         /\ sp' = IF a = 6 THEN v ELSE sp
         /\ \E m \in IF a < 7 THEN {<<mem, imem>>}
                     ELSE StoreOutcomes(mem, imem, Effective(a), v) :
              mem' = m[1] /\ imem' = m[2]
  /\ Continue
  /\ UNCHANGED sr

\* SR after a transfer of control.
FlagsAfter(kind, taken) ==
  IF <<kind, taken>> \in FLAG_CLEARING THEN ClearFlags(sr) ELSE sr

Target == Address(First, Second) % PC_SPACE

Jump ==
  /\ Executes({"JMP"})
  /\ pc' = IF Taken(cr, sr) THEN Target ELSE Plus(2)
  /\ sr' = FlagsAfter("JMP", Taken(cr, sr))
  /\ UNCHANGED <<status, imem, mem, regs, cr, sp>>

\* The return address goes to the two bytes at sp and above it, upper byte
\* first.
NextSlot(a) == IF SP_CARRIES \/ a % 256 # 255 THEN a + 1 ELSE a - 255

Call ==
  /\ Executes({"CALL"}) /\ Taken(cr, sr)
  /\ LET top == StackAddr(cr, sp)
         ret == Plus(2)
     IN  \E m \in StoreOutcomes(mem, imem, top, (ret \div 256) % 16) :
         \E n \in StoreOutcomes(m[1], m[2], NextSlot(top), ret % 256) :
           mem' = n[1] /\ imem' = n[2]
  /\ sp' = (sp + 2) % 256
  /\ pc' = Target
  /\ sr' = FlagsAfter("CALL", TRUE)
  /\ UNCHANGED <<status, regs, cr>>

CallNotTaken ==
  /\ Executes({"CALL"}) /\ ~Taken(cr, sr)
  /\ sr' = FlagsAfter("CALL", FALSE)
  /\ Continue
  /\ UNCHANGED <<imem, mem, regs, cr, sp>>

\* The stack's last and last but one byte.
PreviousSlot(k) ==
  IF SP_CARRIES THEN StackAddr(cr, sp) - k
  ELSE (StackAddr(cr, (sp + 257 - k) % 256) + 4095) % 4096

Return ==
  /\ Executes({"RET"})
  /\ \E hi \in LoadOutcomes(mem, PreviousSlot(2)), lo \in LoadOutcomes(mem, PreviousSlot(1)) :
       pc' = (hi * 256 + lo) % PC_SPACE
  /\ sp' = (sp + 254) % 256
  /\ sr' = FlagsAfter("RET", TRUE)
  /\ UNCHANGED <<status, imem, mem, regs, cr>>

\* An 0xffff popped by RET passes a bounds check made after the increment:
\* the byte there is not the program's, and what it does is not promised.
Wild == status = "running" /\ STRICT /\ pc = 65535

Next ==
  \/ Fatal \/ Nothing \/ Halt \/ Control \/ Alu \/ Load \/ Store
  \/ Jump \/ Call \/ CallNotTaken \/ Return \/ Wild

Spec == Init /\ [][Next]_isaVars

=============================================================================
