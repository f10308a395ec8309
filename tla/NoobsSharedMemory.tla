--------------------------- MODULE NoobsSharedMemory ---------------------------
(***************************************************************************)
(* The data memory of the C model as other processes see it, with          *)
(* NOOBS_RETAIN_SHARED_MEMORY set (cmodel/data_memory_share.h,             *)
(* libshared_util.c). After every turn the C model merges its private      *)
(* data_mem with a System V segment, byte by byte and without a lock, while *)
(* noobs_input.py writes some bytes of it and noobs_display.py copies it.  *)
(***************************************************************************)
EXTENDS Naturals

CONSTANTS
  SHM_SIZE,      (* bytes of the segment                                     *)
  BYTES,         (* the values bytes take                                    *)
  CPU_CELLS,     (* the bytes the program stores to                          *)
  INPUT_BYTES,   (* how many the input process writes (3)                    *)
  INPUT_CELLS,   (* which, in its order (56, 57, 58)                         *)
  MAX_RUNS       (* bound: how often the C model is started                  *)

Cells == 0 .. SHM_SIZE - 1

ASSUME ShareAssumption ==
  /\ SHM_SIZE \in Nat \ {0} /\ 0 \in BYTES
  /\ CPU_CELLS \subseteq Cells
  /\ INPUT_BYTES \in Nat \ {0} /\ INPUT_CELLS \in [1 .. INPUT_BYTES -> Cells]
  /\ MAX_RUNS \in Nat \ {0}

InputCells == {INPUT_CELLS[k] : k \in 1 .. INPUT_BYTES}

VARIABLES
  segment,          (* "none", "there", or "marked": removed but attached    *)
  shm,              (* its bytes                                             *)
  data_mem, last_dmem_copy,
  cpu,              (* what the C model does next, and for which byte        *)
  runs,             (* how often it has been started                         *)
  input,            (* the input process                                     *)
  display,          (* the display process                                   *)
  shared_memory,    (* the display's copy of the segment                     *)
  overtaken         (* history: bytes the input process has written since
                       the C model merged them                               *)

private == <<data_mem, last_dmem_copy>>
others  == <<input, display, shared_memory>>
vars    == <<segment, shm, private, cpu, runs, others, overtaken>>

Zeros == [c \in Cells |-> 0]
At(step, byte) == [step |-> step, byte |-> byte]

Init ==
  /\ segment = "none" /\ shm = Zeros
  /\ data_mem = Zeros /\ last_dmem_copy = Zeros
  /\ cpu = At("start", 0) /\ runs = 1
  /\ input = At("start", 0) /\ display = At("start", 0)
  /\ shared_memory = Zeros /\ overtaken = {}

-----------------------------------------------------------------------------
(* The C model                                                             *)

\* Mutant: the loop ends one byte early.
FollowingShort(byte, loop, after) ==
  IF byte + 2 < SHM_SIZE THEN At(loop, byte + 1) ELSE At(after, 0)

\* The next byte of a loop over the segment, or what follows the loop.
Following(byte, loop, after) ==
  IF byte + 1 < SHM_SIZE THEN At(loop, byte + 1) ELSE At(after, 0)

\* Mutant: a segment left behind is not copied to.
InitSharedMemoryReuses ==
  /\ cpu.step = "start"
  /\ segment' = "there"
  /\ shm' = IF segment = "there" THEN shm ELSE Zeros
  /\ last_dmem_copy' = data_mem
  /\ cpu' = At(IF segment = "there" THEN "turn" ELSE "copy", 0)
  /\ UNCHANGED <<data_mem, runs, others, overtaken>>

\* shmget with IPC_CREAT: a segment left behind by an earlier run is used as
\* it is. update_shared_memory in mode 1 then saves the copy first.
InitSharedMemory ==
  /\ cpu.step = "start"
  /\ segment' = "there"
  /\ shm' = IF segment = "there" THEN shm ELSE Zeros
  /\ last_dmem_copy' = data_mem
  /\ cpu' = At("copy", 0)
  /\ UNCHANGED <<data_mem, runs, others, overtaken>>

CopyOut ==
  /\ cpu.step = "copy"
  /\ shm' = [shm EXCEPT ![cpu.byte] = data_mem[cpu.byte]]
  /\ overtaken' = overtaken \ {cpu.byte}
  /\ cpu' = Following(cpu.byte, "copy", "turn")
  /\ UNCHANGED <<segment, private, runs, others>>

\* One turn of main's loop; of the CPU only its store matters here.
Turn ==
  /\ cpu.step = "turn"
  /\ \/ UNCHANGED data_mem
     \/ \E c \in CPU_CELLS, v \in BYTES : data_mem' = [data_mem EXCEPT ![c] = v]
  /\ cpu' = At("put", 0)
  /\ UNCHANGED <<segment, shm, last_dmem_copy, runs, others, overtaken>>

\* One of the exit(1) of the CPU: the segment stays behind.
Crash ==
  /\ cpu.step = "turn"
  /\ cpu' = At("crashed", 0)
  /\ UNCHANGED <<segment, shm, private, runs, others, overtaken>>

\* update_shared_memory in mode 0: first what the CPU has changed goes out.
PutByte ==
  /\ cpu.step = "put"
  /\ IF last_dmem_copy[cpu.byte] # data_mem[cpu.byte]
     THEN /\ shm' = [shm EXCEPT ![cpu.byte] = data_mem[cpu.byte]]
          /\ overtaken' = overtaken \ {cpu.byte}
     ELSE UNCHANGED <<shm, overtaken>>
  /\ cpu' = At("compare", cpu.byte)
  /\ UNCHANGED <<segment, private, runs, others>>

\* Mutant: only a byte the CPU has changed is compared.
CompareByteChanged ==
  /\ cpu.step = "compare"
  /\ IF last_dmem_copy[cpu.byte] # data_mem[cpu.byte] /\ shm[cpu.byte] # data_mem[cpu.byte]
     THEN cpu' = At("take", cpu.byte) /\ UNCHANGED overtaken
     ELSE /\ cpu' = Following(cpu.byte, "put", "save")
          /\ overtaken' = overtaken \ {cpu.byte}
  /\ UNCHANGED <<segment, shm, private, runs, others>>

CompareByte ==
  /\ cpu.step = "compare"
  /\ IF shm[cpu.byte] # data_mem[cpu.byte]
     THEN cpu' = At("take", cpu.byte) /\ UNCHANGED overtaken
     ELSE /\ cpu' = Following(cpu.byte, "put", "save")
          /\ overtaken' = overtaken \ {cpu.byte}
  /\ UNCHANGED <<segment, shm, private, runs, others>>

\* The segment is read a second time: the value may be a later one.
TakeByte ==
  /\ cpu.step = "take"
  /\ data_mem' = [data_mem EXCEPT ![cpu.byte] = shm[cpu.byte]]
  /\ overtaken' = overtaken \ {cpu.byte}
  /\ cpu' = Following(cpu.byte, "put", "save")
  /\ UNCHANGED <<segment, shm, last_dmem_copy, runs, others>>

\* Mutant: the copy is not brought up to date after the merge.
SaveCopyForgets ==
  /\ cpu.step = "save"
  /\ cpu' \in {At("turn", 0), At("deinit", 0)}
  /\ UNCHANGED <<segment, shm, private, runs, others, overtaken>>

\* Whether the CPU has halted in this turn is left open.
SaveCopy ==
  /\ cpu.step = "save"
  /\ last_dmem_copy' = data_mem
  /\ cpu' \in {At("turn", 0), At("deinit", 0)}
  /\ UNCHANGED <<segment, shm, data_mem, runs, others, overtaken>>

Attached(process) == process.step = "attached"

\* shmctl(IPC_RMID): the segment goes when the last process detaches it.
DeinitSharedMemory ==
  /\ cpu.step = "deinit"
  /\ segment' = IF Attached(input) \/ Attached(display) THEN "marked" ELSE "none"
  /\ cpu' = At("ended", 0)
  /\ UNCHANGED <<shm, private, runs, others, overtaken>>

\* The user starts the C model again after it has died.
Restart ==
  /\ cpu.step = "crashed" /\ runs < MAX_RUNS
  /\ runs' = runs + 1
  /\ data_mem' = Zeros /\ last_dmem_copy' = Zeros
  /\ cpu' = At("start", 0)
  /\ UNCHANGED <<segment, shm, others, overtaken>>

-----------------------------------------------------------------------------
(* The other two processes                                                 *)

\* shmget without IPC_CREAT finds no removed segment; shmat may, as long as
\* another process is attached. When there is none: exit(-1).
Found    == IF segment = "there" THEN At("idle", 0) ELSE At("exited", 0)
Open(byte) == IF segment = "none" THEN At("exited", 0) ELSE At("attached", byte)

\* Mutant: a removed segment is never destroyed.
DetachOnly(other) == UNCHANGED segment

\* The last one to detach a removed segment destroys it.
Detach(other) ==
  segment' = IF segment = "marked" /\ ~Attached(other) THEN "none" ELSE segment

StartInput ==
  /\ input.step = "start"
  /\ input' = Found
  /\ UNCHANGED <<segment, shm, private, cpu, runs, display, shared_memory, overtaken>>

AttachInput ==
  /\ input.step = "idle"
  /\ input' = Open(1)
  /\ UNCHANGED <<segment, shm, private, cpu, runs, display, shared_memory, overtaken>>

InputByte ==
  /\ Attached(input) /\ input.byte <= INPUT_BYTES
  /\ LET c == INPUT_CELLS[input.byte]
     IN  /\ \E v \in BYTES : shm' = [shm EXCEPT ![c] = v]
         /\ overtaken' = overtaken \cup {c}
  /\ input' = At("attached", input.byte + 1)
  /\ UNCHANGED <<segment, private, cpu, runs, display, shared_memory>>

DetachInput ==
  /\ Attached(input) /\ input.byte > INPUT_BYTES
  /\ Detach(display)
  /\ input' = At("idle", 0)
  /\ UNCHANGED <<shm, private, cpu, runs, display, shared_memory, overtaken>>

StartDisplay ==
  /\ display.step = "start"
  /\ display' = Found
  /\ UNCHANGED <<segment, shm, private, cpu, runs, input, shared_memory, overtaken>>

\* Mutant: the display's copy starts at the second byte.
AttachDisplayLate ==
  /\ display.step = "idle"
  /\ display' = Open(1)
  /\ UNCHANGED <<segment, shm, private, cpu, runs, input, shared_memory, overtaken>>

AttachDisplay ==
  /\ display.step = "idle"
  /\ display' = Open(0)
  /\ UNCHANGED <<segment, shm, private, cpu, runs, input, shared_memory, overtaken>>

DisplayByte ==
  /\ Attached(display) /\ display.byte < SHM_SIZE
  /\ shared_memory' = [shared_memory EXCEPT ![display.byte] = shm[display.byte]]
  /\ display' = At("attached", display.byte + 1)
  /\ UNCHANGED <<segment, shm, private, cpu, runs, input, overtaken>>

DetachDisplay ==
  /\ Attached(display) /\ display.byte = SHM_SIZE
  /\ Detach(input)
  /\ display' = At("idle", 0)
  /\ UNCHANGED <<shm, private, cpu, runs, input, shared_memory, overtaken>>

-----------------------------------------------------------------------------
CModel ==
  \/ InitSharedMemory \/ CopyOut \/ Turn \/ Crash \/ Restart
  \/ PutByte \/ CompareByte \/ TakeByte \/ SaveCopy \/ DeinitSharedMemory
InputProcess   == StartInput \/ AttachInput \/ InputByte \/ DetachInput
DisplayProcess == StartDisplay \/ AttachDisplay \/ DisplayByte \/ DetachDisplay

\* Every process has ended.
Terminated ==
  /\ cpu.step \in {"crashed", "ended"}
  /\ input.step = "exited" /\ display.step = "exited"
  /\ UNCHANGED vars

Next == CModel \/ InputProcess \/ DisplayProcess \/ Terminated

Spec == Init /\ [][Next]_vars

\* The C model and the display loop without waiting for anyone.
FairSpec == Spec /\ WF_vars(CModel) /\ WF_vars(DisplayProcess)

-----------------------------------------------------------------------------
(* Properties                                                              *)

CpuSteps == {"start", "copy", "turn", "put", "compare", "take", "save",
             "deinit", "ended", "crashed"}
ProcessSteps == {"start", "idle", "attached", "exited"}
Memory == [Cells -> BYTES]

\* The types of all variables; a removed segment lives only while attached,
\* and the input process counts its bytes from 1 on.
TypeOK ==
  /\ segment \in {"none", "there", "marked"}
  /\ segment = "marked" => Attached(input) \/ Attached(display)
  /\ shm \in Memory /\ shared_memory \in Memory
  /\ data_mem \in Memory /\ last_dmem_copy \in Memory
  /\ cpu \in [step : CpuSteps, byte : Cells]
  /\ runs \in 1 .. MAX_RUNS
  /\ input \in [step : ProcessSteps, byte : 0 .. INPUT_BYTES + 1]
  /\ Attached(input) => input.byte # 0
  /\ display \in [step : ProcessSteps, byte : 0 .. SHM_SIZE]
  /\ overtaken \subseteq InputCells

\* When a merge is done the two memories agree, except in bytes the input
\* process has written after the merge passed them: no store of the CPU and
\* no earlier input is forgotten half way (update_shared_memory).
MergeAgrees ==
  cpu.step \in {"save", "turn", "deinit"}
    => \A c \in Cells \ overtaken : data_mem[c] = shm[c]

\* The merge never changes a byte that only the CPU writes, whatever an
\* earlier run has left in the segment: the program reads what it stored.
OwnStoresStay ==
  [][cpu.step \in {"copy", "put", "compare", "take", "save"}
       => \A c \in Cells \ InputCells : data_mem'[c] = data_mem[c]]_vars

\* The merge never writes an old value over a byte that only the input
\* process writes: input is not undone by the copy the C model has of it.
InputNotUndone ==
  [][cpu' # cpu /\ cpu.step \notin {"start", "copy"}
       => \A c \in Cells \ CPU_CELLS : shm'[c] = shm[c]]_vars

Over == cpu.step \in {"crashed", "ended"}

\* What the input process writes reaches the program, unless it is written
\* again first or the C model ends.
InputArrives ==
  \A c \in InputCells \ CPU_CELLS, v \in BYTES :
    cpu.step = "turn" /\ shm[c] = v ~> data_mem[c] = v \/ shm[c] # v \/ Over

\* What the program stores reaches the screen, unless it is replaced first,
\* the C model ends, or the display started before there was a segment.
FrameArrives ==
  \A c \in CPU_CELLS \ InputCells, v \in BYTES :
    cpu.step = "turn" /\ data_mem[c] = v
      ~> \/ shared_memory[c] = v \/ data_mem[c] # v
         \/ Over \/ display.step = "exited"

=============================================================================
