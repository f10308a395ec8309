----------------------- MODULE NoobsSharedMemory_proofs -----------------------
(***************************************************************************)
(* For every size of the segment and every choice of the bytes that the    *)
(* program and the input process write: the merge of the C model with its  *)
(* shared memory forgets no store and no input.                            *)
(***************************************************************************)
EXTENDS NoobsSharedMemory, TLAPS

Merging == {"put", "compare", "take"}

\* What the loop over the bytes has passed agrees.
MergedBelow ==
  cpu.step \in {"copy"} \cup Merging
    => \A c \in Cells \ overtaken : c < cpu.byte => data_mem[c] = shm[c]

\* A byte that only the program writes is in the segment as it was at the last
\* merge, or as it is now, on either side of the byte the loop has reached.
ProgramCells ==
  \A c \in Cells \ InputCells :
    /\ cpu.step = "copy"
         => last_dmem_copy[c] = data_mem[c] /\ (c < cpu.byte => shm[c] = data_mem[c])
    /\ cpu.step = "put"
         => shm[c] = IF c < cpu.byte THEN data_mem[c] ELSE last_dmem_copy[c]
    /\ cpu.step \in {"compare", "take"}
         => shm[c] = IF c <= cpu.byte THEN data_mem[c] ELSE last_dmem_copy[c]
    /\ cpu.step \in {"save", "turn"} => shm[c] = data_mem[c]
    /\ cpu.step = "turn" => last_dmem_copy[c] = data_mem[c]
    /\ cpu.step = "take" => c # cpu.byte

\* A byte the program does not write is unchanged until the loop reaches it.
OtherCells ==
  \A c \in Cells \ CPU_CELLS :
    \/ cpu.step \in {"copy", "turn"}
    \/ cpu.step \in Merging /\ cpu.byte <= c
    => last_dmem_copy[c] = data_mem[c]

IInv == TypeOK /\ MergeAgrees /\ MergedBelow /\ ProgramCells /\ OtherCells

-----------------------------------------------------------------------------
\* What the assumptions say of the parameters.
LEMMA Parameters ==
  /\ SHM_SIZE \in Nat /\ 0 \in Cells /\ 0 \in BYTES
  /\ MAX_RUNS \in Nat /\ 1 \in 1 .. MAX_RUNS
  /\ INPUT_BYTES \in Nat /\ 1 \in 1 .. INPUT_BYTES
  /\ \A k \in 1 .. INPUT_BYTES : INPUT_CELLS[k] \in Cells \cap InputCells
BY ShareAssumption DEF ShareAssumption, Cells, InputCells

\* The loops over the bytes stay within the segment, and end behind its last
\* byte.
LEMMA FollowingType ==
  ASSUME NEW byte \in Cells, NEW loop \in CpuSteps, NEW after \in CpuSteps
  PROVE  /\ Following(byte, loop, after) \in [step : CpuSteps, byte : Cells]
         /\ \/ Following(byte, loop, after) = At(loop, byte + 1)
            \/ Following(byte, loop, after) = At(after, 0) /\ byte + 1 = SHM_SIZE
BY Parameters DEF Following, At, Cells

\* The memories begin as zeros, which are bytes.
LEMMA ZerosType == Zeros \in Memory
BY Parameters DEF Zeros, Memory

LEMMA InitIInv == Init => IInv
<1>. SUFFICES ASSUME Init PROVE IInv
  OBVIOUS
<1>1. TypeOK
  <2>1. shm \in Memory /\ shared_memory \in Memory /\ data_mem \in Memory
          /\ last_dmem_copy \in Memory
    BY ZerosType DEF Init
  <2>2. cpu \in [step : CpuSteps, byte : Cells] /\ runs \in 1 .. MAX_RUNS
    BY Parameters DEF Init, At, CpuSteps
  <2>3. /\ input \in [step : ProcessSteps, byte : 0 .. INPUT_BYTES + 1]
        /\ display \in [step : ProcessSteps, byte : 0 .. SHM_SIZE]
    BY Parameters DEF Init, At, ProcessSteps
  <2>4. ~Attached(input)
    BY DEF Init, At, Attached
  <2>. QED BY <2>1, <2>2, <2>3, <2>4 DEF Init, TypeOK
<1>2. MergeAgrees /\ MergedBelow /\ ProgramCells /\ OtherCells
  BY DEF Init, At, MergeAgrees, MergedBelow, ProgramCells, OtherCells, Merging
<1>. QED BY <1>1, <1>2 DEF IInv

-----------------------------------------------------------------------------
(* Types                                                                   *)

LEMMA TypeKept == TypeOK /\ [Next]_vars => TypeOK'
<1>. SUFFICES ASSUME TypeOK, [Next]_vars PROVE TypeOK'
  OBVIOUS
<1>. USE Parameters DEF TypeOK, At, Memory
<1>0. 0 \in Cells /\ {"start", "copy", "turn", "put", "compare", "take", "save",
                       "deinit", "ended", "crashed"} = CpuSteps
  BY DEF CpuSteps
<1>1. CASE InitSharedMemory
  BY <1>0, <1>1, ZerosType DEF InitSharedMemory, others
<1>2. CASE CopyOut
  BY <1>0, <1>2, FollowingType DEF CopyOut, private, others
<1>3. CASE Turn
  BY <1>0, <1>3 DEF Turn, others
<1>4. CASE Crash
  BY <1>0, <1>4 DEF Crash, private, others
<1>5. CASE Restart
  <2>1. runs' \in 1 .. MAX_RUNS
    BY <1>5 DEF Restart
  <2>2. data_mem' \in Memory /\ last_dmem_copy' \in Memory
    BY <1>5, ZerosType DEF Restart
  <2>. QED BY <1>0, <1>5, <2>1, <2>2 DEF Restart, others
<1>6. CASE PutByte
  BY <1>0, <1>6 DEF PutByte, private, others
<1>7. CASE CompareByte
  <2>1. cpu' \in [step : CpuSteps, byte : Cells]
    <3>1. CASE shm[cpu.byte] # data_mem[cpu.byte]
      BY <1>0, <1>7, <3>1 DEF CompareByte
    <3>2. CASE shm[cpu.byte] = data_mem[cpu.byte]
      <4>1. cpu' = Following(cpu.byte, "put", "save")
        BY <1>7, <3>2 DEF CompareByte
      <4>2. cpu.byte \in Cells /\ "put" \in CpuSteps /\ "save" \in CpuSteps
        BY DEF CpuSteps
      <4>. QED BY <4>1, <4>2, FollowingType
    <3>. QED BY <3>1, <3>2
  <2>2. overtaken' \subseteq InputCells
    BY <1>7 DEF CompareByte
  <2>. QED BY <1>7, <2>1, <2>2 DEF CompareByte, private, others
<1>8. CASE TakeByte
  BY <1>0, <1>8, FollowingType DEF TakeByte, others
<1>9. CASE SaveCopy
  BY <1>0, <1>9 DEF SaveCopy, others
<1>10. CASE DeinitSharedMemory
  BY <1>0, <1>10 DEF DeinitSharedMemory, private, others, Attached
<1>11. CASE StartInput
  BY <1>11 DEF StartInput, private, Found, ProcessSteps, Attached
<1>12. CASE AttachInput
  BY <1>12 DEF AttachInput, private, Open, ProcessSteps, Attached
<1>13. CASE InputByte
  <2>1. INPUT_CELLS[input.byte] \in Cells \cap InputCells
    BY <1>13 DEF InputByte
  <2>2. input' \in [step : ProcessSteps, byte : 0 .. INPUT_BYTES + 1]
    BY <1>13 DEF InputByte, ProcessSteps
  <2>3. shm' \in Memory /\ overtaken' \subseteq InputCells
    BY <1>13, <2>1 DEF InputByte
  <2>4. segment = "marked" => Attached(input)' \/ Attached(display)'
    BY <1>13 DEF InputByte, Attached
  <2>. QED BY <1>13, <2>2, <2>3, <2>4 DEF InputByte, private
<1>14. CASE DetachInput
  BY <1>14 DEF DetachInput, Detach, private, ProcessSteps, Attached
<1>15. CASE StartDisplay
  BY <1>15 DEF StartDisplay, private, Found, ProcessSteps, Attached
<1>16. CASE AttachDisplay
  BY <1>16 DEF AttachDisplay, private, Open, ProcessSteps, Attached
<1>17. CASE DisplayByte
  <2>1. display.byte \in Cells
    BY <1>17 DEF DisplayByte, Cells
  <2>2. shared_memory' \in Memory
    BY <1>17, <2>1 DEF DisplayByte
  <2>3. display' \in [step : ProcessSteps, byte : 0 .. SHM_SIZE]
    BY <1>17 DEF DisplayByte, ProcessSteps
  <2>4. segment = "marked" => Attached(input)' \/ Attached(display)'
    BY <1>17 DEF DisplayByte, Attached
  <2>. QED BY <1>17, <2>2, <2>3, <2>4 DEF DisplayByte, private
<1>18. CASE DetachDisplay
  BY <1>18 DEF DetachDisplay, Detach, private, ProcessSteps, Attached
<1>19. CASE Terminated \/ UNCHANGED vars
  BY <1>19 DEF Terminated, vars, private, others, Attached
<1>. QED
  BY <1>1, <1>2, <1>3, <1>4, <1>5, <1>6, <1>7, <1>8, <1>9, <1>10, <1>11, <1>12,
     <1>13, <1>14, <1>15, <1>16, <1>17, <1>18, <1>19
     DEF Next, CModel, InputProcess, DisplayProcess

-----------------------------------------------------------------------------
(* The merge                                                               *)

\* A step of the C model that is none of its loops.
Straight == InitSharedMemory \/ Turn \/ Crash \/ Restart \/ SaveCopy \/ DeinitSharedMemory

\* A step of another process leaves the C model alone and writes to the
\* segment, if at all, an input cell that then counts as overtaken.
LEMMA OthersLeaveAlone ==
  ASSUME TypeOK, InputProcess \/ DisplayProcess \/ Terminated \/ UNCHANGED vars
  PROVE  /\ UNCHANGED <<private, cpu>>
         /\ overtaken \subseteq overtaken'
         /\ \A c \in Cells : c \notin InputCells \/ c \notin overtaken' => shm'[c] = shm[c]
<1>1. CASE InputByte
  <2>1. PICK v \in BYTES : shm' = [shm EXCEPT ![INPUT_CELLS[input.byte]] = v]
    BY <1>1 DEF InputByte
  <2>2. INPUT_CELLS[input.byte] \in InputCells
    BY <1>1, Parameters DEF InputByte, TypeOK
  <2>. QED BY <1>1, <2>1, <2>2 DEF InputByte, TypeOK, Memory
<1>2. CASE ~InputByte
  BY <1>2 DEF InputProcess, DisplayProcess, StartInput, AttachInput, DetachInput,
              StartDisplay, AttachDisplay, DisplayByte, DetachDisplay, Terminated, vars
<1>. QED BY <1>1, <1>2

\* Where the comparison of a byte leads.
LEMMA CompareGoesOn ==
  ASSUME TypeOK, CompareByte
  PROVE  \/ shm[cpu.byte] # data_mem[cpu.byte] /\ cpu' = At("take", cpu.byte)
         \/ shm[cpu.byte] = data_mem[cpu.byte] /\ cpu' = At("put", cpu.byte + 1)
         \/ /\ shm[cpu.byte] = data_mem[cpu.byte]
            /\ cpu' = At("save", 0) /\ cpu.byte + 1 = SHM_SIZE
<1>1. CASE shm[cpu.byte] # data_mem[cpu.byte]
  BY <1>1 DEF CompareByte
<1>2. CASE shm[cpu.byte] = data_mem[cpu.byte]
  <2>1. cpu' = Following(cpu.byte, "put", "save")
    BY <1>2 DEF CompareByte
  <2>2. cpu.byte \in Cells /\ "put" \in CpuSteps /\ "save" \in CpuSteps
    BY DEF TypeOK, CpuSteps
  <2>. QED BY <1>2, <2>1, <2>2, FollowingType
<1>. QED BY <1>1, <1>2

LEMMA MergeKept == IInv /\ [Next]_vars => MergeAgrees' /\ MergedBelow'
<1>. SUFFICES ASSUME IInv, [Next]_vars PROVE MergeAgrees' /\ MergedBelow'
  OBVIOUS
<1>. USE DEF IInv, MergeAgrees, MergedBelow, Merging, At
<1>1. CASE Straight
  BY <1>1 DEF Straight, InitSharedMemory, Turn, Crash, Restart, SaveCopy,
              DeinitSharedMemory, private, Cells
<1>2. CASE CopyOut
  <2>1. \/ cpu' = At("copy", cpu.byte + 1)
        \/ cpu' = At("turn", 0) /\ cpu.byte + 1 = SHM_SIZE
    BY <1>2, FollowingType DEF CopyOut, TypeOK, CpuSteps
  <2>. QED BY <1>2, <2>1, Parameters DEF CopyOut, private, TypeOK, Memory, Cells
<1>3. CASE PutByte
  BY <1>3 DEF PutByte, private, TypeOK, Memory, Cells
<1>4. CASE CompareByte
  <2>1. \/ shm[cpu.byte] # data_mem[cpu.byte] /\ cpu' = At("take", cpu.byte)
        \/ shm[cpu.byte] = data_mem[cpu.byte] /\ cpu' = At("put", cpu.byte + 1)
        \/ /\ shm[cpu.byte] = data_mem[cpu.byte]
           /\ cpu' = At("save", 0) /\ cpu.byte + 1 = SHM_SIZE
    BY <1>4, CompareGoesOn
  <2>2. /\ cpu.step = "compare" /\ cpu.byte \in Cells /\ UNCHANGED <<shm, data_mem>>
        /\ shm[cpu.byte] = data_mem[cpu.byte] => overtaken' = overtaken \ {cpu.byte}
        /\ shm[cpu.byte] # data_mem[cpu.byte] => overtaken' = overtaken
    BY <1>4 DEF CompareByte, private, TypeOK
  <2>3. CASE shm[cpu.byte] # data_mem[cpu.byte] /\ cpu' = At("take", cpu.byte)
    BY <2>2, <2>3
  <2>4. CASE shm[cpu.byte] = data_mem[cpu.byte] /\ cpu' = At("put", cpu.byte + 1)
    BY <2>2, <2>4 DEF Cells
  <2>5. CASE /\ shm[cpu.byte] = data_mem[cpu.byte]
             /\ cpu' = At("save", 0) /\ cpu.byte + 1 = SHM_SIZE
    BY <2>2, <2>5, Parameters DEF Cells
  <2>. QED BY <2>1, <2>3, <2>4, <2>5
<1>5. CASE TakeByte
  <2>1. \/ cpu' = At("put", cpu.byte + 1)
        \/ cpu' = At("save", 0) /\ cpu.byte + 1 = SHM_SIZE
    BY <1>5, FollowingType DEF TakeByte, TypeOK, CpuSteps
  <2>. QED BY <1>5, <2>1, Parameters DEF TakeByte, TypeOK, Memory, Cells
<1>6. CASE InputProcess \/ DisplayProcess \/ Terminated \/ UNCHANGED vars
  BY <1>6, OthersLeaveAlone DEF private
<1>. QED BY <1>1, <1>2, <1>3, <1>4, <1>5, <1>6 DEF Next, CModel, Straight

LEMMA ProgramCellsKept == IInv /\ [Next]_vars => ProgramCells'
<1>. SUFFICES ASSUME IInv, [Next]_vars PROVE ProgramCells'
  OBVIOUS
<1>. USE DEF IInv, ProgramCells, At
<1>1. CASE Straight
  BY <1>1 DEF Straight, InitSharedMemory, Turn, Crash, Restart, SaveCopy,
              DeinitSharedMemory, private, Cells
<1>2. CASE CopyOut
  <2>1. \/ cpu' = At("copy", cpu.byte + 1)
        \/ cpu' = At("turn", 0) /\ cpu.byte + 1 = SHM_SIZE
    BY <1>2, FollowingType DEF CopyOut, TypeOK, CpuSteps
  <2>. QED BY <1>2, <2>1, Parameters DEF CopyOut, private, TypeOK, Memory, Cells
<1>3. CASE PutByte
  <2>1. CASE last_dmem_copy[cpu.byte] = data_mem[cpu.byte]
    BY <1>3, <2>1 DEF PutByte, private, TypeOK, Cells
  <2>2. CASE last_dmem_copy[cpu.byte] # data_mem[cpu.byte]
    <3>1. /\ cpu.step = "put" /\ cpu' = At("compare", cpu.byte) /\ UNCHANGED private
          /\ shm' = [shm EXCEPT ![cpu.byte] = data_mem[cpu.byte]]
      BY <1>3, <2>2 DEF PutByte
    <3>2. shm \in [Cells -> BYTES] /\ cpu.byte \in Cells
      BY DEF TypeOK, Memory
    <3>. QED BY <3>1, <3>2 DEF private, Cells
  <2>. QED BY <2>1, <2>2
<1>4. CASE CompareByte
  <2>1. \/ shm[cpu.byte] # data_mem[cpu.byte] /\ cpu' = At("take", cpu.byte)
        \/ shm[cpu.byte] = data_mem[cpu.byte] /\ cpu' = At("put", cpu.byte + 1)
        \/ /\ shm[cpu.byte] = data_mem[cpu.byte]
           /\ cpu' = At("save", 0) /\ cpu.byte + 1 = SHM_SIZE
    BY <1>4, CompareGoesOn
  <2>. QED BY <1>4, <2>1, Parameters DEF CompareByte, private, TypeOK, Memory, Cells
<1>5. CASE TakeByte
  <2>1. \/ cpu' = At("put", cpu.byte + 1)
        \/ cpu' = At("save", 0) /\ cpu.byte + 1 = SHM_SIZE
    BY <1>5, FollowingType DEF TakeByte, TypeOK, CpuSteps
  <2>. QED BY <1>5, <2>1, Parameters DEF TakeByte, TypeOK, Memory, Cells
<1>6. CASE InputProcess \/ DisplayProcess \/ Terminated \/ UNCHANGED vars
  BY <1>6, OthersLeaveAlone DEF private
<1>. QED BY <1>1, <1>2, <1>3, <1>4, <1>5, <1>6 DEF Next, CModel, Straight

LEMMA OtherCellsKept == IInv /\ [Next]_vars => OtherCells'
<1>. SUFFICES ASSUME IInv, [Next]_vars PROVE OtherCells'
  OBVIOUS
<1>. USE DEF IInv, OtherCells, Merging, At
<1>1. CASE Straight
  BY <1>1 DEF Straight, InitSharedMemory, Turn, Crash, Restart, SaveCopy,
              DeinitSharedMemory, private, TypeOK, Memory
<1>2. CASE CopyOut
  <2>1. \/ cpu' = At("copy", cpu.byte + 1)
        \/ cpu' = At("turn", 0) /\ cpu.byte + 1 = SHM_SIZE
    BY <1>2, FollowingType DEF CopyOut, TypeOK, CpuSteps
  <2>. QED BY <1>2, <2>1, Parameters DEF CopyOut, private, TypeOK, Cells
<1>3. CASE PutByte
  BY <1>3 DEF PutByte, private
<1>4. CASE CompareByte
  <2>1. \/ shm[cpu.byte] # data_mem[cpu.byte] /\ cpu' = At("take", cpu.byte)
        \/ shm[cpu.byte] = data_mem[cpu.byte] /\ cpu' = At("put", cpu.byte + 1)
        \/ /\ shm[cpu.byte] = data_mem[cpu.byte]
           /\ cpu' = At("save", 0) /\ cpu.byte + 1 = SHM_SIZE
    BY <1>4, CompareGoesOn
  <2>. QED BY <1>4, <2>1, Parameters DEF CompareByte, private, TypeOK, Cells
<1>5. CASE TakeByte
  <2>1. \/ cpu' = At("put", cpu.byte + 1)
        \/ cpu' = At("save", 0) /\ cpu.byte + 1 = SHM_SIZE
    BY <1>5, FollowingType DEF TakeByte, TypeOK, CpuSteps
  <2>. QED BY <1>5, <2>1, Parameters DEF TakeByte, TypeOK, Memory, Cells
<1>6. CASE InputProcess \/ DisplayProcess \/ Terminated \/ UNCHANGED vars
  BY <1>6, OthersLeaveAlone DEF private
<1>. QED BY <1>1, <1>2, <1>3, <1>4, <1>5, <1>6 DEF Next, CModel, Straight

\* The inductive invariant holds throughout.
THEOREM IInvCorrect == Spec => []IInv
<1>1. IInv /\ [Next]_vars => IInv'
  BY TypeKept, MergeKept, ProgramCellsKept, OtherCellsKept DEF IInv
<1>. QED BY InitIInv, <1>1, PTL DEF Spec

-----------------------------------------------------------------------------
(* What follows                                                            *)

\* The types of the globals, the segment and the three processes.
THEOREM SharedTypeCorrect == Spec => []TypeOK
<1>1. IInv => TypeOK
  BY DEF IInv
<1>. QED BY IInvCorrect, <1>1, PTL

\* After a merge the two memories agree except for later input
\* (update_shared_memory).
THEOREM MergeCorrect == Spec => []MergeAgrees
<1>1. IInv => MergeAgrees
  BY DEF IInv
<1>. QED BY IInvCorrect, <1>1, PTL

\* The merge never changes a byte that only the program writes.
THEOREM OwnStoresCorrect == Spec => OwnStoresStay
<1>1. ASSUME IInv, [Next]_vars,
             cpu.step \in {"copy", "put", "compare", "take", "save"},
             NEW c \in Cells \ InputCells
      PROVE  data_mem'[c] = data_mem[c]
  <2>1. CASE TakeByte
    BY <1>1, <2>1 DEF TakeByte, IInv, ProgramCells, TypeOK, Memory
  <2>2. CASE InitSharedMemory \/ CopyOut \/ PutByte \/ CompareByte \/ SaveCopy
    BY <2>2 DEF InitSharedMemory, CopyOut, PutByte, CompareByte, SaveCopy, private
  <2>3. CASE Turn \/ Crash \/ Restart \/ DeinitSharedMemory
    BY <1>1, <2>3 DEF Turn, Crash, Restart, DeinitSharedMemory
  <2>4. CASE InputProcess \/ DisplayProcess \/ Terminated \/ UNCHANGED vars
    BY <1>1, <2>4, OthersLeaveAlone DEF private, IInv
  <2>. QED BY <1>1, <2>1, <2>2, <2>3, <2>4 DEF Next, CModel
<1>2. IInv /\ [Next]_vars =>
        [cpu.step \in {"copy", "put", "compare", "take", "save"}
           => \A c \in Cells \ InputCells : data_mem'[c] = data_mem[c]]_vars
  BY <1>1
<1>. QED BY IInvCorrect, <1>2, PTL DEF Spec, OwnStoresStay

\* The merge never writes over a byte that only the input process writes.
THEOREM InputCorrect == Spec => InputNotUndone
<1>1. ASSUME IInv, [Next]_vars, cpu' # cpu, cpu.step \notin {"start", "copy"},
             NEW c \in Cells \ CPU_CELLS
      PROVE  shm'[c] = shm[c]
  <2>1. CASE PutByte
    <3>1. cpu.byte = c => last_dmem_copy[c] = data_mem[c]
      BY <2>1 , <1>1 DEF PutByte, IInv, OtherCells, Merging, Cells
    <3>. QED BY <1>1, <2>1, <3>1 DEF PutByte, IInv, TypeOK, Memory
  <2>2. CASE Turn \/ Crash \/ CompareByte \/ TakeByte \/ SaveCopy
             \/ DeinitSharedMemory \/ Restart
    BY <2>2 DEF Turn, Crash, CompareByte, TakeByte, SaveCopy, DeinitSharedMemory, Restart
  <2>3. CASE InitSharedMemory \/ CopyOut
    BY <1>1, <2>3 DEF InitSharedMemory, CopyOut
  <2>4. CASE InputProcess \/ DisplayProcess \/ Terminated \/ UNCHANGED vars
    BY <1>1, <2>4, OthersLeaveAlone DEF IInv
  <2>. QED BY <1>1, <2>1, <2>2, <2>3, <2>4 DEF Next, CModel
<1>2. IInv /\ [Next]_vars =>
        [cpu' # cpu /\ cpu.step \notin {"start", "copy"}
           => \A c \in Cells \ CPU_CELLS : shm'[c] = shm[c]]_vars
  BY <1>1
<1>. QED BY IInvCorrect, <1>2, PTL DEF Spec, InputNotUndone

=============================================================================
