------------------------ MODULE MCNoobsSharedMemory ------------------------
(* Three bytes: one the program stores to, one that both the program and   *)
(* the input process write, one for input only.                            *)
EXTENDS NoobsSharedMemory

MCCpuCells   == {0, 1}
MCInputCells == <<1, 2>>

=============================================================================
