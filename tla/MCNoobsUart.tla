---------------------------- MODULE MCNoobsUart ----------------------------
(* Three bytes, bits of five clk50m cycles, one to three of them in a cycle *)
(* of the CPU.                                                              *)
EXTENDS NoobsUart

MCBoards == {"iCEStick", "NexysA7"}

=============================================================================
