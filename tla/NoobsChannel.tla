---------------------------- MODULE NoobsChannel ----------------------------
(***************************************************************************)
(* What a program expects of the UART: each byte it stores to the transmit *)
(* register arrives at the other end of the line once, unchanged, in order.*)
(***************************************************************************)
EXTENDS Naturals, Sequences

CONSTANT Bytes
VARIABLES written, received

ChannelInit == written = <<>> /\ received = <<>>

Store == /\ \E b \in Bytes : written' = Append(written, b)
         /\ UNCHANGED received

Arrive == /\ Len(received) < Len(written)
          /\ received' = Append(received, written[Len(received) + 1])
          /\ UNCHANGED written

ChannelSpec == ChannelInit /\ [][Store \/ Arrive]_<<written, received>>

=============================================================================
