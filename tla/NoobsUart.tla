------------------------------ MODULE NoobsUart ------------------------------
(***************************************************************************)
(* The UART of the two SoCs. A program stores a byte at address 101 in the *)
(* slow cpu_clk domain; the transmitter takes it and sends it bit by bit   *)
(* in the fast clk50m domain; the program polls tx_busy at the same        *)
(* address. The two clocks tick independently, within the bounds of their  *)
(* ratio.                                                                  *)
(***************************************************************************)
EXTENDS Naturals, Sequences

CONSTANTS
  BOARDS,              (* "iCEStick": a store crosses two flip-flops;
                          "NexysA7": tx_data_wr is used as it is             *)
  TX_ACC_MAX,          (* clk50m cycles of a bit, less one (436)             *)
  MIN_FAST, MAX_FAST,  (* clk50m cycles in one cpu_clk cycle (268; 32)       *)
  Bytes,               (* the bytes the program stores                       *)
  MAX_BYTES            (* bound: how many it stores                          *)

BIT_TIME == TX_ACC_MAX + 1

ASSUME UartAssumption ==
  /\ BOARDS \subseteq {"iCEStick", "NexysA7"}
  /\ TX_ACC_MAX \in Nat /\ TX_ACC_MAX > 1   (* a bit has a middle *)
  /\ MIN_FAST \in Nat \ {0} /\ MAX_FAST \in Nat /\ MIN_FAST <= MAX_FAST
  \* The start bit and the data bits outlast a cycle of the CPU, in which the
  \* Nexys A7 shows the transmitter the same store at every edge.
  /\ MAX_FAST <= 9 * BIT_TIME
  /\ Bytes \subseteq 0 .. 255 /\ MAX_BYTES \in Nat

VARIABLES
  board,                      (* the SoC this is                             *)
  phase,                      (* clk50m edges since the last cpu_clk edge    *)
  access,                     (* what the CPU has on its bus in this cycle   *)
  R2,                         (* what the program's last poll has answered   *)
  tx_data_out, tx_data_wr,    (* flip-flops of cpu_clk                       *)
  tx_wr, tx_wr_q,             (* flip-flops of clk50m, on the iCEStick       *)
  tx_acc,                     (* baud_rate_gen.v                             *)
  state, data, bitpos, tx,    (* transmitter.v                               *)
  rx_count, rx_bits,          (* the receiver at the other end of the line   *)
  written, received           (* history: bytes stored, bytes received       *)

cpuRegs == <<access, R2, tx_data_out, tx_data_wr, written>>
txRegs  == <<state, data, bitpos, tx>>
rxRegs  == <<rx_count, rx_bits, received>>
vars    == <<board, phase, cpuRegs, tx_wr, tx_wr_q, tx_acc, txRegs, rxRegs>>

\* Mutant: busy only from the start bit on.
tx_busy_late == state \in {"DATA", "STOP"}

\* Mutant: the level that has passed both flip-flops instead of the edge.
wr_en_level == IF board = "iCEStick" THEN tx_wr /\ tx_wr_q ELSE tx_data_wr

tx_busy  == state # "IDLE"
txclk_en == tx_acc = 0
wr_en    == IF board = "iCEStick" THEN tx_wr /\ ~tx_wr_q ELSE tx_data_wr

Nothing  == [op |-> "none"]
Poll     == [op |-> "poll"]
Write(b) == [op |-> "write", byte |-> b]

\* When a program starts, the clocks have been running for any time.
Init ==
  /\ board \in BOARDS /\ phase = 0
  /\ access = Nothing /\ R2 = "unknown"
  /\ tx_data_out = 0 /\ tx_data_wr = FALSE
  /\ tx_wr = FALSE /\ tx_wr_q = FALSE
  /\ tx_acc \in 0 .. TX_ACC_MAX
  /\ state = "IDLE" /\ data = 0 /\ bitpos = 0 /\ tx = 1
  /\ rx_count = 0 /\ rx_bits = 0
  /\ written = <<>> /\ received = <<>>

-----------------------------------------------------------------------------
(* The program: WAIT_BUSY of blinky.asm, with any delay between its steps.  *)
(* LOAD and STORE are two bytes long, so a cycle without an access follows  *)
(* each of them.                                                            *)

MayPoll  == access = Nothing
MayWrite == access = Nothing /\ R2 = "idle" /\ Len(written) < MAX_BYTES

NextAccess ==
  \/ access' = Nothing
  \/ MayPoll /\ access' = Poll
  \/ MayWrite /\ \E b \in Bytes : access' = Write(b)

StoreByte ==
  /\ access.op = "write"
  /\ tx_data_out' = access.byte /\ tx_data_wr' = TRUE
  /\ written' = Append(written, access.byte)
  /\ R2' = "unknown"

PollBusy ==
  /\ access.op = "poll"
  /\ R2' = IF tx_busy THEN "busy" ELSE "idle"
  /\ tx_data_wr' = FALSE /\ UNCHANGED <<tx_data_out, written>>

NoAccess ==
  /\ access.op = "none"
  /\ tx_data_wr' = FALSE /\ UNCHANGED <<tx_data_out, written, R2>>

\* A rising edge of cpu_clk.
CpuEdge ==
  /\ phase >= MIN_FAST /\ phase' = 0
  /\ StoreByte \/ PollBusy \/ NoAccess
  /\ NextAccess
  /\ UNCHANGED <<board, tx_wr, tx_wr_q, tx_acc, txRegs, rxRegs>>

-----------------------------------------------------------------------------
(* A rising edge of clk50m                                                 *)

Synchronize == tx_wr' = tx_data_wr /\ tx_wr_q' = tx_wr

\* Mutant: a bit is one cycle longer than the other side expects.
BaudClockLong == tx_acc' = IF tx_acc > TX_ACC_MAX THEN 0 ELSE tx_acc + 1

BaudClock == tx_acc' = IF tx_acc = TX_ACC_MAX THEN 0 ELSE tx_acc + 1

\* Mutant: bitpos is left where the last byte has left it.
LoadNoReset ==
  /\ state = "IDLE" /\ wr_en
  /\ state' = "START" /\ data' = tx_data_out /\ UNCHANGED <<bitpos, tx>>

Load ==
  /\ state = "IDLE" /\ wr_en
  /\ state' = "START" /\ data' = tx_data_out /\ bitpos' = 0 /\ UNCHANGED tx

SendStart ==
  /\ state = "START" /\ txclk_en
  /\ state' = "DATA" /\ tx' = 0 /\ UNCHANGED <<data, bitpos>>

SendBit ==
  /\ state = "DATA" /\ txclk_en
  /\ tx' = (data \div 2^bitpos) % 2
  /\ IF bitpos = 7
     THEN state' = "STOP" /\ UNCHANGED bitpos
     ELSE bitpos' = bitpos + 1 /\ UNCHANGED state
  /\ UNCHANGED data

SendStop ==
  /\ state = "STOP" /\ txclk_en
  /\ state' = "IDLE" /\ tx' = 1 /\ UNCHANGED <<data, bitpos>>

Wait ==
  /\ IF state = "IDLE" THEN ~wr_en ELSE ~txclk_en
  /\ UNCHANGED txRegs

Transmitter == Load \/ SendStart \/ SendBit \/ SendStop \/ Wait

\* A terminal at the same speed: from the falling edge of the start bit on it
\* samples each bit in its middle. A stop bit that is not 1 is an error.
SampleTime(k) == k * BIT_TIME + BIT_TIME \div 2 + 1
FRAMING_ERROR == 256

Receiver ==
  CASE rx_count = 0 ->
         /\ rx_count' = IF tx = 0 THEN 1 ELSE 0
         /\ rx_bits' = 0 /\ UNCHANGED received
    [] rx_count = SampleTime(9) ->
         /\ received' = Append(received, IF tx = 1 THEN rx_bits ELSE FRAMING_ERROR)
         /\ rx_count' = 0 /\ UNCHANGED rx_bits
    [] OTHER ->
         /\ rx_bits' = IF \E k \in 1 .. 8 : rx_count = SampleTime(k)
                       THEN rx_bits \div 2 + tx * 128 ELSE rx_bits
         /\ rx_count' = rx_count + 1 /\ UNCHANGED received

FastEdge ==
  /\ phase < MAX_FAST /\ phase' = phase + 1
  /\ Synchronize /\ BaudClock /\ Transmitter /\ Receiver
  /\ UNCHANGED <<board, cpuRegs>>

-----------------------------------------------------------------------------
Next == CpuEdge \/ FastEdge

Spec == Init /\ [][Next]_vars

\* Both clocks run on: neither can get ahead of the other by more than the
\* bounds allow.
FairSpec == Spec /\ WF_vars(Next)

-----------------------------------------------------------------------------
(* Properties                                                              *)

\* The types of all variables, the receiver's counter within one frame.
TypeOK ==
  /\ board \in BOARDS /\ phase \in 0 .. MAX_FAST
  /\ access \in {Nothing, Poll} \cup {Write(b) : b \in Bytes}
  /\ R2 \in {"unknown", "busy", "idle"}
  /\ tx_data_out \in 0 .. 255 /\ tx_data_wr \in BOOLEAN
  /\ tx_wr \in BOOLEAN /\ tx_wr_q \in BOOLEAN
  /\ tx_acc \in 0 .. TX_ACC_MAX
  /\ state \in {"IDLE", "START", "DATA", "STOP"}
  /\ data \in 0 .. 255 /\ bitpos \in 0 .. 7 /\ tx \in {0, 1}
  /\ rx_count \in 0 .. SampleTime(9) /\ rx_bits \in 0 .. 255
  /\ written \in Seq(Bytes) /\ received \in Seq(0 .. FRAMING_ERROR)

\* A poll answers idle only when no byte is being sent and none is on its way
\* from the register to the transmitter, where it would be overwritten or
\* ignored: the crossing is done before the program can ask again.
IdleMeansFree ==
  R2 = "idle" => state = "IDLE" /\ ~tx_data_wr /\ (tx_wr => tx_wr_q)

\* Every byte stored after a poll that answered idle arrives once, unchanged
\* and in order.
Channel == INSTANCE NoobsChannel
ImplementsChannel == Channel!ChannelSpec

\* No stored byte is lost, the last one included.
AllArrive ==
  \A n \in 1 .. MAX_BYTES : Len(written) = n ~> Len(received) >= n

=============================================================================
