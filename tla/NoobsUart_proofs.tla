--------------------------- MODULE NoobsUart_proofs ---------------------------
(***************************************************************************)
(* For both boards, every ratio of the clocks and every baud rate: a poll  *)
(* that answers "idle" means that the transmitter is free and no store is  *)
(* on its way to it; and every byte a polling program stores arrives once, *)
(* unchanged and in order.                                                 *)
(***************************************************************************)
EXTENDS NoobsUart, Integers, TLAPS

\* Two accesses never follow each other: while one is on the bus the strobe
\* of the last store is over, and one edge of the fast clock later so is its
\* copy in the first of the two flip-flops.
AccessAlone ==
  access # Nothing => ~tx_data_wr /\ (phase >= 1 => ~tx_wr)

IInv == TypeOK /\ AccessAlone /\ IdleMeansFree

Accesses == {Nothing, Poll} \cup {Write(b) : b \in Bytes}

-----------------------------------------------------------------------------
\* What the assumptions say of the parameters.
LEMMA Parameters ==
  /\ TX_ACC_MAX \in Nat /\ BIT_TIME \in Nat /\ MAX_FAST \in Nat
  /\ MIN_FAST \in Nat /\ MIN_FAST >= 1
  /\ \A b \in Bytes : b \in 0 .. 255
  /\ \A k \in 0 .. 9 : SampleTime(k) \in Nat
BY UartAssumption DEF UartAssumption, BIT_TIME, SampleTime

\* Each access is one of the three kinds; only a store carries a byte.
LEMMA AccessKinds ==
  ASSUME access \in Accesses
  PROVE  /\ access.op = "none" <=> access = Nothing
         /\ access.op = "write" => access.byte \in Bytes
BY DEF Accesses, Nothing, Poll, Write

\* A bit of the data is 0 or 1.
LEMMA BitType ==
  ASSUME NEW d \in 0 .. 255, NEW k \in 0 .. 7
  PROVE  (d \div 2^k) % 2 \in {0, 1}
OBVIOUS

\* A bit shifted into a byte leaves a byte.
LEMMA ShiftType ==
  ASSUME NEW r \in 0 .. 255, NEW b \in {0, 1}
  PROVE  r \div 2 + b * 128 \in 0 .. 255
OBVIOUS

-----------------------------------------------------------------------------
LEMMA InitInv == Init => IInv
<1> SUFFICES ASSUME Init PROVE IInv
  OBVIOUS
<1>1. TypeOK
  <2>1. 0 \in 0 .. MAX_FAST /\ 0 \in 0 .. SampleTime(9)
    BY Parameters
  <2>2. <<>> \in Seq(Bytes) /\ <<>> \in Seq(0 .. FRAMING_ERROR)
    OBVIOUS
  <2>3. tx_data_wr \in BOOLEAN /\ tx_wr \in BOOLEAN /\ tx_wr_q \in BOOLEAN
    BY DEF Init
  <2> QED
    BY <2>1, <2>2, <2>3 DEF Init, TypeOK
<1>2. AccessAlone /\ IdleMeansFree
  BY DEF Init, AccessAlone, IdleMeansFree
<1> QED
  BY <1>1, <1>2 DEF IInv

\* The program's side.
LEMMA CpuEdgeType == TypeOK /\ CpuEdge => TypeOK'
<1> SUFFICES ASSUME TypeOK, CpuEdge PROVE TypeOK'
  OBVIOUS
<1>1. access' \in Accesses
  BY DEF CpuEdge, NextAccess, MayPoll, MayWrite, Accesses, TypeOK
<1>2. /\ R2' \in {"unknown", "busy", "idle"}
      /\ tx_data_out' \in 0 .. 255 /\ tx_data_wr' \in BOOLEAN
      /\ written' \in Seq(Bytes)
  <2>1. access \in Accesses /\ written \in Seq(Bytes)
    BY DEF TypeOK, Accesses
  <2>2. CASE StoreByte
    <3>1. access.byte \in Bytes /\ access.byte \in 0 .. 255
      BY <2>1, <2>2, AccessKinds, Parameters DEF StoreByte
    <3>2. Append(written, access.byte) \in Seq(Bytes)
      BY <2>1, <3>1
    <3> QED
      BY <2>2, <3>1, <3>2 DEF StoreByte
  <2>3. CASE PollBusy
    BY <2>1, <2>3 DEF PollBusy, TypeOK
  <2>4. CASE NoAccess
    BY <2>1, <2>4 DEF NoAccess, TypeOK
  <2> QED
    BY <2>2, <2>3, <2>4 DEF CpuEdge
<1>3. phase' \in 0 .. MAX_FAST
  BY Parameters DEF CpuEdge
<1>4. UNCHANGED <<board, tx_wr, tx_wr_q, tx_acc, txRegs, rxRegs>>
  BY DEF CpuEdge
<1> QED
  BY <1>1, <1>2, <1>3, <1>4 DEF TypeOK, Accesses, txRegs, rxRegs

\* The transmitter's side, and the other end of the line.
LEMMA FastEdgeType == TypeOK /\ FastEdge => TypeOK'
<1> SUFFICES ASSUME TypeOK, FastEdge PROVE TypeOK'
  OBVIOUS
<1>1. /\ phase' \in 0 .. MAX_FAST /\ tx_acc' \in 0 .. TX_ACC_MAX
      /\ tx_wr' \in BOOLEAN /\ tx_wr_q' \in BOOLEAN
  BY Parameters DEF FastEdge, Synchronize, BaudClock, TypeOK
<1>2. /\ state' \in {"IDLE", "START", "DATA", "STOP"}
      /\ data' \in 0 .. 255 /\ bitpos' \in 0 .. 7 /\ tx' \in {0, 1}
  <2>1. CASE SendBit
    <3>1. tx' \in {0, 1}
      BY <2>1, BitType DEF SendBit, TypeOK
    <3>2. bitpos' \in 0 .. 7 /\ state' \in {"DATA", "STOP"} /\ UNCHANGED data
      BY <2>1 DEF SendBit, TypeOK
    <3> QED
      BY <3>1, <3>2 DEF TypeOK
  <2>2. CASE Load
    BY <2>2 DEF Load, TypeOK
  <2>3. CASE SendStart \/ SendStop
    BY <2>3 DEF SendStart, SendStop, TypeOK
  <2>4. CASE Wait
    BY <2>4 DEF Wait, txRegs, TypeOK
  <2>5. Transmitter
    BY DEF FastEdge
  <2> QED
    BY <2>1, <2>2, <2>3, <2>4, <2>5 DEF Transmitter
<1>3. /\ rx_count' \in 0 .. SampleTime(9) /\ rx_bits' \in 0 .. 255
      /\ received' \in Seq(0 .. FRAMING_ERROR)
  <2>1. SampleTime(9) \in Nat /\ SampleTime(9) >= 1
    BY Parameters DEF SampleTime
  <2>2. CASE rx_count = 0
    <3>1. /\ rx_count' = IF tx = 0 THEN 1 ELSE 0
          /\ rx_bits' = 0 /\ UNCHANGED received
      BY <2>1, <2>2 DEF FastEdge, Receiver
    <3> QED
      BY <2>1, <3>1 DEF TypeOK
  <2>3. CASE rx_count # 0 /\ rx_count = SampleTime(9)
    <3>1. (IF tx = 1 THEN rx_bits ELSE FRAMING_ERROR) \in 0 .. FRAMING_ERROR
      BY DEF TypeOK, FRAMING_ERROR
    <3>2. /\ received' = Append(received, IF tx = 1 THEN rx_bits ELSE FRAMING_ERROR)
          /\ rx_count' = 0 /\ UNCHANGED rx_bits
      BY <2>3 DEF FastEdge, Receiver
    <3>3. received' \in Seq(0 .. FRAMING_ERROR)
      BY <3>1, <3>2 DEF TypeOK
    <3> QED
      BY <2>1, <3>2, <3>3 DEF TypeOK
  <2>4. CASE rx_count # 0 /\ rx_count # SampleTime(9)
    <3>1. rx_bits \div 2 + tx * 128 \in 0 .. 255
      BY ShiftType DEF TypeOK
    <3>2. /\ rx_bits' = IF \E k \in 1 .. 8 : rx_count = SampleTime(k)
                         THEN rx_bits \div 2 + tx * 128 ELSE rx_bits
          /\ rx_count' = rx_count + 1 /\ UNCHANGED received
      BY <2>4 DEF FastEdge, Receiver
    <3>3. rx_bits' \in 0 .. 255
      BY <3>1, <3>2 DEF TypeOK
    <3>4. rx_count' \in 0 .. SampleTime(9)
      BY <2>1, <2>4, <3>2 DEF TypeOK
    <3> QED
      BY <3>2, <3>3, <3>4 DEF TypeOK
  <2> QED
    BY <2>2, <2>3, <2>4
<1>4. UNCHANGED <<board, cpuRegs>>
  BY DEF FastEdge
<1> QED
  BY <1>1, <1>2, <1>3, <1>4 DEF TypeOK, cpuRegs

\* A poll reads tx_busy a cycle after the strobe of a store has ended, so the
\* answer "idle" cannot overlook a store that has still to cross.
LEMMA CpuEdgeKeeps == IInv /\ CpuEdge => AccessAlone' /\ IdleMeansFree'
<1> SUFFICES ASSUME IInv, CpuEdge PROVE AccessAlone' /\ IdleMeansFree'
  OBVIOUS
<1>1. access \in Accesses /\ phase >= 1 /\ phase' = 0
  BY Parameters DEF IInv, TypeOK, Accesses, CpuEdge
<1>2. AccessAlone'
  <2> SUFFICES ASSUME access' # Nothing PROVE ~tx_data_wr'
    BY <1>1 DEF AccessAlone
  <2>1. access.op = "none"
    BY <1>1, AccessKinds DEF CpuEdge, NextAccess, MayPoll, MayWrite
  <2> QED
    BY <2>1 DEF CpuEdge, StoreByte, PollBusy, NoAccess
<1>3. IdleMeansFree'
  <2>1. UNCHANGED <<tx_wr, tx_wr_q, state>>
    BY DEF CpuEdge, txRegs
  <2>2. CASE StoreByte
    BY <2>2 DEF StoreByte, IdleMeansFree
  <2>3. CASE PollBusy
    <3>1. ~tx_wr
      BY <1>1, <2>3, AccessKinds DEF PollBusy, IInv, AccessAlone
    <3> QED
      BY <2>1, <2>3, <3>1 DEF PollBusy, IdleMeansFree, tx_busy
  <2>4. CASE NoAccess
    BY <2>1, <2>4 DEF NoAccess, IInv, IdleMeansFree
  <2> QED
    BY <2>2, <2>3, <2>4 DEF CpuEdge
<1> QED
  BY <1>2, <1>3

\* A transmitter that is free stays so until the next store.
LEMMA FastEdgeKeeps == IInv /\ FastEdge => AccessAlone' /\ IdleMeansFree'
<1> SUFFICES ASSUME IInv, FastEdge PROVE AccessAlone' /\ IdleMeansFree'
  OBVIOUS
<1>1. UNCHANGED <<access, R2, tx_data_wr>> /\ tx_wr' = tx_data_wr /\ tx_wr_q' = tx_wr
  BY DEF FastEdge, cpuRegs, Synchronize
<1>2. AccessAlone'
  BY <1>1 DEF IInv, AccessAlone
<1>3. IdleMeansFree'
  <2> SUFFICES ASSUME R2 = "idle" PROVE state' = "IDLE" /\ ~tx_data_wr' /\ ~tx_wr'
    BY <1>1 DEF IdleMeansFree
  <2>1. state = "IDLE" /\ ~tx_data_wr /\ ~wr_en
    BY DEF IInv, IdleMeansFree, wr_en
  <2>2. UNCHANGED state
    BY <2>1 DEF FastEdge, Transmitter, Load, SendStart, SendBit, SendStop, Wait, txRegs
  <2> QED
    BY <1>1, <2>1, <2>2
<1> QED
  BY <1>2, <1>3

LEMMA NextInv == IInv /\ [Next]_vars => IInv'
<1> SUFFICES ASSUME IInv, [Next]_vars PROVE IInv'
  OBVIOUS
<1>1. CASE CpuEdge
  BY <1>1, CpuEdgeType, CpuEdgeKeeps DEF IInv
<1>2. CASE FastEdge
  BY <1>2, FastEdgeType, FastEdgeKeeps DEF IInv
<1>3. CASE UNCHANGED vars
  BY <1>3 DEF IInv, TypeOK, AccessAlone, IdleMeansFree, vars, cpuRegs, txRegs, rxRegs
<1> QED
  BY <1>1, <1>2, <1>3 DEF Next

-----------------------------------------------------------------------------
\* All variables keep their types: the bit counter stays within a byte, the
\* receiver's count within a frame.
THEOREM UartTypeCorrect == Spec => []TypeOK
<1>1. IInv => TypeOK
  BY DEF IInv
<1> QED
  BY InitInv, NextInv, <1>1, PTL DEF Spec

\* A poll that answers idle leaves no store unseen, on either board.
THEOREM IdleCorrect == Spec => []IdleMeansFree
<1>1. IInv => IdleMeansFree
  BY DEF IInv
<1> QED
  BY InitInv, NextInv, <1>1, PTL DEF Spec


-----------------------------------------------------------------------------
(* The way of a byte: from the register through the crossing to the         *)
(* transmitter, along the line, and into the receiver.                      *)

\* The program stores only after a poll that answered idle.
WriteKnown == access.op = "write" => R2 = "idle"

\* A byte that has been stored and that the transmitter has not taken yet.
Crossing ==
  IF board = "iCEStick"
  THEN (tx_data_wr /\ ~tx_wr) \/ (tx_wr /\ ~tx_wr_q)
  ELSE tx_data_wr /\ phase = 0

\* A frame is on the line: the start bit is at position 0, data bit k at k + 1.
Sending  == state \in {"DATA", "STOP"}
Position == IF state = "STOP" THEN 8 ELSE bitpos
Line(p)  == IF p = 0 THEN 0 ELSE (data \div 2^(p - 1)) % 2

\* Edges since this bit began, and the baud clock after as many.
Offset   == rx_count - Position * BIT_TIME
AccAt(r) == IF r = TX_ACC_MAX THEN 0 ELSE r + 1

\* The receiver samples a bit at this offset; before it has k bits of d.
Middle           == BIT_TIME \div 2 + 1
Sampled(d, k)    == (d % 2^k) * 2^(8 - k)
SampledAt(p, r)  == IF p = 0 THEN 0 ELSE IF r > Middle THEN p ELSE p - 1

\* Within a frame the receiver keeps step with the transmitter.
InFrame ==
  Sending =>
    /\ state = "DATA" \/ bitpos = 7
    /\ Offset \in 0 .. TX_ACC_MAX
    /\ tx_acc = AccAt(Offset)
    /\ tx = Line(Position)
    /\ rx_count # 0 => rx_bits = Sampled(data, SampledAt(Position, Offset))

\* What the receiver still has to do when a frame has been sent.
InStopBit ==
  /\ rx_count - 9 * BIT_TIME \in 0 .. Middle
  /\ tx_acc = AccAt(rx_count - 9 * BIT_TIME)
  /\ rx_bits = written[Len(received) + 1]

\* Between frames the line is high.
Quiet ==
  ~Sending =>
    /\ tx = 1
    /\ state = "START" => bitpos = 0
    /\ rx_count = 0 \/ InStopBit

\* The bytes under way: on the line behind its frame, in the transmitter, and
\* in the crossing. No two are in one place.
One(b)  == IF b THEN 1 ELSE 0
InLine  == One(~Sending /\ rx_count # 0)
InTx    == One(state # "IDLE")
InCross == One(Crossing)

Account ==
  /\ Len(written) = Len(received) + InLine + InTx + InCross
  /\ state # "IDLE" => data = written[Len(received) + InLine + 1]
  /\ Crossing => state = "IDLE" /\ tx_data_out = written[Len(written)]

\* A strobe is used once: it passes both flip-flops, or it is over before the
\* frame is.
Strobe ==
  tx_data_wr /\ phase > 0 =>
    IF board = "iCEStick" THEN tx_wr
    ELSE state = "START" \/ (Sending /\ rx_count + 2 <= phase)

ChannelInv ==
  IInv /\ WriteKnown /\ InFrame /\ Quiet /\ Account /\ Strobe

-----------------------------------------------------------------------------
\* What the assumptions say of a bit: its middle is not its end.
LEMMA Times ==
  /\ TX_ACC_MAX \in Nat /\ TX_ACC_MAX > 1
  /\ BIT_TIME = TX_ACC_MAX + 1
  /\ Middle \in 1 .. TX_ACC_MAX
  /\ \A k \in 0 .. 9 : SampleTime(k) = k * BIT_TIME + Middle
BY UartAssumption DEF UartAssumption, BIT_TIME, SampleTime, Middle

\* The counter is not 0 when a frame ends.
LEMMA LastSample == SampleTime(9) # 0
BY Times

\* Quotient and remainder are unique.
LEMMA Division ==
  ASSUME NEW b \in Nat, NEW p \in Nat, NEW k \in Nat, NEW r \in 0 .. b - 1, NEW s \in 0 .. b - 1,
         p * b + r = k * b + s
  PROVE  p = k /\ r = s
<1>1. ASSUME NEW x \in Nat, NEW y \in Nat, x < y PROVE y * b >= x * b + b
  <2>1. PICK d \in Nat : y = x + 1 + d
    <3>1. y - x - 1 \in Nat /\ y = x + 1 + (y - x - 1)
      BY <1>1
    <3> QED
      BY <3>1
  <2>2. y * b = x * b + b + d * b /\ d * b \in Nat /\ x * b \in Nat
    BY <2>1
  <2> QED
    BY <2>2
<1>2. p * b \in Nat /\ k * b \in Nat
  OBVIOUS
<1>3. ~(p < k)
  BY <1>1, <1>2
<1>4. ~(k < p)
  BY <1>1, <1>2
<1> QED
  BY <1>2, <1>3, <1>4

\* Within a frame the counter tells the bit and the place in it.
LEMMA FrameTime ==
  ASSUME NEW p \in 0 .. 8, NEW r \in 0 .. TX_ACC_MAX, NEW c, c = p * BIT_TIME + r
  PROVE  /\ c \in Nat /\ c < 9 * BIT_TIME
         /\ c = 0 <=> p = 0 /\ r = 0
         /\ c # SampleTime(9)
         /\ (\E k \in 1 .. 8 : c = SampleTime(k)) <=> p >= 1 /\ r = Middle
<1>1. p * BIT_TIME \in Nat /\ (p = 0 => p * BIT_TIME = 0) /\ (p > 0 => p * BIT_TIME > 0)
  BY Times
<1>2. c \in Nat /\ (c = 0 <=> p = 0 /\ r = 0)
  BY <1>1
<1>3. c < 9 * BIT_TIME
  BY Times
<1>4. c # SampleTime(9)
  BY <1>3, Times
<1>5. ASSUME NEW k \in 1 .. 8 PROVE c = SampleTime(k) <=> p = k /\ r = Middle
  BY Times, Division
<1> QED
  BY <1>2, <1>3, <1>4, <1>5

\* A sampled bit shifted in from above.
LEMMA ShiftIn ==
  ASSUME NEW d \in 0 .. 255, NEW k \in 0 .. 7
  PROVE  Sampled(d, k) \div 2 + ((d \div 2^k) % 2) * 128 = Sampled(d, k + 1)
<1>1. CASE k = 0
  BY <1>1 DEF Sampled
<1>2. CASE k = 1
  BY <1>2 DEF Sampled
<1>3. CASE k = 2
  BY <1>3 DEF Sampled
<1>4. CASE k = 3
  BY <1>4 DEF Sampled
<1>5. CASE k = 4
  BY <1>5 DEF Sampled
<1>6. CASE k = 5
  BY <1>6 DEF Sampled
<1>7. CASE k = 6
  BY <1>7 DEF Sampled
<1>8. CASE k = 7
  BY <1>8 DEF Sampled
<1> QED
  BY <1>1, <1>2, <1>3, <1>4, <1>5, <1>6, <1>7, <1>8

\* With eight bits the byte is complete.
LEMMA AllIn ==
  ASSUME NEW d \in 0 .. 255
  PROVE  Sampled(d, 8) = d /\ Sampled(d, 0) = 0
BY DEF Sampled

\* The receiver counts on through a frame and shifts a bit in at its middle.
LEMMA ReceiverInFrame ==
  ASSUME TypeOK, InFrame, Sending, FastEdge
  PROVE  /\ UNCHANGED received /\ rx_count' = rx_count + 1
         /\ rx_bits' = Sampled(data, IF Position = 0 THEN 0
                               ELSE IF Offset >= Middle THEN Position ELSE Position - 1)
<1> DEFINE p == Position
           r == Offset
<1>1. /\ p \in 0 .. 8 /\ r \in 0 .. TX_ACC_MAX /\ rx_count = p * BIT_TIME + r
      /\ tx = Line(p)
      /\ rx_count # 0 => rx_bits = Sampled(data, SampledAt(p, r))
      /\ data \in 0 .. 255 /\ Middle \in 1 .. TX_ACC_MAX
  <2>1. p \in 0 .. 8
    BY DEF TypeOK, Position
  <2>2. rx_count \in Nat /\ p * BIT_TIME \in Nat
    BY <2>1, Times DEF TypeOK
  <2>3. rx_count = p * BIT_TIME + r
    BY <2>2 DEF Offset
  <2> QED
    BY <2>1, <2>3, Times DEF InFrame, TypeOK
<1> HIDE DEF p, r
<1>2. /\ rx_count \in Nat /\ rx_count # SampleTime(9)
      /\ rx_count = 0 <=> p = 0 /\ r = 0
      /\ (\E k \in 1 .. 8 : rx_count = SampleTime(k)) <=> p >= 1 /\ r = Middle
  BY <1>1, FrameTime
<1> DEFINE taken == IF p = 0 THEN 0 ELSE IF r >= Middle THEN p ELSE p - 1
<1>3. UNCHANGED received /\ rx_count' = rx_count + 1 /\ rx_bits' = Sampled(data, taken)
  <2>1. CASE rx_count = 0
    <3>1. rx_count' = (IF tx = 0 THEN 1 ELSE 0) /\ rx_bits' = 0 /\ UNCHANGED received
      BY <2>1, LastSample DEF FastEdge, Receiver
    <3>2. tx = 0 /\ taken = 0
      BY <1>1, <1>2, <2>1 DEF Line
    <3> QED
      BY <1>1, <2>1, <3>1, <3>2, AllIn
  <2>2. CASE rx_count # 0
    <3>1. /\ rx_bits' = IF \E k \in 1 .. 8 : rx_count = SampleTime(k)
                         THEN rx_bits \div 2 + tx * 128 ELSE rx_bits
          /\ rx_count' = rx_count + 1 /\ UNCHANGED received
      BY <1>2, <2>2 DEF FastEdge, Receiver
    <3>2. CASE p >= 1 /\ r = Middle
      <4>1. p - 1 \in 0 .. 7 /\ SampledAt(p, r) = p - 1 /\ taken = p /\ (p - 1) + 1 = p
        BY <1>1, <3>2 DEF SampledAt
      <4>2. tx = (data \div 2^(p - 1)) % 2
        BY <1>1, <3>2 DEF Line
      <4>3. rx_bits' = Sampled(data, p - 1) \div 2 + ((data \div 2^(p - 1)) % 2) * 128
        BY <1>1, <1>2, <2>2, <3>1, <3>2, <4>1, <4>2
      <4>4. rx_bits' = Sampled(data, (p - 1) + 1)
        BY <1>1, <4>1, <4>3, ShiftIn
      <4> QED
        BY <3>1, <4>1, <4>4
    <3>3. CASE ~(p >= 1 /\ r = Middle)
      <4>1. rx_bits' = rx_bits
        BY <1>2, <3>1, <3>3
      <4>2. taken = SampledAt(p, r)
        BY <1>1, <3>3 DEF SampledAt
      <4> QED
        BY <1>1, <2>2, <3>1, <4>1, <4>2
    <3> QED
      BY <3>2, <3>3
  <2> QED
    BY <2>1, <2>2
<1> QED
  BY <1>3 DEF p, r

\* Between frames it waits, or ends the last frame in the middle of its stop bit.
LEMMA ReceiverBetweenFrames ==
  ASSUME TypeOK, Quiet, ~Sending, FastEdge
  PROVE  \/ rx_count = 0 /\ rx_count' = 0 /\ UNCHANGED received
         \/ /\ rx_count = SampleTime(9) /\ rx_count' = 0
            /\ received' = Append(received, rx_bits)
         \/ /\ rx_count # 0 /\ rx_count # SampleTime(9)
            /\ rx_count' = rx_count + 1 /\ UNCHANGED <<received, rx_bits>>
<1>1. CASE rx_count = 0
  <2>1. rx_count' = (IF tx = 0 THEN 1 ELSE 0) /\ UNCHANGED received
    BY <1>1, LastSample DEF FastEdge, Receiver
  <2> QED
    BY <1>1, <2>1 DEF Quiet
<1>2. CASE rx_count # 0 /\ rx_count = SampleTime(9)
  <2>1. /\ received' = Append(received, IF tx = 1 THEN rx_bits ELSE FRAMING_ERROR)
        /\ rx_count' = 0
    BY <1>2 DEF FastEdge, Receiver
  <2> QED
    BY <1>2, <2>1 DEF Quiet
<1>3. CASE rx_count # 0 /\ rx_count # SampleTime(9)
  <2>1. /\ rx_bits' = IF \E k \in 1 .. 8 : rx_count = SampleTime(k)
                       THEN rx_bits \div 2 + tx * 128 ELSE rx_bits
        /\ rx_count' = rx_count + 1 /\ UNCHANGED received
    BY <1>3 DEF FastEdge, Receiver
  <2>2. rx_count \in Nat /\ rx_count >= 9 * BIT_TIME
    BY <1>3, Times DEF Quiet, InStopBit, TypeOK
  <2>3. ~\E k \in 1 .. 8 : rx_count = SampleTime(k)
    BY <2>2, Times
  <2> QED
    BY <1>3, <2>1, <2>3
<1> QED
  BY <1>1, <1>2, <1>3

\* A store leaves the crossing only by being loaded.
LEMMA CrossingStep ==
  ASSUME TypeOK, Account, Strobe, FastEdge
  PROVE  IF state = "IDLE" /\ wr_en THEN Crossing /\ ~Crossing'
         ELSE Crossing' = Crossing
<1>1. /\ UNCHANGED <<board, tx_data_wr>> /\ tx_wr' = tx_data_wr /\ tx_wr_q' = tx_wr
      /\ phase \in Nat /\ phase' = phase + 1
      /\ {tx_data_wr, tx_wr, tx_wr_q} \subseteq BOOLEAN
  BY Parameters DEF FastEdge, cpuRegs, Synchronize, TypeOK
<1>2. CASE board = "iCEStick"
  BY <1>1, <1>2 DEF Crossing, wr_en, Account
<1>3. CASE board # "iCEStick"
  <2>1. phase' # 0 /\ ~Crossing'
    BY <1>1, <1>3 DEF Crossing
  <2>2. tx_data_wr /\ state = "IDLE" => phase = 0
    BY <1>1, <1>3 DEF Strobe, Sending
  <2> QED
    BY <1>1, <1>3, <2>1, <2>2 DEF Crossing, wr_en, Account
<1> QED
  BY <1>2, <1>3

\* The baud clock goes on.
LEMMA AccChange ==
  ASSUME TypeOK, FastEdge, NEW r \in 0 .. TX_ACC_MAX, tx_acc = AccAt(r)
  PROVE  /\ txclk_en <=> r = TX_ACC_MAX
         /\ r < TX_ACC_MAX => tx_acc' = AccAt(r + 1)
         /\ r = TX_ACC_MAX => tx_acc' = AccAt(0)
BY Times DEF TypeOK, FastEdge, BaudClock, AccAt, txclk_en

\* Within a bit nothing changes but the counters.
LEMMA WithinBit ==
  ASSUME TypeOK, InFrame, Quiet, Sending, FastEdge, Offset < TX_ACC_MAX
  PROVE  InFrame' /\ Quiet' /\ Sending' /\ UNCHANGED <<state, data, received>>
<1>1. UNCHANGED txRegs /\ tx_acc' = AccAt(Offset + 1) /\ Offset \in 0 .. TX_ACC_MAX
  <2>1. tx_acc = AccAt(Offset) /\ Offset \in 0 .. TX_ACC_MAX
    BY DEF InFrame
  <2>2. ~txclk_en /\ tx_acc' = AccAt(Offset + 1)
    BY <2>1, AccChange
  <2> QED
    BY <2>1, <2>2 DEF FastEdge, Transmitter, Load, SendStart, SendBit, SendStop, Wait, Sending
<1>2. /\ rx_count' = rx_count + 1 /\ UNCHANGED received
      /\ rx_bits' = Sampled(data, IF Position = 0 THEN 0
                            ELSE IF Offset >= Middle THEN Position ELSE Position - 1)
  BY ReceiverInFrame
<1>3. /\ UNCHANGED <<state, data, bitpos, tx>> /\ Sending' /\ Position' = Position
      /\ Line(Position)' = Line(Position)
  BY <1>1 DEF txRegs, Sending, Position, Line
<1>4. Offset' = Offset + 1 /\ Offset' \in 0 .. TX_ACC_MAX
  <2>1. Position \in 0 .. 8 /\ rx_count \in Nat
    BY Times DEF TypeOK, Position
  <2>2. Position * BIT_TIME \in Nat
    BY <2>1, Times
  <2>3. Offset' = rx_count' - Position' * BIT_TIME
    BY DEF Offset, BIT_TIME
  <2>4. Offset' = (rx_count + 1) - Position * BIT_TIME
    BY <1>2, <1>3, <2>3
  <2> QED
    BY <1>1, <2>1, <2>2, <2>4, Times DEF Offset
<1>5. rx_bits' = Sampled(data, SampledAt(Position, Offset'))
  <2>1. SampledAt(Position, Offset') =
          IF Position = 0 THEN 0 ELSE IF Offset >= Middle THEN Position ELSE Position - 1
    BY <1>1, <1>4, Times DEF SampledAt
  <2> QED
    BY <1>2, <2>1
<1>6. InFrame'
  <2>1. tx_acc' = AccAt(Offset')
    BY <1>1, <1>4
  <2>2. tx' = Line(Position)'
    BY <1>3 DEF InFrame
  <2>3. rx_bits' = Sampled(data', SampledAt(Position', Offset'))
    BY <1>3, <1>5
  <2>4. state' = "DATA" \/ bitpos' = 7
    BY <1>3 DEF InFrame
  <2> QED
    BY <1>4, <2>1, <2>2, <2>3, <2>4 DEF InFrame, AccAt, Sampled, SampledAt, Middle, BIT_TIME
<1> QED
  BY <1>2, <1>3, <1>6 DEF Quiet

\* Where the counters stand at the last edge of a bit.
LEMMA AtBitEnd ==
  ASSUME TypeOK, InFrame, Sending, FastEdge, Offset = TX_ACC_MAX
  PROVE  /\ txclk_en /\ tx_acc' = AccAt(0) /\ UNCHANGED received
         /\ Position \in 0 .. 8 /\ rx_count' = (Position + 1) * BIT_TIME
         /\ rx_bits' = Sampled(data, Position)
<1>1. txclk_en /\ tx_acc' = AccAt(0)
  BY AccChange, Times DEF InFrame
<1>2. /\ rx_count' = rx_count + 1 /\ UNCHANGED received
      /\ rx_bits' = Sampled(data, IF Position = 0 THEN 0
                            ELSE IF Offset >= Middle THEN Position ELSE Position - 1)
  BY ReceiverInFrame
<1>3. Position \in 0 .. 8 /\ rx_count \in Nat
  BY Times DEF TypeOK, Position
<1>4. rx_count' = (Position + 1) * BIT_TIME
  BY <1>2, <1>3, Times DEF Offset
<1>5. rx_bits' = Sampled(data, Position)
  BY <1>2, <1>3, Times
<1> QED
  BY <1>1, <1>2, <1>3, <1>4, <1>5

\* At the end of the start bit and of each data bit the next bit begins.
LEMMA NextBit ==
  ASSUME TypeOK, InFrame, Quiet, state = "DATA", FastEdge, Offset = TX_ACC_MAX
  PROVE  InFrame' /\ Quiet' /\ Sending' /\ state' # "IDLE" /\ UNCHANGED <<data, received>>
<1>1. Sending /\ Position = bitpos /\ bitpos \in 0 .. 7
  BY DEF Sending, Position, TypeOK
<1>2. /\ txclk_en /\ tx_acc' = AccAt(0) /\ UNCHANGED received
      /\ rx_count' = (bitpos + 1) * BIT_TIME /\ rx_bits' = Sampled(data, bitpos)
  BY <1>1, AtBitEnd
<1>3. SendBit
  BY <1>2 DEF FastEdge, Transmitter, Load, SendStart, SendStop, Wait
<1>4. /\ Sending' /\ state' # "IDLE" /\ UNCHANGED data /\ Position' = bitpos + 1
      /\ state' = "DATA" \/ bitpos' = 7
  <2>1. CASE bitpos = 7
    BY <1>1, <1>3, <2>1 DEF SendBit, Sending, Position
  <2>2. CASE bitpos # 7
    BY <1>1, <1>3, <2>2 DEF SendBit, Sending, Position
  <2> QED
    BY <2>1, <2>2
<1>5. Offset' = 0
  <2>1. Offset' = rx_count' - Position' * BIT_TIME
    BY DEF Offset, BIT_TIME
  <2>2. (bitpos + 1) * BIT_TIME \in Nat
    BY <1>1, Times
  <2> QED
    BY <1>2, <1>4, <2>1, <2>2
<1>6. tx' = Line(Position)'
  BY <1>1, <1>3, <1>4 DEF SendBit, Line
<1>7. rx_bits' = Sampled(data', SampledAt(Position', Offset'))
  <2>1. SampledAt(bitpos + 1, 0) = bitpos
    BY <1>1, Times DEF SampledAt
  <2> QED
    BY <1>2, <1>4, <1>5, <2>1
<1>8. InFrame'
  BY <1>2, <1>4, <1>5, <1>6, <1>7, Times
    DEF InFrame, AccAt, Sampled, SampledAt, Middle, BIT_TIME
<1> QED
  BY <1>2, <1>4, <1>8 DEF Quiet

\* After the last data bit the receiver has the byte.
LEMMA FrameEnds ==
  ASSUME TypeOK, InFrame, state = "STOP", FastEdge, Offset = TX_ACC_MAX
  PROVE  /\ state' = "IDLE" /\ tx' = 1 /\ UNCHANGED <<data, received>>
         /\ tx_acc' = AccAt(0) /\ rx_count' = 9 * BIT_TIME /\ rx_bits' = data
<1>1. Sending /\ Position = 8
  BY DEF Sending, Position
<1>2. /\ txclk_en /\ tx_acc' = AccAt(0) /\ UNCHANGED received
      /\ rx_count' = (8 + 1) * BIT_TIME /\ rx_bits' = Sampled(data, 8)
  BY <1>1, AtBitEnd
<1>3. SendStop
  BY <1>2 DEF FastEdge, Transmitter, Load, SendStart, SendBit, Wait
<1>4. rx_bits' = data /\ rx_count' = 9 * BIT_TIME
  <2>1. data \in 0 .. 255
    BY DEF TypeOK
  <2> QED
    BY <1>2, <2>1, AllIn, Times
<1> QED
  BY <1>2, <1>3, <1>4 DEF SendStop

\* The receiver goes on through the stop bit, which ends before another frame
\* can start.
LEMMA StopBit ==
  ASSUME TypeOK, Quiet, ~Sending, FastEdge
  PROVE  /\ UNCHANGED received => rx_count' = 0 \/ InStopBit'
         /\ UNCHANGED received /\ rx_count = 0 => rx_count' = 0
         /\ UNCHANGED received /\ rx_count # 0 => rx_count' # 0 /\ ~txclk_en
         /\ ~UNCHANGED received =>
              /\ rx_count # 0 /\ rx_count' = 0
              /\ received' = Append(received, written[Len(received) + 1])
<1> DEFINE s == rx_count - 9 * BIT_TIME
<1>1. rx_count # 0 => InStopBit
  BY DEF Quiet, InStopBit
<1>2. received \in Seq(0 .. FRAMING_ERROR) /\ rx_count \in Nat
  BY Times DEF TypeOK
<1>3. UNCHANGED written
  BY DEF FastEdge, cpuRegs
<1>4. \A b : Append(received, b) # received
  BY <1>2
<1>5. CASE rx_count = 0 /\ rx_count' = 0 /\ UNCHANGED received
  BY <1>5
<1>6. CASE rx_count = SampleTime(9) /\ rx_count' = 0 /\ received' = Append(received, rx_bits)
  <2>1. rx_count # 0
    BY <1>6, LastSample
  <2> QED
    BY <1>1, <1>4, <1>6, <2>1 DEF InStopBit
<1>7. CASE /\ rx_count # 0 /\ rx_count # SampleTime(9)
           /\ rx_count' = rx_count + 1 /\ UNCHANGED <<received, rx_bits>>
  <2>1. s \in 0 .. Middle - 1 /\ s \in 0 .. TX_ACC_MAX /\ s < TX_ACC_MAX
    <3>1. s \in 0 .. Middle
      BY <1>1, <1>7 DEF InStopBit
    <3>2. s # Middle
      BY <1>2, <1>7, Times
    <3> QED
      BY <3>1, <3>2, Times
  <2>2. ~txclk_en /\ tx_acc' = AccAt(s + 1)
    BY <1>1, <1>7, <2>1, AccChange DEF InStopBit
  <2>3. (rx_count - 9 * BIT_TIME)' = s + 1
    BY <1>2, <1>7, Times DEF BIT_TIME
  <2>4. s + 1 \in 0 .. Middle
    BY <2>1, Times
  <2>5. InStopBit'
    BY <1>1, <1>3, <1>7, <2>2, <2>3, <2>4 DEF InStopBit, AccAt, Middle, BIT_TIME
  <2> QED
    BY <1>2, <1>7, <2>2, <2>5
<1> QED
  BY <1>5, <1>6, <1>7, ReceiverBetweenFrames

\* Between frames a byte is loaded, or a loaded one begins.
LEMMA NextFrame ==
  ASSUME TypeOK, Quiet, ~Sending, FastEdge
  PROVE  \/ /\ state = "IDLE" /\ wr_en /\ state' = "START" /\ data' = tx_data_out
            /\ bitpos' = 0 /\ UNCHANGED tx
         \/ /\ state = "IDLE" /\ ~wr_en /\ UNCHANGED <<state, data, bitpos, tx>>
         \/ /\ state = "START" /\ ~txclk_en /\ UNCHANGED <<state, data, bitpos, tx>>
         \/ /\ state = "START" /\ txclk_en /\ state' = "DATA" /\ tx' = 0
            /\ bitpos' = 0 /\ UNCHANGED data
<1>1. state \in {"IDLE", "START"}
  BY DEF TypeOK, Sending
<1>2. CASE state = "IDLE" /\ wr_en
  BY <1>2 DEF FastEdge, Transmitter, Load, SendStart, SendBit, SendStop, Wait
<1>3. CASE state = "IDLE" /\ ~wr_en
  BY <1>3 DEF FastEdge, Transmitter, Load, SendStart, SendBit, SendStop, Wait, txRegs
<1>4. CASE state = "START"
  BY <1>4 DEF FastEdge, Transmitter, Load, SendStart, SendBit, SendStop, Wait, txRegs, Quiet
<1> QED
  BY <1>1, <1>2, <1>3, <1>4

\* A frame begins where the one before has ended, with the baud clock at 0.
LEMMA FrameStarts ==
  ASSUME TypeOK, Quiet, state = "START", txclk_en, FastEdge
  PROVE  /\ state' = "DATA" /\ rx_count' = 0 /\ UNCHANGED data
         /\ InFrame' /\ Quiet'
<1>1. ~Sending
  BY DEF Sending
<1>2. state' = "DATA" /\ tx' = 0 /\ bitpos' = 0 /\ UNCHANGED data
  BY <1>1, NextFrame
<1>3. rx_count' = 0
  BY <1>1, StopBit
<1>4. tx_acc' = 1
  BY Times DEF txclk_en, FastEdge, BaudClock
<1>5. Sending' /\ Position' = 0 /\ Offset' = 0
  <2>1. Sending' /\ Position' = 0
    BY <1>2 DEF Sending, Position
  <2>2. Offset' = rx_count' - Position' * BIT_TIME
    BY DEF Offset, BIT_TIME
  <2> QED
    BY <1>3, <2>1, <2>2, Times
<1>6. tx' = Line(Position)'
  BY <1>2, <1>5 DEF Line
<1>7. InFrame'
  BY <1>2, <1>3, <1>4, <1>5, <1>6, Times DEF InFrame, AccAt
<1> QED
  BY <1>2, <1>3, <1>5, <1>7 DEF Quiet

\* Nothing is under way when the program starts.
LEMMA ChannelInitInv == Init => ChannelInv
<1> SUFFICES ASSUME Init PROVE ChannelInv
  OBVIOUS
<1>1. IInv
  BY InitInv
<1>2. ~Crossing /\ ~Sending /\ state = "IDLE" /\ rx_count = 0
  BY DEF Init, Crossing, Sending
<1>3. InLine = 0 /\ InTx = 0 /\ InCross = 0
  BY <1>2 DEF InLine, InTx, InCross, One
<1>4. Account
  BY <1>2, <1>3 DEF Init, Account
<1>5. WriteKnown /\ InFrame /\ Quiet /\ Strobe
  BY <1>2 DEF Init, WriteKnown, InFrame, Quiet, Strobe, Nothing
<1> QED
  BY <1>1, <1>4, <1>5 DEF ChannelInv

\* Some byte is on the way in each of the three places.
LEMMA Counts ==
  /\ InLine = (IF ~Sending /\ rx_count # 0 THEN 1 ELSE 0)
  /\ InTx = (IF state # "IDLE" THEN 1 ELSE 0)
  /\ InCross = (IF Crossing THEN 1 ELSE 0)
BY DEF InLine, InTx, InCross, One

\* Lengths are numbers.
LEMMA Lengths ==
  ASSUME TypeOK
  PROVE  Len(written) \in Nat /\ Len(received) \in Nat
BY DEF TypeOK

-----------------------------------------------------------------------------
\* An edge of the fast clock within a frame.
LEMMA SendingKeeps ==
  ASSUME ChannelInv, Sending, FastEdge
  PROVE  (InFrame /\ Quiet /\ Account)' /\ UNCHANGED received
<1>1. TypeOK /\ InFrame /\ Quiet /\ Account /\ Strobe
  BY DEF ChannelInv, IInv
<1>2. ~Crossing /\ ~Crossing' /\ state # "IDLE" /\ UNCHANGED written
  BY <1>1, CrossingStep DEF Account, Sending, FastEdge, cpuRegs
<1>3. /\ InLine = 0 /\ Len(written) = Len(received) + 1
      /\ data = written[Len(received) + 1]
  BY <1>1, <1>2, Counts, Lengths DEF Account
<1>4. CASE Offset < TX_ACC_MAX \/ state = "DATA"
  <2>1. /\ InFrame' /\ Quiet' /\ Sending' /\ state' # "IDLE"
        /\ UNCHANGED <<data, received>>
    <3>1. Offset \in 0 .. TX_ACC_MAX
      BY <1>1 DEF InFrame
    <3>2. CASE Offset < TX_ACC_MAX
      BY <1>1, <1>2, <3>2, WithinBit
    <3>3. CASE Offset = TX_ACC_MAX /\ state = "DATA"
      BY <1>1, <3>3, NextBit
    <3> QED
      BY <1>4, <3>1, <3>2, <3>3, Times
  <2>2. InLine' = 0 /\ InTx' = 1 /\ InCross' = 0
    BY <1>2, <2>1 DEF InLine, InTx, InCross, One
  <2> QED
    BY <1>2, <1>3, <2>1, <2>2, <1>1, Lengths DEF Account
<1>5. CASE Offset = TX_ACC_MAX /\ state = "STOP"
  <2>1. /\ state' = "IDLE" /\ tx' = 1 /\ UNCHANGED <<data, received>>
        /\ tx_acc' = AccAt(0) /\ rx_count' = 9 * BIT_TIME /\ rx_bits' = data
    BY <1>1, <1>5, FrameEnds
  <2>2. ~Sending' /\ rx_count' # 0 /\ (rx_count - 9 * BIT_TIME)' = 0
    BY <2>1, Times DEF Sending, BIT_TIME
  <2>3. InLine' = 1 /\ InTx' = 0 /\ InCross' = 0
    BY <1>2, <2>1, <2>2 DEF InLine, InTx, InCross, One
  <2>4. Account'
    BY <1>2, <1>3, <2>1, <2>3, <1>1, Lengths DEF Account
  <2>5. Quiet'
    <3>1. 0 \in 0 .. Middle
      BY Times
    <3> QED
      BY <1>2, <1>3, <2>1, <2>2, <3>1 DEF Quiet, InStopBit, AccAt, Middle, BIT_TIME
  <2> QED
    BY <2>1, <2>2, <2>4, <2>5 DEF InFrame
<1> QED
  BY <1>1, <1>4, <1>5, Times DEF InFrame, Sending

\* An edge between frames; what arrives is what is due.
LEMMA QuietKeeps ==
  ASSUME ChannelInv, ~Sending, FastEdge
  PROVE  /\ (InFrame /\ Quiet /\ Account)'
         /\ \/ UNCHANGED received
            \/ /\ Len(received) < Len(written)
               /\ received' = Append(received, written[Len(received) + 1])
<1>1. TypeOK /\ InFrame /\ Quiet /\ Account /\ Strobe
  BY DEF ChannelInv, IInv
<1>2. UNCHANGED written /\ Len(written) \in Nat /\ Len(received) \in Nat
  BY <1>1, Lengths DEF FastEdge, cpuRegs
<1>3. \/ UNCHANGED received
      \/ /\ rx_count # 0 /\ rx_count' = 0
         /\ received' = Append(received, written[Len(received) + 1])
  BY <1>1, StopBit
<1>4. \/ UNCHANGED received
      \/ /\ Len(received) < Len(written)
         /\ received' = Append(received, written[Len(received) + 1])
  <2>1. rx_count # 0 => Len(received) < Len(written)
    BY <1>1, <1>2, Counts DEF Account
  <2> QED
    BY <1>3, <2>1
<1>5. Len(received') = Len(received) + (IF UNCHANGED received THEN 0 ELSE 1)
  BY <1>1, <1>3 DEF TypeOK
<1>6. CASE state = "START" /\ txclk_en
  <2>1. /\ state' = "DATA" /\ rx_count' = 0 /\ UNCHANGED data
        /\ InFrame' /\ Quiet'
    BY <1>1, <1>6, FrameStarts
  <2>2. ~Crossing /\ ~Crossing'
    BY <1>1, <1>6, CrossingStep DEF Account
  <2>3. InLine' = 0 /\ InTx' = 1 /\ InCross' = 0 /\ InTx = 1 /\ InCross = 0
    BY <1>6, <2>1, <2>2 DEF InLine, InTx, InCross, One, Sending
  <2>4. Len(received') = Len(received) + InLine
    BY <1>1, <1>5, <1>6, StopBit, Counts
  <2>5. Account'
    BY <1>1, <1>2, <1>6, <2>1, <2>2, <2>3, <2>4, Counts DEF Account
  <2> QED
    BY <1>4, <2>1, <2>5
<1>7. CASE ~(state = "START" /\ txclk_en)
  <2>1. \/ /\ state = "IDLE" /\ wr_en /\ state' = "START" /\ data' = tx_data_out
           /\ bitpos' = 0 /\ UNCHANGED tx
        \/ /\ state = "IDLE" /\ ~wr_en /\ UNCHANGED <<state, data, bitpos, tx>>
        \/ /\ state = "START" /\ ~txclk_en /\ UNCHANGED <<state, data, bitpos, tx>>
    BY <1>1, <1>7, NextFrame
  <2>2. ~Sending' /\ tx' = 1 /\ (state' = "START" => bitpos' = 0)
    BY <1>1, <2>1 DEF Sending, Quiet
  <2>3. Quiet' /\ InFrame'
    <3>1. rx_count' = 0 \/ InStopBit'
      BY <1>1, <1>3, StopBit
    <3> QED
      BY <2>2, <3>1 DEF Quiet, InStopBit, InFrame
  <2>4. Len(received') + InLine' = Len(received) + InLine
    <3>1. CASE UNCHANGED received
      <4>1. rx_count' = 0 <=> rx_count = 0
        BY <1>1, <3>1, StopBit
      <4> QED
        BY <2>2, <3>1, <4>1 DEF InLine, One
    <3>2. CASE ~UNCHANGED received
      <4>1. InLine = 1 /\ InLine' = 0
        BY <1>3, <2>2, <3>2 DEF InLine, One
      <4> QED
        BY <1>2, <1>5, <3>2, <4>1
    <3> QED
      BY <3>1, <3>2
  <2>5. ASSUME state = "IDLE" /\ wr_en PROVE Account'
    <3>1. Crossing /\ ~Crossing' /\ state' = "START" /\ data' = tx_data_out
      BY <1>1, <2>1, <2>5, CrossingStep
    <3>2. InTx = 0 /\ InCross = 1 /\ InTx' = 1 /\ InCross' = 0
      BY <2>5, <3>1 DEF InTx, InCross, One
    <3>3. Len(written) = Len(received) + InLine + 1 /\ InLine \in {0, 1}
      BY <1>1, <1>2, <3>2, Counts DEF Account
    <3>4. InLine' \in {0, 1} /\ Len(received') \in Nat
      BY <1>2, <1>5 DEF InLine, One
    <3>5. Len(written) = Len(received') + InLine' + 1
      BY <1>2, <2>4, <3>3, <3>4
    <3>6. data' = written[Len(received') + InLine' + 1]
      BY <1>1, <3>1, <3>5 DEF Account
    <3> QED
      BY <1>2, <3>1, <3>2, <3>4, <3>5, <3>6 DEF Account
  <2>6. ASSUME ~(state = "IDLE" /\ wr_en) PROVE Account'
    <3>1. Crossing' = Crossing /\ UNCHANGED <<state, data>> /\ UNCHANGED tx_data_out
      BY <1>1, <2>1, <2>6, CrossingStep DEF FastEdge, cpuRegs
    <3>2. InTx' = InTx /\ InCross' = InCross
      BY <3>1 DEF InTx, InCross, One
    <3>3. Len(written) = Len(received') + InLine' + InTx' + InCross'
      BY <1>1, <2>4, <3>2 DEF Account
    <3>4. state # "IDLE" => data' = written[Len(received') + InLine' + 1]
      BY <1>1, <2>4, <3>1 DEF Account
    <3>5. Crossing' => state' = "IDLE" /\ tx_data_out' = written[Len(written)]
      BY <1>1, <3>1 DEF Account
    <3> QED
      BY <1>2, <3>1, <3>3, <3>4, <3>5 DEF Account
  <2> QED
    BY <1>4, <2>3, <2>5, <2>6
<1> QED
  BY <1>6, <1>7

\* The Nexys A7's strobe ends before the frame it has started.
LEMMA StrobeKeeps == ChannelInv /\ FastEdge => Strobe' /\ WriteKnown'
<1> SUFFICES ASSUME ChannelInv, FastEdge PROVE Strobe' /\ WriteKnown'
  OBVIOUS
<1>1. TypeOK /\ InFrame /\ Quiet /\ Account /\ Strobe
  BY DEF ChannelInv, IInv
<1>2. WriteKnown'
  BY DEF ChannelInv, WriteKnown, FastEdge, cpuRegs
<1>3. /\ UNCHANGED <<board, tx_data_wr>> /\ tx_wr' = tx_data_wr
      /\ phase \in 0 .. MAX_FAST - 1 /\ phase' = phase + 1
  BY <1>1, Parameters DEF FastEdge, cpuRegs, Synchronize, TypeOK
<1>4. CASE board = "iCEStick"
  BY <1>2, <1>3, <1>4 DEF Strobe
<1>5. ASSUME board # "iCEStick", tx_data_wr
      PROVE  state' = "START" \/ (Sending' /\ rx_count' + 2 <= phase')
  <2>1. CASE phase = 0
    <3>1. state = "IDLE" /\ wr_en /\ ~Sending
      BY <1>1, <1>5, <2>1 DEF Account, Crossing, wr_en, Sending
    <3> QED
      BY <1>1, <3>1, NextFrame
  <2>2. CASE state = "START" /\ ~txclk_en
    BY <1>1, <2>2, NextFrame DEF Sending
  <2>3. CASE phase # 0 /\ state = "START" /\ txclk_en
    <3>1. state' = "DATA" /\ rx_count' = 0
      BY <1>1, <2>3, FrameStarts
    <3> QED
      BY <1>3, <2>3, <3>1 DEF Sending
  <2>4. CASE phase # 0 /\ Sending
    <3>1. rx_count + 2 <= phase /\ rx_count \in Nat
      BY <1>1, <1>3, <1>5, <2>4, Times DEF Strobe, Sending, TypeOK
    <3>2. rx_count' = rx_count + 1
      BY <1>1, <2>4, ReceiverInFrame
    <3>3. ~(state = "STOP" /\ Offset = TX_ACC_MAX)
      <4> SUFFICES ASSUME state = "STOP", Offset = TX_ACC_MAX PROVE FALSE
        OBVIOUS
      <4>1. rx_count = 8 * BIT_TIME + TX_ACC_MAX
        BY <3>1, Times DEF Offset, Position
      <4> QED
        BY <1>3, <3>1, <4>1, Times, Parameters, UartAssumption DEF UartAssumption
    <3>4. Sending'
      <4>1. Offset \in 0 .. TX_ACC_MAX
        BY <1>1, <2>4 DEF InFrame
      <4>2. CASE Offset < TX_ACC_MAX
        BY <1>1, <2>4, <4>2, WithinBit
      <4>3. CASE Offset = TX_ACC_MAX
        BY <1>1, <2>4, <3>3, <4>3, NextBit DEF Sending
      <4> QED
        BY <4>1, <4>2, <4>3, Times
    <3> QED
      BY <1>3, <3>1, <3>2, <3>4
  <2>5. phase # 0 => state = "START" \/ Sending
    BY <1>1, <1>3, <1>5 DEF Strobe
  <2> QED
    BY <2>1, <2>2, <2>3, <2>4, <2>5
<1> QED
  BY <1>2, <1>3, <1>4, <1>5 DEF Strobe

\* A store finds nothing on its way before it.
LEMMA CpuEdgeAccount ==
  ASSUME ChannelInv, CpuEdge
  PROVE  (WriteKnown /\ InFrame /\ Quiet /\ Account /\ Strobe)'
<1>1. TypeOK /\ AccessAlone /\ IdleMeansFree /\ WriteKnown /\ InFrame /\ Quiet /\ Account /\ Strobe
  BY DEF ChannelInv, IInv
<1>2. /\ UNCHANGED <<board, tx_wr, tx_wr_q, tx_acc, state, data, bitpos, tx>>
      /\ UNCHANGED <<rx_count, rx_bits, received>> /\ phase' = 0 /\ phase \in Nat /\ phase >= 1
      /\ access \in Accesses /\ {tx_data_wr, tx_wr, tx_wr_q} \subseteq BOOLEAN
  BY <1>1, Parameters DEF CpuEdge, txRegs, rxRegs, TypeOK, Accesses
<1>3. WriteKnown'
  <2> SUFFICES ASSUME access'.op = "write" PROVE R2' = "idle"
    BY DEF WriteKnown
  <2>1. access = Nothing /\ R2 = "idle"
    BY DEF CpuEdge, NextAccess, MayPoll, MayWrite, Nothing, Poll
  <2> QED
    BY <1>2, <2>1, AccessKinds DEF CpuEdge, StoreByte, PollBusy, NoAccess, Nothing
<1>4. InFrame'
  BY <1>1, <1>2
    DEF InFrame, Sending, Offset, Position, AccAt, Line, Sampled, SampledAt, Middle,
        BIT_TIME
<1>5. Strobe'
  BY <1>2 DEF Strobe
<1>6. /\ InLine' = InLine /\ InTx' = InTx /\ Sending' = Sending
      /\ InLine \in {0, 1} /\ InTx \in {0, 1}
  BY <1>2 DEF InLine, InTx, One, Sending
<1>7. CASE StoreByte
  <2>1. R2 = "idle" /\ access # Nothing /\ access.byte \in Bytes
    BY <1>1, <1>2, <1>7, AccessKinds DEF StoreByte, WriteKnown
  <2>2. state = "IDLE" /\ ~tx_data_wr /\ ~tx_wr
    BY <1>1, <1>2, <2>1 DEF IdleMeansFree, AccessAlone
  <2>3. ~Crossing /\ Crossing'
    BY <1>2, <1>7, <2>2 DEF Crossing, StoreByte
  <2>4. Len(written) = Len(received) + InLine
    BY <1>1, <2>2, <2>3, <1>6, Counts, Lengths DEF Account
  <2>5. InCross' = 1 /\ InTx' = 0
    BY <1>6, <2>2, <2>3, Counts DEF InCross, One
  <2>6. /\ written \in Seq(Bytes) /\ written' = Append(written, access.byte)
        /\ tx_data_out' = access.byte
    BY <1>1, <1>7 DEF StoreByte, TypeOK
  <2>7. /\ Len(written') = Len(written) + 1
        /\ written'[Len(written')] = access.byte
        /\ \A i \in 1 .. Len(written) : written'[i] = written[i]
    BY <2>1, <2>6
  <2>8. Account'
    BY <1>1, <1>2, <1>6, <2>2, <2>3, <2>4, <2>5, <2>6, <2>7, Lengths DEF Account
  <2>9. Quiet'
    <3>1. ~Sending /\ rx_count # 0 => rx_bits = written'[Len(received) + 1]
      <4> SUFFICES ASSUME ~Sending, rx_count # 0 PROVE rx_bits = written'[Len(received) + 1]
        OBVIOUS
      <4>1. Len(received) + 1 \in 1 .. Len(written)
        BY <1>1, <2>4, Counts, Lengths
      <4> QED
        BY <1>1, <2>7, <4>1 DEF Quiet, InStopBit
    <3> QED
      BY <1>1, <1>2, <1>6, <3>1 DEF Quiet, InStopBit, AccAt, Middle, BIT_TIME
  <2> QED
    BY <1>3, <1>4, <1>5, <2>8, <2>9
<1>8. CASE PollBusy \/ NoAccess
  <2>1. ~tx_data_wr' /\ UNCHANGED <<tx_data_out, written>>
    BY <1>8 DEF PollBusy, NoAccess
  <2>2. Crossing' = Crossing
    BY <1>1, <1>2, <2>1 DEF Crossing, Strobe
  <2>3. InCross' = InCross
    BY <2>2 DEF InCross, One
  <2>4. Account'
    BY <1>1, <1>2, <1>6, <2>1, <2>2, <2>3 DEF Account
  <2>5. Quiet'
    BY <1>1, <1>2, <1>6, <2>1 DEF Quiet, InStopBit, AccAt, Middle, BIT_TIME
  <2> QED
    BY <1>3, <1>4, <1>5, <2>4, <2>5
<1> QED
  BY <1>7, <1>8 DEF CpuEdge

\* The invariant of the way of a byte is inductive.
LEMMA ChannelNextInv == ChannelInv /\ [Next]_vars => ChannelInv'
<1> SUFFICES ASSUME ChannelInv, [Next]_vars PROVE ChannelInv'
  OBVIOUS
<1>1. IInv'
  BY NextInv DEF ChannelInv
<1>2. CASE CpuEdge
  BY <1>1, <1>2, CpuEdgeAccount DEF ChannelInv
<1>3. CASE FastEdge
  BY <1>1, <1>3, SendingKeeps, QuietKeeps, StrobeKeeps DEF ChannelInv
<1>4. CASE UNCHANGED vars
  <2>1. UNCHANGED <<board, phase, access, R2, tx_data_out, tx_data_wr, tx_wr, tx_wr_q, tx_acc>>
    BY <1>4 DEF vars, cpuRegs
  <2>2. UNCHANGED <<state, data, bitpos, tx, rx_count, rx_bits, written, received>>
    BY <1>4 DEF vars, cpuRegs, txRegs, rxRegs
  <2>3. WriteKnown' /\ Strobe' /\ Quiet'
    BY <2>1, <2>2
      DEF ChannelInv, WriteKnown, Strobe, Quiet, InStopBit, Sending, AccAt, Middle,
          BIT_TIME
  <2>4. InFrame'
    BY <2>1, <2>2 DEF ChannelInv, InFrame, Sending, Offset, Position, AccAt, Line, Sampled,
      SampledAt, Middle, BIT_TIME
  <2>5. Account'
    BY <2>1, <2>2 DEF ChannelInv, Account, InLine, InTx, InCross, One, Crossing, Sending
  <2> QED
    BY <1>1, <2>3, <2>4, <2>5 DEF ChannelInv
<1> QED
  BY <1>2, <1>3, <1>4 DEF Next

\* Every edge is a step of the channel, or none.
LEMMA ChannelStep ==
  ChannelInv /\ [Next]_vars => [Channel!Store \/ Channel!Arrive]_<<written, received>>
<1> SUFFICES ASSUME ChannelInv, [Next]_vars
             PROVE  [Channel!Store \/ Channel!Arrive]_<<written, received>>
  OBVIOUS
<1>1. TypeOK
  BY DEF ChannelInv, IInv
<1>2. CASE CpuEdge
  <2>1. access.op = "write" => access.byte \in Bytes
    BY <1>1, AccessKinds DEF TypeOK, Accesses
  <2> QED
    BY <1>2, <2>1 DEF CpuEdge, StoreByte, PollBusy, NoAccess, rxRegs, Channel!Store
<1>3. CASE FastEdge
  <2>1. UNCHANGED written
    BY <1>3 DEF FastEdge, cpuRegs
  <2> QED
    BY <1>3, <2>1, SendingKeeps, QuietKeeps DEF Channel!Arrive
<1>4. CASE UNCHANGED vars
  BY <1>4 DEF vars, cpuRegs, rxRegs
<1> QED
  BY <1>2, <1>3, <1>4 DEF Next

\* Each byte stored after a poll that answered idle arrives once, unchanged
\* and in order: the UART implements the channel, for every baud rate.
THEOREM ChannelCorrect == Spec => ImplementsChannel
<1>1. Init => Channel!ChannelInit
  BY DEF Init, Channel!ChannelInit
<1> QED
  BY <1>1, ChannelInitInv, ChannelNextInv, ChannelStep, PTL
    DEF Spec, ImplementsChannel, Channel!ChannelSpec

=============================================================================
