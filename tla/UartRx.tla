------------------------------- MODULE UartRx -------------------------------
(***************************************************************************)
(* fpga/basys3/uart_rx.sv: the 8N1 receiver, with its two synchronizer     *)
(* registers.  Bytes are tuples of bits, as in UartTx.  ReceiveEdge and    *)
(* ReceiveReset are a clock edge with rst_n high or low.                   *)
(***************************************************************************)
EXTENDS Integers, Sequences

CONSTANT CLKS_PER_BIT

VARIABLES state, count, bit_index, shift, rx_meta, rx_sync, data, valid

\* The width of the count.
CW == CHOOSE w \in 1 .. CLKS_PER_BIT : 2^w >= CLKS_PER_BIT /\ 2^(w - 1) < CLKS_PER_BIT

Zeros == [i \in 1 .. 8 |-> 0]

ReceiveInit ==
  /\ state = "IDLE" /\ count = 0 /\ bit_index = 0
  /\ shift = Zeros /\ data = Zeros /\ valid = FALSE
  /\ rx_meta = 1 /\ rx_sync = 1

ReceiveReset ==
  /\ state' = "IDLE" /\ count' = 0 /\ bit_index' = 0
  /\ shift' = Zeros /\ data' = Zeros /\ valid' = FALSE
  /\ rx_meta' = 1 /\ rx_sync' = 1

\* Fault: the count of the last bit is kept.
WatchKeepsCount ==
  /\ state = "IDLE"
  /\ state' = IF rx_sync = 0 THEN "START" ELSE "IDLE"
  /\ valid' = FALSE
  /\ UNCHANGED <<count, bit_index, shift, data>>

WatchLine ==
  /\ state = "IDLE"
  /\ count' = 0
  /\ state' = IF rx_sync = 0 THEN "START" ELSE "IDLE"
  /\ valid' = FALSE
  /\ UNCHANGED <<bit_index, shift, data>>

\* The last clock of a wait until the middle of the start bit, or of a bit.
Middle == IF state = "START" THEN CLKS_PER_BIT \div 2 - 1 ELSE CLKS_PER_BIT - 1

KeepCounting ==
  /\ state # "IDLE" /\ count # Middle
  /\ count' = (count + 1) % 2^CW
  /\ valid' = FALSE
  /\ UNCHANGED <<state, bit_index, shift, data>>

\* A line that is high again was a glitch.
CheckStart ==
  /\ state = "START" /\ count = Middle
  /\ count' = 0 /\ bit_index' = 0
  /\ state' = IF rx_sync = 1 THEN "IDLE" ELSE "DATA"
  /\ valid' = FALSE
  /\ UNCHANGED <<shift, data>>

SampleBit ==
  /\ state = "DATA" /\ count = Middle
  /\ count' = 0
  /\ shift' = Append(Tail(shift), rx_sync)
  /\ IF bit_index = 7 THEN state' = "STOP" /\ UNCHANGED bit_index
                      ELSE bit_index' = bit_index + 1 /\ UNCHANGED state
  /\ valid' = FALSE
  /\ UNCHANGED data

\* The count is left as it is, and a byte with a bad stop bit is dropped.
CheckStop ==
  /\ state = "STOP" /\ count = Middle
  /\ state' = "IDLE"
  /\ valid' = (rx_sync = 1)
  /\ data' = IF rx_sync = 1 THEN shift ELSE data
  /\ UNCHANGED <<count, bit_index, shift>>

\* One edge, with this level on the line.
ReceiveEdge(level) ==
  /\ rx_meta' = level /\ rx_sync' = rx_meta
  /\ WatchLine \/ KeepCounting \/ CheckStart \/ SampleBit \/ CheckStop
=============================================================================
