------------------------------- MODULE UartTx -------------------------------
(***************************************************************************)
(* fpga/basys3/uart_tx.sv: the 8N1 transmitter.  A byte is the tuple of    *)
(* its bits, the least significant first, as they go over the line.        *)
(* TransmitEdge and TransmitReset are a clock edge with rst_n high or low. *)
(***************************************************************************)
EXTENDS Integers, Sequences

CONSTANT CLKS_PER_BIT

VARIABLES tx_shift, bits_left, tx_count, tx

Frame(data) == <<0>> \o data \o <<1>>      \* start bit, data, stop bit
Ones == [i \in 1 .. 10 |-> 1]

ready == bits_left = 0

TransmitInit == tx_shift = Ones /\ bits_left = 0 /\ tx_count = 0 /\ tx = 1

TransmitReset == tx_shift' = Ones /\ bits_left' = 0 /\ tx_count' = 0 /\ tx' = 1

\* Fault: the stop bit is not counted.
LoadNoStop(data) ==
  /\ ready
  /\ tx_shift' = Frame(data) /\ bits_left' = 9 /\ tx_count' = 0

Load(data) ==
  /\ ready
  /\ tx_shift' = Frame(data) /\ bits_left' = 10 /\ tx_count' = 0

NextBit ==
  /\ ~ready /\ tx_count = CLKS_PER_BIT - 1
  /\ tx_shift' = Append(Tail(tx_shift), 1)
  /\ bits_left' = bits_left - 1 /\ tx_count' = 0

HoldBit ==
  /\ ~ready /\ tx_count # CLKS_PER_BIT - 1
  /\ tx_count' = tx_count + 1
  /\ UNCHANGED <<tx_shift, bits_left>>

Idle == ready /\ UNCHANGED <<tx_shift, bits_left, tx_count>>

\* One edge; "offered" is the byte at the port, if valid is high.
TransmitEdge(offered) ==
  /\ \/ offered # << >> /\ Load(Head(offered))
     \/ offered = << >> /\ Idle
     \/ NextBit \/ HoldBit
  /\ tx' = IF ready THEN 1 ELSE tx_shift[1]
=============================================================================
