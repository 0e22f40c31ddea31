------------------------------ MODULE UartLink ------------------------------
(***************************************************************************)
(* uart_tx at one end of a line and uart_rx at the other, each on a clock  *)
(* of its own, as between the host and the board.  One step is an edge of  *)
(* the receiver's clock, and none, one or two of the transmitter's.  Both  *)
(* ends may be reset together, as on the board.                            *)
(*                                                                         *)
(* While the transmitter is idle the line may glitch.  A byte follows a    *)
(* glitch only after RECOVERY clocks, else the receiver would take the     *)
(* glitch for the beginning of its start bit.                              *)
(***************************************************************************)
EXTENDS Integers, Sequences

CONSTANTS CLKS_PER_BIT,
          Bytes,       \* the bytes that are sent
          SKEW,        \* bound on the clocks that one end gains within a byte
          GLITCH,      \* longest glitch, in clocks
          RECOVERY,
          MAX_IN_FLIGHT \* bytes on their way: the one received, the one sent

VARIABLES tx_shift, bits_left, tx_count, tx,
          state, count, bit_index, shift, rx_meta, rx_sync, data, valid,
          skew,        \* transmitter's edges minus receiver's within the byte
          glitch,      \* clocks that the line is still pulled low
          hold_off,    \* clocks until the next byte or glitch may come
          in_flight    \* ghost: bytes taken by uart_tx and not yet received

INSTANCE UartTx
INSTANCE UartRx

Binary == {0, 1}
Octet == {s \in Seq(Binary) : Len(s) = 8}

\* The middle of a bit, from half a bit after the receiver noticed the start
\* bit, is still within the bit when one end has gained SKEW clocks and the
\* synchronizer has seen the start bit SKEW clocks late.  A glitch is over when
\* the start bit is checked.
ASSUME LinkAssumption ==
  /\ CLKS_PER_BIT \in Nat /\ CLKS_PER_BIT > 2
  /\ SKEW \in Nat /\ 2 * SKEW < CLKS_PER_BIT - (CLKS_PER_BIT \div 2)
  /\ GLITCH \in 0 .. (CLKS_PER_BIT \div 2)
  /\ RECOVERY \in Nat /\ RECOVERY >= (CLKS_PER_BIT \div 2) + 3
  /\ \A b \in Bytes : b \in Octet

\* The count is wide enough (uart_rx.sv:14).
ASSUME WidthAssumption == 2^CW \in Nat /\ CLKS_PER_BIT <= 2^CW

transmitVars == <<tx_shift, bits_left, tx_count, tx>>
receiveVars == <<state, count, bit_index, shift, rx_meta, rx_sync, data, valid>>
vars == <<transmitVars, receiveVars, skew, glitch, hold_off, in_flight>>

Init ==
  /\ TransmitInit /\ ReceiveInit
  /\ skew = 0 /\ glitch = 0 /\ hold_off = 0 /\ in_flight = << >>

Quiet == hold_off = 0 /\ glitch = 0
Offers == {<< >>} \cup
          IF Quiet /\ Len(in_flight) < MAX_IN_FLIGHT THEN {<<b>> : b \in Bytes} ELSE {}

Level == IF glitch > 0 THEN 0 ELSE tx

Arrived == IF valid /\ in_flight # << >> THEN Tail(in_flight) ELSE in_flight

\* The line's own time.
Line ==
  /\ hold_off' = IF hold_off > 0 THEN hold_off - 1 ELSE 0
  /\ glitch' = IF glitch > 0 THEN glitch - 1 ELSE 0

\* Both clocks tick.
BothTick ==
  /\ \E offered \in Offers :
       /\ TransmitEdge(offered)
       /\ in_flight' = IF ready THEN Arrived \o offered ELSE Arrived
       /\ skew' = IF ready THEN 0 ELSE skew
  /\ ReceiveEdge(Level)
  /\ Line

\* The receiver's clock is ahead.
ReceiverTicks ==
  /\ ~ready /\ skew > -SKEW
  /\ skew' = skew - 1
  /\ ReceiveEdge(Level)
  /\ in_flight' = Arrived
  /\ Line
  /\ UNCHANGED transmitVars

\* The transmitter's clock is ahead.
TransmitterTicks ==
  /\ ~ready /\ skew < SKEW
  /\ TransmitEdge(<< >>)
  /\ skew' = skew + 1
  /\ UNCHANGED <<receiveVars, glitch, hold_off, in_flight>>

\* The idle line is pulled low for a few clocks.
Glitch ==
  /\ ready /\ Quiet /\ in_flight = << >>
  /\ glitch' \in 1 .. GLITCH
  /\ hold_off' = RECOVERY
  /\ UNCHANGED <<transmitVars, receiveVars, skew, in_flight>>

Reset ==
  /\ TransmitReset /\ ReceiveReset
  /\ skew' = 0 /\ glitch' = 0 /\ hold_off' = 0 /\ in_flight' = << >>

Next == BothTick \/ ReceiverTicks \/ TransmitterTicks \/ Glitch \/ Reset

Spec == Init /\ [][Next]_vars
FairSpec == Spec /\ WF_vars(BothTick)

-----------------------------------------------------------------------------
(* Properties. *)

\* uart_rx.sv:2-3: every byte received is the oldest one on its way, bit for
\* bit, although either clock gains up to SKEW and the line glitches in between;
\* and nothing is received that was not sent.
BytesArriveIntact == valid => in_flight # << >> /\ data = Head(in_flight)

\* No byte is lost: each is received, unless reset drops it (FairSpec).
EveryByteArrives == in_flight # << >> ~> valid \/ in_flight = << >>
=============================================================================
