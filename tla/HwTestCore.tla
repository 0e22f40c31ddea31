----------------------------- MODULE HwTestCore -----------------------------
(***************************************************************************)
(* fpga/basys3/hw_test_core.sv: the command parser, the input register     *)
(* slice, the filter, the response serializer and the two FIFOs of the     *)
(* board, between its UARTs.                                               *)
(*                                                                         *)
(* The filter is a FrameService (FilterHarness implements it), the RX FIFO *)
(* a LaggedFifo and the TX FIFO a ByteFifo (BramFifo and SyncFifo          *)
(* implement them).  One step is one rising clock edge; "in" is what comes *)
(* from outside in that cycle:                                             *)
(*   in.rx                         the byte from uart_rx, if rx_valid      *)
(*   in.beat_pass, in.result_pass  lfsr[7:0] and lfsr[15:8] >= stall_level *)
(*   in.tx_ready                   uart_tx takes a byte                    *)
(***************************************************************************)
EXTENDS Integers, Sequences

CONSTANTS RX_FIFO_DEPTH, TX_FIFO_DEPTH,
          RESET_CYCLES,        \* start of reset_timer: 31
          RESULT_BYTES,        \* of a serialized record: 20
          FIELD_BYTE,          \* stands for the bytes of a record's fields
          SEQUENCE_MODULUS,
          RESULTS_MODULUS      \* of results_sent, which the LEDs show: 65536

ASSUME CoreAssumption ==
  /\ RX_FIFO_DEPTH \in Nat \ {0} /\ TX_FIFO_DEPTH \in Nat \ {0}
  /\ RESET_CYCLES \in Nat
  /\ RESULT_BYTES \in Nat /\ RESULT_BYTES > 1
  /\ FIELD_BYTE \in 0 .. 255
  /\ SEQUENCE_MODULUS \in 1 .. 256
  /\ RESULTS_MODULUS \in Nat \ {0} /\ RESULTS_MODULUS <= 65536

Unsigned(values) == 0 .. values - 1
Byte == Unsigned(256)
Word16 == Unsigned(65536)

CMD_FRAME == 165
CMD_RESET == 166
RSP_RESET == 172
TAG_BEAT == 176
TAG_RESULT == 192

VARIABLES rx_visible, rx_arriving,               \* u_rx_fifo
          rx_overflow,
          cmd, cfg, stall_level, frame_len, remaining, reset_timer, ack_pending,
          out_q, skid_q, out_valid_q, skid_valid_q,                \* u_input_slice
          phase, sampled, payload, beats, sequence, record,        \* u_filter
          ser, beat_data, result_shift, results_sent,
          tx_queue                               \* u_tx_fifo

commandVars == <<cmd, cfg, stall_level, frame_len, remaining, reset_timer>>
coreVars == <<rx_visible, rx_arriving, rx_overflow, commandVars, ack_pending,
              out_q, skid_q, out_valid_q, skid_valid_q,
              phase, sampled, payload, beats, sequence, record,
              ser, beat_data, result_shift, results_sent, tx_queue>>

\* The cfg_* registers.
Config == [dst_port : Word16, msg_type_enable : BOOLEAN, msg_type : Byte]
ResetConfig == [dst_port |-> 0, msg_type_enable |-> FALSE, msg_type |-> 0]

RxFifo == INSTANCE LaggedFifo WITH Item <- Byte, Depth <- RX_FIFO_DEPTH,
            visible <- rx_visible, arriving <- rx_arriving, port <- 0
TxFifo == INSTANCE ByteFifo WITH Item <- Byte, Depth <- TX_FIFO_DEPTH,
            queue <- tx_queue, port <- 0
Slice == INSTANCE StreamByteBuffer
Filter == INSTANCE FrameService WITH Datum <- Byte

-----------------------------------------------------------------------------
(* Wires. *)

rxf_empty == rx_visible = << >>
rxf_data == IF rxf_empty THEN 0 ELSE Head(rx_visible)
rxf_count == Len(rx_visible)
rxf_full == Len(rx_visible) + Len(rx_arriving) = RX_FIFO_DEPTH
txf_full == Len(tx_queue) = TX_FIFO_DEPTH

HeaderStates == {"C_PORT_HI", "C_PORT_LO", "C_MSG_EN", "C_MSG", "C_STALL",
                 "C_LEN_HI", "C_LEN_LO"}
CommandStates == HeaderStates \cup {"C_IDLE", "C_WAIT", "C_STREAM", "C_RESET"}

reading_header == cmd \notin {"C_WAIT", "C_STREAM", "C_RESET"}
filter_rst_n == cmd # "C_RESET"
pipe_ready == Slice!s_ready
rxf_pop == (reading_header /\ ~rxf_empty) \/ (cmd = "C_STREAM" /\ pipe_ready)

\* The filter's valid outputs are low while it is in reset.
m_tvalid == filter_rst_n /\ Filter!m_tvalid
result_valid == filter_rst_n /\ Filter!result_valid

\* Fault: an acknowledgement that waits does not hold back the filter's output.
FreeWithAck == ser = "S_IDLE" /\ ~txf_full

serializer_free == ser = "S_IDLE" /\ ~ack_pending /\ ~txf_full

m_tready(in) == serializer_free /\ in.beat_pass
result_ready(in) == serializer_free /\ in.result_pass /\ ~m_tvalid

-----------------------------------------------------------------------------
(* The command parser: one action per state, or per decision within one.   *)

\* Nothing to read.
AwaitByte == reading_header /\ rxf_empty /\ UNCHANGED commandVars

StartFrame ==
  /\ cmd = "C_IDLE" /\ ~rxf_empty /\ rxf_data = CMD_FRAME
  /\ cmd' = "C_PORT_HI"
  /\ UNCHANGED <<cfg, stall_level, frame_len, remaining, reset_timer>>

StartReset ==
  /\ cmd = "C_IDLE" /\ ~rxf_empty /\ rxf_data = CMD_RESET
  /\ cmd' = "C_RESET"
  /\ reset_timer' = RESET_CYCLES
  /\ UNCHANGED <<cfg, stall_level, frame_len, remaining>>

SkipByte ==
  /\ cmd = "C_IDLE" /\ ~rxf_empty /\ rxf_data \notin {CMD_FRAME, CMD_RESET}
  /\ UNCHANGED commandVars

\* A header byte goes to its register.
ReadConfig ==
  /\ ~rxf_empty
  /\ \/ /\ cmd = "C_PORT_HI" /\ cmd' = "C_PORT_LO"
        /\ cfg' = [cfg EXCEPT !.dst_port = rxf_data * 256 + (@ % 256)]
     \/ /\ cmd = "C_PORT_LO" /\ cmd' = "C_MSG_EN"
        /\ cfg' = [cfg EXCEPT !.dst_port = (@ \div 256) * 256 + rxf_data]
     \/ /\ cmd = "C_MSG_EN" /\ cmd' = "C_MSG"
        /\ cfg' = [cfg EXCEPT !.msg_type_enable = (rxf_data % 2 = 1)]
     \/ /\ cmd = "C_MSG" /\ cmd' = "C_STALL"
        /\ cfg' = [cfg EXCEPT !.msg_type = rxf_data]
  /\ UNCHANGED <<stall_level, frame_len, remaining, reset_timer>>

ReadStall ==
  /\ cmd = "C_STALL" /\ ~rxf_empty
  /\ cmd' = "C_LEN_HI"
  /\ stall_level' = rxf_data
  /\ UNCHANGED <<cfg, frame_len, remaining, reset_timer>>

ReadLength ==
  /\ ~rxf_empty
  /\ \/ /\ cmd = "C_LEN_HI" /\ cmd' = "C_LEN_LO"
        /\ frame_len' = rxf_data * 256 + (frame_len % 256)
     \/ /\ cmd = "C_LEN_LO" /\ cmd' = "C_WAIT"
        /\ frame_len' = (frame_len \div 256) * 256 + rxf_data
  /\ UNCHANGED <<cfg, stall_level, remaining, reset_timer>>

\* Fault: the frame is streamed when all but one of its bytes are there.
WaitOneShort ==
  /\ cmd = "C_WAIT"
  /\ \/ frame_len = 0 /\ cmd' = "C_IDLE" /\ UNCHANGED remaining
     \/ /\ frame_len # 0 /\ rxf_count + 1 >= frame_len
        /\ cmd' = "C_STREAM" /\ remaining' = frame_len
     \/ /\ frame_len # 0 /\ rxf_count + 1 < frame_len
        /\ UNCHANGED <<cmd, remaining>>
  /\ UNCHANGED <<cfg, stall_level, frame_len, reset_timer>>

\* The frame is streamed once all of it is in the FIFO.
Wait ==
  /\ cmd = "C_WAIT"
  /\ \/ frame_len = 0 /\ cmd' = "C_IDLE" /\ UNCHANGED remaining
     \/ /\ frame_len # 0 /\ rxf_count >= frame_len
        /\ cmd' = "C_STREAM" /\ remaining' = frame_len
     \/ /\ frame_len # 0 /\ rxf_count < frame_len
        /\ UNCHANGED <<cmd, remaining>>
  /\ UNCHANGED <<cfg, stall_level, frame_len, reset_timer>>

\* Fault: the parser leaves the frame with a byte to go.
StreamsOneShort ==
  /\ cmd = "C_STREAM"
  /\ IF pipe_ready
       THEN /\ remaining' = remaining - 1
            /\ cmd' = IF remaining <= 2 THEN "C_IDLE" ELSE "C_STREAM"
       ELSE UNCHANGED <<cmd, remaining>>
  /\ UNCHANGED <<cfg, stall_level, frame_len, reset_timer>>

Stream ==
  /\ cmd = "C_STREAM"
  /\ IF pipe_ready
       THEN /\ remaining' = remaining - 1
            /\ cmd' = IF remaining = 1 THEN "C_IDLE" ELSE "C_STREAM"
       ELSE UNCHANGED <<cmd, remaining>>
  /\ UNCHANGED <<cfg, stall_level, frame_len, reset_timer>>

\* Fault: the timer is not compared with zero.
CountsBelowZero ==
  /\ cmd = "C_RESET"
  /\ reset_timer' = reset_timer - 1
  /\ UNCHANGED <<cmd, cfg, stall_level, frame_len, remaining>>

HoldReset ==
  /\ cmd = "C_RESET" /\ reset_timer # 0
  /\ reset_timer' = reset_timer - 1
  /\ UNCHANGED <<cmd, cfg, stall_level, frame_len, remaining>>

reset_done == cmd = "C_RESET" /\ reset_timer = 0

ReleaseReset ==
  /\ reset_done
  /\ cmd' = "C_IDLE"
  /\ UNCHANGED <<cfg, stall_level, frame_len, remaining, reset_timer>>

CommandParser ==
  \/ AwaitByte \/ StartFrame \/ StartReset \/ SkipByte
  \/ ReadConfig \/ ReadStall \/ ReadLength
  \/ Wait \/ Stream \/ HoldReset \/ ReleaseReset

-----------------------------------------------------------------------------
(* The slice and the filter, both reset by filter_rst_n. *)

SliceBeat == [data |-> rxf_data, last |-> remaining = 1, error |-> FALSE]

FilterInput(in) ==
  [tvalid |-> Slice!m_valid, tdata |-> out_q.data, tlast |-> out_q.last,
   cfg |-> cfg, m_ready |-> m_tready(in), result_ready |-> result_ready(in)]

\* Fault: the reset command does not reach the filter.
FilterKeepsState(in) ==
  /\ Slice!Edge(cmd = "C_STREAM", SliceBeat, Filter!s_tready)
  /\ Filter!ServiceEdge(FilterInput(in))

FilterPath(in) ==
  IF filter_rst_n
    THEN /\ Slice!Edge(cmd = "C_STREAM", SliceBeat, Filter!s_tready)
         /\ Filter!ServiceEdge(FilterInput(in))
    ELSE Slice!ClearEdge /\ Filter!ClearEdge

-----------------------------------------------------------------------------
(* The serializer, and what it writes to the TX FIFO. *)

Push(bytes, in) == TxFifo!Move(bytes, in.tx_ready)

OneBit(flag) == IF flag THEN 1 ELSE 0

\* Of the fields of a record only "accept" and the number vary here.
ResultBytes(r) ==
  [i \in 1 .. RESULT_BYTES |-> CASE i = 1 -> OneBit(r.accept)
                                 [] i = RESULT_BYTES -> r.sequence
                                 [] OTHER -> FIELD_BYTE]

ack_sent == ser = "S_IDLE" /\ ~txf_full /\ ack_pending
BeatTaken(in) == m_tvalid /\ m_tready(in)
ResultTaken(in) == result_valid /\ result_ready(in)

SendAck(in) ==
  /\ ack_sent
  /\ Push(<<RSP_RESET>>, in)
  /\ UNCHANGED <<ser, beat_data, result_shift, results_sent>>

SendBeatTag(in) ==
  /\ ~ack_sent /\ BeatTaken(in)
  /\ LET b == Head(beats)
     IN /\ Push(<<TAG_BEAT + 2 * OneBit(b.last) + OneBit(b.error)>>, in)
        /\ beat_data' = b.data
  /\ ser' = "S_BEAT"
  /\ UNCHANGED <<result_shift, results_sent>>

SendResultTag(in) ==
  /\ ~ack_sent /\ ResultTaken(in)
  /\ Push(<<TAG_RESULT>>, in)
  /\ result_shift' = ResultBytes(record)
  /\ results_sent' = (results_sent + 1) % RESULTS_MODULUS
  /\ ser' = "S_RESULT"
  /\ UNCHANGED beat_data

SendBeatData(in) ==
  /\ ser = "S_BEAT" /\ ~txf_full
  /\ Push(<<beat_data>>, in)
  /\ ser' = "S_IDLE"
  /\ UNCHANGED <<beat_data, result_shift, results_sent>>

\* result_left is the length of result_shift.
SendResultByte(in) ==
  /\ ser = "S_RESULT" /\ ~txf_full
  /\ Push(<<Head(result_shift)>>, in)
  /\ result_shift' = Tail(result_shift)
  /\ ser' = IF Len(result_shift) = 1 THEN "S_IDLE" ELSE "S_RESULT"
  /\ UNCHANGED <<beat_data, results_sent>>

SendNothing(in) ==
  /\ \/ txf_full
     \/ ser = "S_IDLE" /\ ~ack_sent /\ ~BeatTaken(in) /\ ~ResultTaken(in)
  /\ Push(<< >>, in)
  /\ UNCHANGED <<ser, beat_data, result_shift, results_sent>>

Serializer(in) ==
  \/ SendAck(in) \/ SendBeatTag(in) \/ SendResultTag(in)
  \/ SendBeatData(in) \/ SendResultByte(in) \/ SendNothing(in)

-----------------------------------------------------------------------------

CoreInit ==
  /\ rx_visible = << >> /\ rx_arriving = << >> /\ rx_overflow = FALSE
  /\ cmd = "C_IDLE" /\ cfg = ResetConfig /\ stall_level = 0
  /\ frame_len = 0 /\ remaining = 0 /\ reset_timer = 0 /\ ack_pending = FALSE
  /\ Slice!BufferInit /\ Filter!ServiceInit
  /\ ser = "S_IDLE" /\ beat_data = 0 /\ result_shift = << >> /\ results_sent = 0
  /\ tx_queue = << >>

\* A rising edge with rst_n high: every always_ff block.
Clock(in) ==
  /\ in.beat_pass \/ stall_level # 0
  /\ in.result_pass \/ stall_level # 0
  /\ RxFifo!Move(in.rx, rxf_pop)
  /\ rx_overflow' = (rx_overflow \/ (in.rx # << >> /\ rxf_full))
  /\ CommandParser
  /\ ack_pending' = (reset_done \/ (ack_pending /\ ~ack_sent))
  /\ FilterPath(in)
  /\ Serializer(in)

\* A rising edge with rst_n low.
BoardReset ==
  /\ rx_visible' = << >> /\ rx_arriving' = << >> /\ rx_overflow' = FALSE
  /\ cmd' = "C_IDLE" /\ cfg' = ResetConfig /\ stall_level' = 0
  /\ frame_len' = 0 /\ remaining' = 0 /\ reset_timer' = 0 /\ ack_pending' = FALSE
  /\ Slice!ClearEdge /\ Filter!ClearEdge
  /\ ser' = "S_IDLE" /\ beat_data' = 0 /\ result_shift' = << >> /\ results_sent' = 0
  /\ tx_queue' = << >>

CoreTypeOK ==
  /\ rx_visible \in Seq(Byte) /\ rx_arriving \in Seq(Byte) /\ rx_overflow \in BOOLEAN
  /\ cmd \in CommandStates /\ cfg \in Config
  /\ stall_level \in Byte /\ frame_len \in Word16 /\ remaining \in Word16
  /\ reset_timer \in 0 .. RESET_CYCLES /\ ack_pending \in BOOLEAN
  /\ Slice!BufferTypeOK /\ Filter!ServiceTypeOK
  /\ ser \in {"S_IDLE", "S_BEAT", "S_RESULT"} /\ beat_data \in Byte
  /\ result_shift \in Seq(Byte) /\ results_sent \in Word16
  /\ tx_queue \in Seq(Byte)
=============================================================================
