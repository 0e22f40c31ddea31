---------------------------- MODULE BoardHarness ----------------------------
(***************************************************************************)
(* The board's core with the two wires to its host, without saying what    *)
(* the host sends or when: a byte leaves what the host has written and     *)
(* comes to the board's receiver, and a byte that leaves the TX FIFO comes *)
(* to the buffer of the host's ResponseParser.  CommandStream and          *)
(* HostSession are two hosts.                                              *)
(***************************************************************************)
EXTENDS HwTestCore

Protocol == INSTANCE HwProtocol

VARIABLES line,      \* written by the host and not yet on the wire
          buffer,    \* _buffer of the host's ResponseParser
          issued     \* ghost: answers given to the serializer, not yet parsed

-----------------------------------------------------------------------------

\* The byte that leaves the TX FIFO reaches the host's parser.
Delivered(in) == TxFifo!Delivered(in.tx_ready)

Arrived(in) == buffer \o Delivered(in)
Parses(in) == Delivered(in) # << >> /\ Protocol!complete(Arrived(in))

Reads(in) == buffer' = IF Parses(in) THEN << >> ELSE Arrived(in)

NewAnswers(in) ==
  (IF ack_sent THEN <<Protocol!Ack>> ELSE << >>)
    \o (IF BeatTaken(in) THEN <<Protocol!PayloadBeat(Head(beats))>> ELSE << >>)
    \o (IF ResultTaken(in) THEN <<Protocol!ResultRecord(record)>> ELSE << >>)

Issues(in) == issued' = (IF Parses(in) THEN Tail(issued) ELSE issued) \o NewAnswers(in)

\* What the serializer still has to send.
InSerializer == CASE ser = "S_IDLE" -> << >>
                  [] ser = "S_BEAT" -> <<beat_data>>
                  [] ser = "S_RESULT" -> result_shift

\* At most one of the two LFSR comparisons matters in a cycle, and uart_tx's
\* readiness only when there is a byte for it.
Passes == IF serializer_free /\ (m_tvalid \/ result_valid) THEN BOOLEAN ELSE {TRUE}
TxReady == IF tx_queue = << >> THEN {FALSE} ELSE BOOLEAN

FirstByteTaken == phase = "idle" /\ Slice!m_valid

-----------------------------------------------------------------------------
(* Invariants of the core under any host.  What a frame in progress looks  *)
(* like is spread over the command parser (how much of it is still to be   *)
(* streamed), the input slice (up to two bytes, of one frame or of two)    *)
(* and the filter (whether it is inside a frame).                          *)

\* The filter has nothing buffered before the payload of a frame and with its
\* record.
BeatsFollowPhase ==
  /\ phase = "idle" => payload = "none"
  /\ payload = "none" \/ phase = "record" => beats = << >>

\* Some bytes of the frame being streamed are in the slice or beyond it.
Streaming == cmd = "C_STREAM" /\ remaining # frame_len

\* The youngest byte in the slice is the last of its frame, unless the parser
\* has more of it; while it has, and while the filter is inside a frame, the
\* slice is not empty.
SliceFollowsParser ==
  /\ cmd = "C_STREAM" => remaining \in 1 .. frame_len
  /\ skid_valid_q => out_valid_q
  /\ skid_valid_q => (skid_q.last <=> ~Streaming)
  /\ out_valid_q /\ ~skid_valid_q => (out_q.last <=> ~Streaming)
  /\ Streaming \/ phase = "inside" => out_valid_q

\* The places where a frame can be of which the filter has taken no byte.
NextOut == out_valid_q /\ phase # "inside"
NextSkid == skid_valid_q /\ out_q.last
NextParser == cmd = "C_STREAM" /\ remaining = frame_len
Places == OneBit(NextOut) + OneBit(NextSkid) + OneBit(NextParser)

\* The parser pops the RX FIFO in C_STREAM without looking at "empty"
\* (hw_test_core.sv:74): what is left of the frame is always there.
StreamNeverStarves == cmd = "C_STREAM" => remaining \in 1 .. rxf_count

\* A record that is being serialized has a byte to go.
ShiftHasBytes == ser = "S_RESULT" => result_shift # << >>

-----------------------------------------------------------------------------
(* The wire to the host. *)

Answer == {Protocol!Ack} \cup {Protocol!PayloadBeat(b) : b \in Filter!Beat}
            \cup {Protocol!ResultRecord(r) : r \in Filter!Record}

\* What is on it is the encoding of the answers outstanding; the host's parser
\* has never a whole answer in its buffer.
WireInv ==
  /\ issued \in Seq(Answer)
  /\ Len(tx_queue) <= TX_FIFO_DEPTH
  /\ buffer \o tx_queue \o InSerializer = Protocol!EncodeAll(issued)
  /\ buffer # << >> => ~Protocol!unexpected(buffer) /\ ~Protocol!complete(buffer)
=============================================================================
