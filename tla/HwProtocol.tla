----------------------------- MODULE HwProtocol -----------------------------
(***************************************************************************)
(* sim/hw_protocol.py: the byte protocol between the host and the board.   *)
(* frame_command is what the host sends for a frame.  An answer of the     *)
(* board is an acknowledgement, a payload beat or a result record; Encode  *)
(* is its form on the wire as the module's docstring gives it, and the     *)
(* other operators are what ResponseParser.feed makes of its buffer.       *)
(***************************************************************************)
EXTENDS Integers, Sequences

CONSTANTS RESULT_BYTES, FIELD_BYTE

Sequence == INSTANCE SequencesExt

CMD_FRAME == 165
RSP_RESET == 172
TAG_BEAT == 176
TAG_RESULT == 192

\* The configuration and the length are numbers; a record's fields are not
\* told apart.
frame_command(frame, cfg, stall_level) ==
  <<CMD_FRAME, cfg.dst_port \div 256, cfg.dst_port % 256,
    IF cfg.msg_type_enable THEN 1 ELSE 0, cfg.msg_type, stall_level,
    Len(frame) \div 256, Len(frame) % 256>> \o frame

Ack == [kind |-> "ack"]
PayloadBeat(b) == [kind |-> "beat", beat |-> b]
ResultRecord(r) == [kind |-> "result", record |-> r]

Encode(answer) ==
  CASE answer.kind = "ack" -> <<RSP_RESET>>
    [] answer.kind = "beat" ->
         <<TAG_BEAT + (IF answer.beat.last THEN 2 ELSE 0)
                    + (IF answer.beat.error THEN 1 ELSE 0), answer.beat.data>>
    [] answer.kind = "result" ->
         <<TAG_RESULT, IF answer.record.accept THEN 1 ELSE 0>>
           \o [i \in 1 .. RESULT_BYTES - 2 |-> FIELD_BYTE]
           \o <<answer.record.sequence>>

EncodeAll(answers) == Sequence!FlattenSeq([i \in DOMAIN answers |-> Encode(answers[i])])

-----------------------------------------------------------------------------
(* ResponseParser.feed, with "buffer" not empty. *)

IsBeat(tag) == tag \div 4 = TAG_BEAT \div 4        \* tag & 0xFC
unexpected(buffer) == ~(Head(buffer) \in {RSP_RESET, TAG_RESULT} \/ IsBeat(Head(buffer)))

\* Bytes of the answer that starts with this tag.
Needed(tag) == IF tag = TAG_RESULT THEN 1 + RESULT_BYTES
               ELSE IF IsBeat(tag) THEN 2 ELSE 1

complete(buffer) == ~unexpected(buffer) /\ Len(buffer) >= Needed(Head(buffer))

Answer(buffer) ==
  LET tag == Head(buffer)
  IN IF tag = TAG_RESULT
       THEN ResultRecord([accept |-> buffer[2] = 1, sequence |-> buffer[1 + RESULT_BYTES]])
     ELSE IF IsBeat(tag)
       THEN PayloadBeat([data |-> buffer[2], last |-> (tag \div 2) % 2 = 1,
                         error |-> tag % 2 = 1])
     ELSE Ack

\* check_response, against the outputs that are possible for the frame and the
\* record's number.  What the reference model says of the rest of the record
\* and of "error" is left out.
check_response(response, outputs, number) ==
  LET beats == response.beats
  IN /\ [i \in DOMAIN beats |-> beats[i].data] \in outputs
     /\ \A i \in DOMAIN beats : beats[i].last = (i = Len(beats))
     /\ response.result.sequence = number
=============================================================================
