--------------------------- MODULE FilterHarness ---------------------------
(***************************************************************************)
(* udp_packet_filter with its ports connected to an environment, as in     *)
(* formal/udp_packet_filter_formal.sv: a source that sends frames and may  *)
(* pause or end one at any byte, cfg_* ports that change at any time, two  *)
(* consumers that are ready when they like, and a reset at any edge.       *)
(*                                                                         *)
(* The source must hold a byte that is not accepted.  Here it may change   *)
(* its mind, which allows it strictly more.                                *)
(*                                                                         *)
(* Ghost variables follow the frame in progress, that is, from its first   *)
(* byte to the handshake of its result record:                             *)
(*   frame, pos   its bytes are the first pos of the sequence frame        *)
(*   cfg0         the cfg_* values that came with its first byte           *)
(*   open         1 once its last byte was accepted (open_descriptors)     *)
(*   sent, ended  payload beats taken, and whether one of them was "last"  *)
(*   started      frames begun since reset                                 *)
(***************************************************************************)
EXTENDS UdpPacketFilter

CONSTANTS Streams,            \* what the source may send; it may stop early
          Configs,            \* values of the cfg_* ports
          OutReady,           \* values of m_axis_tready
          ResultReady,        \* values of result_ready
          FRAMES_PER_RESET    \* bound on "started"

ASSUME StreamsAssumption == \A s \in Streams : s \in Seq(Byte) /\ s # << >>
ASSUME EnvironmentAssumption ==
  /\ Configs \subseteq Config
  /\ OutReady \subseteq BOOLEAN /\ ResultReady \subseteq BOOLEAN
  /\ FRAMES_PER_RESET \in Nat

VARIABLES frame, pos, cfg0, open, sent, ended, started

ghostVars == <<frame, pos, cfg0, open, sent, ended, started>>
vars == <<filterVars, ghostVars>>

Model == INSTANCE ReferenceModel

-----------------------------------------------------------------------------
(* The environment. *)

Init ==
  /\ FilterInit
  /\ frame = << >> /\ pos = 0 /\ cfg0 = ResetConfig
  /\ open = 0 /\ sent = 0 /\ ended = FALSE /\ started = 0

Reset ==
  /\ ResetEdge
  /\ frame' = << >> /\ pos' = 0 /\ cfg0' = ResetConfig
  /\ open' = 0 /\ sent' = 0 /\ ended' = FALSE /\ started' = 0

\* The source goes on with the frame it has begun, or offers a new one.
BetweenFrames == pos = 0 \/ open # 0
Sources == IF BetweenFrames THEN Streams ELSE {frame}
Offset == IF BetweenFrames THEN 1 ELSE pos + 1

\* The bookkeeping of an edge: a result handshake ends the frame.
Follow(source, in) ==
  /\ started' = IF input_handshake(in) /\ pos = 0 THEN started + 1 ELSE started
  /\ IF ResultHandshake(in)
       THEN /\ frame' = << >> /\ pos' = 0 /\ cfg0' = ResetConfig
            /\ sent' = 0 /\ ended' = FALSE
       ELSE /\ frame' = IF input_handshake(in) THEN source ELSE frame
            /\ pos' = IF input_handshake(in) THEN pos + 1 ELSE pos
            /\ cfg0' = IF input_handshake(in) /\ pos = 0 THEN in.cfg ELSE cfg0
            /\ sent' = IF OutputHandshake(in) THEN sent + 1 ELSE sent
            /\ ended' = (ended \/ (OutputHandshake(in) /\ out_q.last))
  /\ open' = open + (IF input_handshake(in) /\ in.tlast THEN 1 ELSE 0)
                  - (IF ResultHandshake(in) THEN 1 ELSE 0)

\* One edge on which the source offers the next byte of "source", or nothing.
Cycle(source, tvalid, tlast, cfg, m_ready, result_ready) ==
  LET in == [tvalid |-> tvalid, tdata |-> source[Offset], tlast |-> tlast,
             cfg |-> cfg, m_ready |-> m_ready, result_ready |-> result_ready]
  IN /\ Offset = Len(source) => tlast
     /\ Clock(in)
     /\ Follow(source, in)

\* Inputs that the filter does not look at in this cycle need one value only:
\* with others the edge would lead to the same state.
LookedAt(values, looked) ==
  IF looked THEN values ELSE {CHOOSE w \in values : TRUE} \cap values

Tick ==
  \E tvalid \in BOOLEAN :
    LET taken == tvalid /\ s_axis_tready
    IN /\ tvalid /\ pos = 0 => started < FRAMES_PER_RESET
       /\ \E source \in LookedAt(Sources, taken), tlast \in {b \in BOOLEAN : taken \/ b},
             cfg \in LookedAt(Configs, taken /\ pos = 0),
             m_ready \in LookedAt(OutReady, out_valid_q),
             result_ready \in LookedAt(ResultReady, result_valid_q) :
            Cycle(source, tvalid, tlast, cfg, m_ready, result_ready)

Next == Reset \/ Tick

Spec == Init /\ [][Next]_vars

\* The clock runs; the source goes on with a frame it has begun, and each
\* consumer is ready again and again.
SourceStep == pos > 0 /\ pos' = pos + 1 /\ Tick
OutputStep == out_valid_q /\ sent' = sent + 1 /\ Tick
ResultStep == result_valid_q /\ open = 1 /\ open' = 0 /\ Tick
FairSpec == Spec /\ WF_vars(SourceStep) /\ WF_vars(OutputStep) /\ WF_vars(ResultStep)

-----------------------------------------------------------------------------
(* Safety. *)

TypeOK ==
  /\ FilterTypeOK
  /\ frame \in Streams \cup {<< >>} /\ pos \in Nat /\ cfg0 \in Config
  /\ open \in Nat /\ sent \in Nat /\ ended \in BOOLEAN /\ started \in Nat

\* What sim/reference_model.py says of the bytes received so far, taken as a
\* whole frame.
Expected == Model!classify_frame(frame, pos, cfg0, started - 1)

Buffered == output_buffer!Contents

\* The assertions of udp_packet_filter.sv:487-490: the flags registered one
\* cycle early agree with the counter they stand for.
FlagsMatchCount ==
  /\ payload_one = (payload_left = 1)
  /\ payload_many = (payload_left > 1)

\* spec.md 5 and 7, udp_packet_filter_formal.sv:97-106: at most one frame is
\* waiting for its record, a record is shown only for such a frame, only after
\* all of its payload was taken, and says "accept" with the right reason.
RecordAccounting ==
  /\ open <= 1
  /\ result_valid_q =>
       open = 1 /\ Buffered = << >> /\ (result.accept <=> result.reason = REASON_ACCEPT)

\* A frame that has ended and whose payload has left has its record on the
\* port: a reject that forwarded nothing never waits for the payload consumer.
RecordIsPrompt == open = 1 /\ Buffered = << >> => result_valid_q

\* udp_packet_filter_formal.sv:108-113: "error" comes with "last", and nothing
\* follows the last beat of a frame.
PayloadTerminates ==
  /\ out_valid_q => (out_q.error => out_q.last) /\ ~ended
  /\ skid_valid_q => ~out_q.last

\* The record is the one the reference model computes from the whole frame and
\* the configuration sampled with its first byte, whatever the frame before
\* left in the registers, whichever byte the frame ended on.
RecordMatchesReference == result_valid_q => result = Expected.record

\* Cut-through (spec.md:123-134): at every moment, what was sent and what is
\* buffered is as much payload as the reference model forwards of the bytes
\* received so far.
PayloadIsCutThrough == pos > 0 => sent + Len(Buffered) = Expected.forwarded

\* Each buffered beat is the payload byte of its place in the frame; "last" is
\* on the last declared byte or the byte that ended the frame, and "error" on
\* the latter if declared payload is missing.
BeatsMatchReference ==
  \A k \in 1..Len(Buffered) :
    LET n == sent + k
        cut == open = 1 /\ pos = Model!PAYLOAD_OFFSET + n
        final == n = Expected.record.payload_len
    IN Buffered[k] = [data  |-> Model!At(frame, Model!PAYLOAD_OFFSET + n - 1),
                      last  |-> final \/ cut,
                      error |-> cut /\ ~final]

(* What a step may never do. *)

\* While a record is pending no byte of the next frame is accepted
\* (spec.md:118-119).
InputWaitsForRecord == [][open = 1 => pos' \in {pos, 0} /\ open' <= 1]_vars

\* A beat or a record that is not taken is held as it is (spec.md:141, 151;
\* udp_packet_filter_checks.sv:39-54), unless reset drops it.
StalledOutputsHold ==
  [][Reset \/ /\ out_valid_q /\ sent' = sent => out_valid_q' /\ out_q' = out_q
              /\ result_valid_q /\ open' = open => result_valid_q' /\ result' = result]_vars

\* To the logic around it the filter is a FrameService: which bytes it may
\* accept and when, how its payload starts, runs and ends, and when and with
\* which number a record is shown.  Which byte a beat carries is left to
\* BeatsMatchReference, so the data is projected away.
Service == INSTANCE FrameService WITH
  Datum <- {0}, Config <- Configs \cup {ResetConfig},
  phase <- CASE state = "IDLE" -> "idle"
             [] state = "WAIT_OUTPUT" -> "ended"
             [] state = "RESULT_HOLD" -> "record"
             [] OTHER -> "inside",
  sampled <- cfg_q,
  payload <- IF state = "PASS_PAYLOAD" THEN "open"
             ELSE IF sent + Len(Buffered) > 0 THEN "closed" ELSE "none",
  beats <- [k \in 1 .. Len(Buffered) |-> [Buffered[k] EXCEPT !.data = 0]],
  sequence <- sequence_counter,
  record <- [accept |-> result.accept, sequence |-> result.sequence]
ImplementsService == Service!Spec

(* Liveness. *)

\* A frame that has begun is reported, unless reset drops it (FairSpec).
EveryFrameIsReported == pos > 0 ~> pos = 0
=============================================================================
