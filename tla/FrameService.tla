---------------------------- MODULE FrameService ----------------------------
(***************************************************************************)
(* What udp_packet_filter promises to the logic around it, without saying  *)
(* why a frame is accepted: it takes a frame in, at the earliest from its  *)
(* second byte on it forwards a run of the frame's bytes through a buffer  *)
(* of two, and when the frame has ended and the buffer is empty it shows   *)
(* one record, numbered in order.  FilterHarness implements it, and        *)
(* HwTestCore is built around it.                                          *)
(*                                                                         *)
(* "in" is an edge's input ports, as in UdpPacketFilter.                   *)
(***************************************************************************)
EXTENDS Naturals, Sequences

CONSTANTS Datum, Config, ResetConfig, SEQUENCE_MODULUS

VARIABLES phase,      \* "idle", "inside" a frame, "ended", or "record" shown
          sampled,    \* the cfg_* ports as they came with the first byte
          payload,    \* "none" yet, "open", or "closed"
          beats,      \* forwarded and not taken, oldest first
          sequence,   \* number of the next record
          record      \* the record, meaningful while it is shown

serviceVars == <<phase, sampled, payload, beats, sequence, record>>

Beat == [data : Datum, last : BOOLEAN, error : BOOLEAN]
Record == [accept : BOOLEAN, sequence : 0 .. SEQUENCE_MODULUS - 1]

s_tready == phase \in {"idle", "inside"} /\ (payload = "open" => Len(beats) < 2)
m_tvalid == beats # << >>
result_valid == phase = "record"

ServiceInit ==
  /\ phase = "idle" /\ sampled = ResetConfig
  /\ payload = "none" /\ beats = << >>
  /\ sequence = 0 /\ record = [accept |-> FALSE, sequence |-> 0]

ClearEdge ==
  /\ phase' = "idle" /\ sampled' = ResetConfig
  /\ payload' = "none" /\ beats' = << >>
  /\ sequence' = 0 /\ record' = [accept |-> FALSE, sequence |-> 0]

-----------------------------------------------------------------------------

\* The beats that are left after this edge's handshake on the payload port.
Kept(in) == IF m_tvalid /\ in.m_ready THEN Tail(beats) ELSE beats

\* A frame that has ended is reported as soon as nothing of it is buffered.
Finish(left) ==
  IF left = << >>
    THEN /\ phase' = "record"
         /\ \E accept \in BOOLEAN :
              record' = [accept |-> accept, sequence |-> sequence]
         /\ sequence' = (sequence + 1) % SEQUENCE_MODULUS
    ELSE phase' = "ended" /\ UNCHANGED <<sequence, record>>

\* No byte of a frame is accepted, and no record taken.
Wait(in) ==
  /\ ~(in.tvalid /\ s_tready) /\ ~(result_valid /\ in.result_ready)
  /\ beats' = Kept(in)
  /\ IF phase = "ended" THEN Finish(Kept(in)) ELSE UNCHANGED <<phase, sequence, record>>
  /\ UNCHANGED <<sampled, payload>>

\* Fault: the configuration of the frame before is used.
BeginWithoutSample(in) ==
  /\ phase = "idle" /\ in.tvalid
  /\ payload' = "none"
  /\ beats' = Kept(in)
  /\ IF in.tlast
       THEN Finish(Kept(in))
       ELSE /\ phase' = "inside" /\ record' = [record EXCEPT !.accept = FALSE]
            /\ UNCHANGED sequence
  /\ UNCHANGED sampled

\* The first byte of a frame samples the configuration.
Begin(in) ==
  /\ phase = "idle" /\ in.tvalid
  /\ sampled' = in.cfg /\ payload' = "none"
  /\ beats' = Kept(in)
  /\ IF in.tlast
       THEN Finish(Kept(in))
       ELSE /\ phase' = "inside" /\ record' = [record EXCEPT !.accept = FALSE]
            /\ UNCHANGED sequence

\* A later byte is dropped, except in the middle of the payload.  It may be
\* the one after which the payload begins.
Drop(in) ==
  /\ phase = "inside" /\ in.tvalid /\ s_tready /\ payload # "open"
  /\ beats' = Kept(in)
  /\ IF in.tlast THEN Finish(Kept(in)) ELSE UNCHANGED <<phase, sequence, record>>
  /\ payload' \in {payload} \cup (IF payload = "none" /\ ~in.tlast THEN {"open"} ELSE {})
  /\ UNCHANGED sampled

\* A later byte is forwarded.  The payload ends with the declared length or
\* with the frame, and only the latter can be an error.
Forward(in) ==
  /\ phase = "inside" /\ in.tvalid /\ s_tready /\ payload # "closed"
  /\ \E last, error \in BOOLEAN :
       /\ in.tlast => last
       /\ error => in.tlast
       /\ beats' = Append(Kept(in), [data |-> in.tdata, last |-> last, error |-> error])
       /\ payload' = IF last THEN "closed" ELSE "open"
  /\ phase' = IF in.tlast THEN "ended" ELSE "inside"
  /\ UNCHANGED <<sampled, sequence, record>>

\* The record is taken.
Report(in) ==
  /\ result_valid /\ in.result_ready
  /\ phase' = "idle" /\ payload' = "none"
  /\ UNCHANGED <<sampled, beats, sequence, record>>

ServiceEdge(in) == Wait(in) \/ Begin(in) \/ Drop(in) \/ Forward(in) \/ Report(in)

-----------------------------------------------------------------------------
(* The service with free ports. *)

Input == [tvalid : BOOLEAN, tdata : Datum, tlast : BOOLEAN, cfg : Config,
          m_ready : BOOLEAN, result_ready : BOOLEAN]

Next == ClearEdge \/ \E in \in Input : ServiceEdge(in)

Spec == ServiceInit /\ [][Next]_serviceVars

ServiceTypeOK ==
  /\ phase \in {"idle", "inside", "ended", "record"}
  /\ sampled \in Config
  /\ payload \in {"none", "open", "closed"}
  /\ beats \in Seq(Beat) /\ Len(beats) <= 2
  /\ sequence \in 0 .. SEQUENCE_MODULUS - 1
  /\ record \in Record
=============================================================================
