-------------------------- MODULE FilterInvariant --------------------------
(***************************************************************************)
(* The inductive invariant of the filter in its environment.  None of the  *)
(* safety properties of FilterHarness is inductive: each of them rests on  *)
(* what a parser state says about the payload buffer, about the payload    *)
(* count and about the frame in progress.  ControlInv names the facts that *)
(* keep the parser, the buffer and the frame in step; DataInv relates the  *)
(* registers to the bytes that the frame has brought so far.               *)
(***************************************************************************)
EXTENDS FilterHarness

HeaderStates == {"ETH_HEADER", "IPV4_HEADER", "UDP_HEADER"}
PayloadStates == {"FIRST_PAYLOAD", "PASS_PAYLOAD"}
ClosedStates == {"WAIT_OUTPUT", "RESULT_HOLD"}

\* The state of the parser is the progress of the frame.
StateFollowsFrame ==
  /\ result_valid_q <=> state = "RESULT_HOLD"
  /\ open = IF state \in ClosedStates THEN 1 ELSE 0
  /\ pos = 0 <=> state = "IDLE"
  /\ pos > 0 => frame \in Streams /\ pos <= Len(frame)
  /\ pos > 0 /\ open = 0 => pos < Len(frame)

\* At byte 41 the registered length check still speaks of the registers.
LengthsLatched ==
  state = "UDP_HEADER" /\ header_index = 41 => (hdr.lengths_ok => LengthRules)

\* The payload states are left with the last payload byte.
PayloadExpected == state \in PayloadStates => payload_left # 0

\* What each state says about the buffer: no beat before the payload and with
\* the record, no "last" while payload is expected, and one is behind the other.
BufferFollowsState ==
  /\ skid_valid_q => out_valid_q /\ ~out_q.last /\ (skid_q.error => skid_q.last)
  /\ out_valid_q => (out_q.error => out_q.last) /\ ~ended
  /\ state \notin {"PASS_PAYLOAD", "DRAIN", "WAIT_OUTPUT"} => ~out_valid_q
  /\ state = "WAIT_OUTPUT" => out_valid_q
  /\ state \in {"IDLE"} \cup HeaderStates \cup PayloadStates => ~ended
  /\ state = "PASS_PAYLOAD" => /\ out_valid_q => ~out_q.last
                               /\ skid_valid_q => ~skid_q.last

\* No payload is passed on before the header is complete and, where it is
\* looked at, the message type.
NothingSentYet == state \in {"IDLE", "FIRST_PAYLOAD"} \cup HeaderStates => sent = 0

AcceptIsReason == result_valid_q => (result.accept <=> result.reason = REASON_ACCEPT)

ControlInv ==
  /\ TypeOK
  /\ FlagsMatchCount
  /\ StateFollowsFrame
  /\ LengthsLatched
  /\ PayloadExpected
  /\ BufferFollowsState
  /\ NothingSentYet
  /\ AcceptIsReason

-----------------------------------------------------------------------------
(* The registers and the bytes of the frame.  What the frame says is said  *)
(* in terms of the reference model.                                        *)

\* The checks that the first n bytes of frame f complete all pass.
HeaderPasses(f, n) ==
  /\ n >= 14 => Model!U16(f, 12) = 2048
  /\ n >= 15 => Model!At(f, 14) \div 16 = 4 /\ Model!At(f, 14) % 16 = 5
  /\ n >= 18 => 14 + Model!U16(f, 16) <= MAX_LOGICAL_FRAME_BYTES
  /\ n >= 24 => Model!At(f, 23) = 17 /\ Model!U16(f, 20) % 16384 = 0

\* One of them fails, or a length rule at the end of the UDP header.
HeaderFails(f, n) == ~HeaderPasses(f, n) \/ (n >= 42 /\ ~Model!LengthsOk(f))

\* The payload length that a frame with a good header declares, and how much
\* of it is among the first n bytes.
Declared(f) == Model!U16(f, 38) - 8
Arrived(f, n) == IF n - 42 < Declared(f) THEN n - 42 ELSE Declared(f)

\* The filter rules on a frame with a good header.
Wanted(f, cfg) ==
  /\ Model!PortMatches(f, cfg)
  /\ cfg.msg_type_enable => Declared(f) > 0 /\ Model!At(f, 42) = cfg.msg_type
FilterReason(f, cfg) ==
  IF ~Model!PortMatches(f, cfg) THEN REASON_DST_PORT_MISMATCH
  ELSE IF ~Wanted(f, cfg) THEN REASON_MSG_TYPE_MISMATCH ELSE REASON_ACCEPT

MetadataOf(record) ==
  [src_ip |-> record.src_ip, dst_ip |-> record.dst_ip, src_port |-> record.src_port,
   dst_port |-> record.dst_port, payload_len |-> record.payload_len]

\* The field registers hold the bytes of the fields begun.
FieldsFollowFrame ==
  /\ pos \in {13, 17, 21, 35, 37, 39} => hdr.field_hi = Model!At(frame, pos - 1)
  /\ pos \in {27, 31} => hdr.address_shift = <<0, 0, Model!At(frame, pos - 1)>>
  /\ pos \in {28, 32} =>
       hdr.address_shift = <<0, Model!At(frame, pos - 2), Model!At(frame, pos - 1)>>
  /\ pos \in {29, 33} =>
       hdr.address_shift = <<Model!At(frame, pos - 3), Model!At(frame, pos - 2),
                             Model!At(frame, pos - 1)>>
  /\ pos >= 18 => hdr.ip_total_length = Model!U16(frame, 16)
  /\ pos >= 22 => hdr.fragment_field = Model!U16(frame, 20) % 16384
  /\ pos >= 40 => hdr.udp_length = Model!U16(frame, 38)
  /\ pos = 41 => /\ hdr.lengths_ok <=> Model!LengthsOk(frame)
                 /\ hdr.port_match <=> Model!PortMatches(frame, cfg0)

\* In a header state all checks have passed so far, and the result registers
\* hold the bytes of the fields completed.
HeaderFollowsFrame ==
  state \in HeaderStates =>
    /\ header_index = pos /\ payload_left = 0
    /\ pos \in CASE state = "ETH_HEADER" -> 1..13
                 [] state = "IPV4_HEADER" -> 14..33
                 [] state = "UDP_HEADER" -> 34..41
    /\ HeaderPasses(frame, pos)
    /\ MetadataOf(result) = Model!Metadata(frame, pos)
    /\ FieldsFollowFrame

\* In a payload state the header was good, the port matches, and the count is
\* what is still to come; the payload passes on if the message type matches.
PayloadFollowsFrame ==
  state \in PayloadStates =>
    /\ pos >= 42 /\ ~HeaderFails(frame, pos)
    /\ Model!PortMatches(frame, cfg0)
    /\ payload_left = Declared(frame) - (pos - 42)
    /\ state = "FIRST_PAYLOAD" => pos = 42 /\ cfg0.msg_type_enable
    /\ state = "PASS_PAYLOAD" => Wanted(frame, cfg0)

\* While the rest of a frame is drained its reason is known, except that a
\* good header may still turn out to have declared more than arrives.
DrainFollowsFrame ==
  state = "DRAIN" =>
    IF HeaderFails(frame, pos)
      THEN payload_left = 0 /\ frame_reason = Expected.record.reason
      ELSE /\ pos >= 42
           /\ payload_left = Declared(frame) - Arrived(frame, pos)
           /\ frame_reason = FilterReason(frame, cfg0)
           /\ Wanted(frame, cfg0) => payload_left = 0

\* From the end of the header on the result registers hold the metadata of the
\* record, and from the end of the frame on the reason is its reason.
ResultFollowsFrame ==
  /\ state \in PayloadStates \cup {"DRAIN"} \cup ClosedStates =>
       MetadataOf(result) = MetadataOf(Expected.record)
  /\ state = "WAIT_OUTPUT" => frame_reason = Expected.record.reason
  /\ state = "RESULT_HOLD" => result = Expected.record

\* The sequence counter counts the records made since reset.
SequenceFollowsFrames ==
  /\ pos > 0 => started > 0 /\ cfg_q = cfg0
  /\ sequence_counter =
       (IF pos > 0 /\ ~result_valid_q THEN started - 1 ELSE started) % SEQUENCE_MODULUS

\* The beat for payload byte n of the frame in progress.
BeatAt(n) ==
  LET cut == open = 1 /\ pos = 42 + n
      final == n = Declared(frame)
  IN [data |-> Model!At(frame, 41 + n), last |-> final \/ cut, error |-> cut /\ ~final]

BeatsFollowFrame ==
  /\ out_valid_q => out_q = BeatAt(sent + 1)
  /\ skid_valid_q => skid_q = BeatAt(sent + 2)

DataInv ==
  /\ SequenceFollowsFrames
  /\ HeaderFollowsFrame
  /\ PayloadFollowsFrame
  /\ DrainFollowsFrame
  /\ ResultFollowsFrame
  /\ PayloadIsCutThrough
  /\ BeatsFollowFrame

IInv == ControlInv /\ DataInv
=============================================================================
