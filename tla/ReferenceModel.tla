--------------------------- MODULE ReferenceModel ---------------------------
(***************************************************************************)
(* sim/reference_model.py: the whole-frame classifier the testbench        *)
(* compares the hardware with.  It sees a frame that has already ended,    *)
(* walks the checks in the order of docs/spec.md and lets the first one    *)
(* that fails decide the reason.                                           *)
(*                                                                         *)
(* A frame is the first "size" bytes of the sequence "frame".  A 32-bit    *)
(* word is the tuple of its four bytes, most significant first: the        *)
(* program moves addresses about and never computes with them.             *)
(***************************************************************************)
EXTENDS Integers, Sequences, ReasonCodes

CONSTANTS MAX_LOGICAL_FRAME_BYTES,
          SEQUENCE_MODULUS           \* 2^32 in the code

PAYLOAD_OFFSET == 42                 \* 14 Ethernet + 20 IPv4 + 8 UDP

ZeroWord == <<0, 0, 0, 0>>

\* Offsets count from 0, as in the source.
At(frame, offset) == frame[offset + 1]
U16(frame, offset) == At(frame, offset) * 256 + At(frame, offset + 1)
U32(frame, offset) == <<At(frame, offset), At(frame, offset + 1),
                        At(frame, offset + 2), At(frame, offset + 3)>>

NoMetadata == [src_ip |-> ZeroWord, dst_ip |-> ZeroWord,
               src_port |-> 0, dst_port |-> 0, payload_len |-> 0]

\* Metadata fields are reported once they are complete.
Metadata(frame, size) ==
  [src_ip      |-> IF size >= 30 THEN U32(frame, 26) ELSE ZeroWord,
   dst_ip      |-> IF size >= 34 THEN U32(frame, 30) ELSE ZeroWord,
   src_port    |-> IF size >= 36 THEN U16(frame, 34) ELSE 0,
   dst_port    |-> IF size >= 38 THEN U16(frame, 36) ELSE 0,
   payload_len |-> 0]

\* The record for a reason, the metadata and the frame's place in the count.
Record(reason, metadata, sequence) ==
  [accept      |-> reason = REASON_ACCEPT,
   reason      |-> reason,
   src_ip      |-> metadata.src_ip,
   dst_ip      |-> metadata.dst_ip,
   src_port    |-> metadata.src_port,
   dst_port    |-> metadata.dst_port,
   payload_len |-> metadata.payload_len,
   sequence    |-> sequence % SEQUENCE_MODULUS]

\* What the testbench expects of a frame: the record, how many payload bytes
\* are forwarded, and whether the last of them is marked as an error.
Expect(record, forwarded, terminal_error) ==
  [record |-> record, forwarded |-> forwarded, terminal_error |-> terminal_error]

LengthsOk(frame) ==
  /\ U16(frame, 16) >= 28
  /\ U16(frame, 38) >= 8
  /\ U16(frame, 38) = U16(frame, 16) - 20

\* len(frame[PAYLOAD_OFFSET : logical_length]) for a complete UDP header.
Available(frame, size) ==
  LET logical_length == 14 + U16(frame, 16)
  IN (IF size < logical_length THEN size ELSE logical_length) - PAYLOAD_OFFSET

PortMatches(frame, cfg) == U16(frame, 36) = cfg.dst_port
MessageMatches(frame, size, cfg) ==
  ~cfg.msg_type_enable
    \/ (Available(frame, size) > 0 /\ At(frame, PAYLOAD_OFFSET) = cfg.msg_type)

\* Classification of a frame with a complete UDP header and good lengths.
ClassifyDatagram(frame, size, cfg, sequence) ==
  LET payload_length == U16(frame, 38) - 8
      available == Available(frame, size)
      metadata == [Metadata(frame, size) EXCEPT !.payload_len = payload_length]
      port_matches == PortMatches(frame, cfg)
      message_matches == MessageMatches(frame, size, cfg)
      forwarded == IF port_matches /\ message_matches THEN available ELSE 0
      Result(reason) == Record(reason, metadata, sequence)
  IN IF available < payload_length
       THEN Expect(Result(REASON_BAD_LENGTH_OR_TRUNCATED), forwarded, forwarded > 0)
     ELSE IF ~port_matches
       THEN Expect(Result(REASON_DST_PORT_MISMATCH), 0, FALSE)
     ELSE IF ~message_matches
       THEN Expect(Result(REASON_MSG_TYPE_MISMATCH), 0, FALSE)
     ELSE Expect(Result(REASON_ACCEPT), available, FALSE)

classify_frame(frame, size, cfg, sequence) ==
  LET Bare(reason) == Expect(Record(reason, NoMetadata, sequence), 0, FALSE)
      WithMetadata(reason) ==
        Expect(Record(reason, Metadata(frame, size), sequence), 0, FALSE)
  IN IF size < 14 THEN Bare(REASON_BAD_LENGTH_OR_TRUNCATED)
     ELSE IF U16(frame, 12) # 2048 THEN Bare(REASON_NON_IPV4)
     ELSE IF size < 15 THEN Bare(REASON_BAD_LENGTH_OR_TRUNCATED)
     ELSE IF At(frame, 14) \div 16 # 4 \/ At(frame, 14) % 16 # 5
       THEN Bare(REASON_BAD_IPV4_HEADER)
     ELSE IF size < 18 THEN Bare(REASON_BAD_LENGTH_OR_TRUNCATED)
     ELSE IF 14 + U16(frame, 16) > MAX_LOGICAL_FRAME_BYTES
       THEN Bare(REASON_FRAME_TOO_LONG)
     ELSE IF size < 24 THEN Bare(REASON_BAD_LENGTH_OR_TRUNCATED)
     ELSE IF At(frame, 23) # 17 THEN Bare(REASON_NON_UDP)
     ELSE IF U16(frame, 20) % 16384 # 0 THEN Bare(REASON_FRAGMENTED)
     ELSE IF size < PAYLOAD_OFFSET \/ ~LengthsOk(frame)
       THEN WithMetadata(REASON_BAD_LENGTH_OR_TRUNCATED)
     ELSE ClassifyDatagram(frame, size, cfg, sequence)
=============================================================================
