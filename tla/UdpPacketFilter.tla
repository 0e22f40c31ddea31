-------------------------- MODULE UdpPacketFilter --------------------------
(***************************************************************************)
(* rtl/udp_packet_filter.sv: the parser state machine, its field and       *)
(* result registers, and the payload buffer it writes to.                  *)
(*                                                                         *)
(* One step is one rising clock edge.  Clock(in) is an edge with rst_n     *)
(* high; "in" is the value of every input port in that cycle:              *)
(*   in.tvalid, in.tdata, in.tlast     the byte stream                     *)
(*   in.cfg                            the cfg_* ports                     *)
(*   in.m_ready, in.result_ready       readiness of the two consumers      *)
(* Reset is an edge with rst_n low.                                        *)
(*                                                                         *)
(* A 16-bit register is a number.  A 24- or 32-bit one that only moves     *)
(* address bytes about is the tuple of its bytes.                          *)
(***************************************************************************)
EXTENDS Integers, Sequences, ReasonCodes

CONSTANTS MAX_LOGICAL_FRAME_BYTES,
          SEQUENCE_MODULUS         \* values of the sequence counter: 2^32

\* udp_packet_filter.sv:498: the initial block stops the build below 42.
ASSUME MaxLogicalAssumption == MAX_LOGICAL_FRAME_BYTES \in Nat /\ MAX_LOGICAL_FRAME_BYTES >= 42
ASSUME SequenceAssumption == SEQUENCE_MODULUS \in Nat \ {0}

Unsigned(values) == 0..values - 1
Byte   == Unsigned(256)
Word6  == Unsigned(64)
Word14 == Unsigned(16384)
Word16 == Unsigned(65536)
SequenceNumber == Unsigned(SEQUENCE_MODULUS)
Word24 == Byte \X Byte \X Byte
Word32 == Byte \X Byte \X Byte \X Byte
ZeroWord == <<0, 0, 0, 0>>

\* Compared with a constant instead of adding 14 at run time.
MAX_IP_TOTAL_LENGTH == MAX_LOGICAL_FRAME_BYTES - 14

VARIABLES state, header_index,
          payload_left, payload_one, payload_many,
          cfg_q,             \* cfg_* as sampled with the first byte
          hdr,               \* the field registers
          frame_reason, sequence_counter,
          result_valid_q,
          result,            \* the result_* registers
          out_q, skid_q, out_valid_q, skid_valid_q   \* output_buffer

output_buffer == INSTANCE StreamByteBuffer

payloadVars == <<payload_left, payload_one, payload_many>>
parserVars == <<state, header_index, payload_left, payload_one, payload_many,
                cfg_q, hdr, frame_reason, sequence_counter, result_valid_q, result>>
filterVars == <<parserVars, out_q, skid_q, out_valid_q, skid_valid_q>>

States == {"IDLE", "ETH_HEADER", "IPV4_HEADER", "UDP_HEADER", "FIRST_PAYLOAD",
           "PASS_PAYLOAD", "DRAIN", "WAIT_OUTPUT", "RESULT_HOLD"}

Config == [dst_port : Word16, msg_type_enable : BOOLEAN, msg_type : Byte]
ResetConfig == [dst_port |-> 0, msg_type_enable |-> FALSE, msg_type |-> 0]

\* fragment_field keeps MF and the offset, 14 bits.
Fields == [field_hi : Byte, ip_total_length : Word16, fragment_field : Word14,
           udp_length : Word16, lengths_ok : BOOLEAN, port_match : BOOLEAN,
           address_shift : Word24]
ResetFields == [field_hi |-> 0, ip_total_length |-> 0, fragment_field |-> 0,
                udp_length |-> 0, lengths_ok |-> FALSE, port_match |-> FALSE,
                address_shift |-> <<0, 0, 0>>]

Result == [accept : BOOLEAN, reason : Reasons, src_ip : Word32, dst_ip : Word32,
           src_port : Word16, dst_port : Word16, payload_len : Word16,
           sequence : SequenceNumber]
ResetResult == [accept |-> FALSE, reason |-> REASON_ACCEPT,
                src_ip |-> ZeroWord, dst_ip |-> ZeroWord,
                src_port |-> 0, dst_port |-> 0, payload_len |-> 0, sequence |-> 0]

Input == [tvalid : BOOLEAN, tdata : Byte, tlast : BOOLEAN, cfg : Config,
          m_ready : BOOLEAN, result_ready : BOOLEAN]

-----------------------------------------------------------------------------
(* Ports: the always_comb block, with rst_n high. *)

\* Fault: the next frame is let in while a record is pending.
ReadyWhileHolding ==
  \/ state \in {"IDLE", "ETH_HEADER", "IPV4_HEADER", "UDP_HEADER", "DRAIN", "RESULT_HOLD"}
  \/ state \in {"FIRST_PAYLOAD", "PASS_PAYLOAD"} /\ output_buffer!s_ready

\* Fault: readiness of a one-register buffer.
ReadyWhenEmpty ==
  \/ state \in {"IDLE", "ETH_HEADER", "IPV4_HEADER", "UDP_HEADER", "DRAIN"}
  \/ state \in {"FIRST_PAYLOAD", "PASS_PAYLOAD"} /\ ~output_buffer!m_valid

s_axis_tready ==
  \/ state \in {"IDLE", "ETH_HEADER", "IPV4_HEADER", "UDP_HEADER", "DRAIN"}
  \/ state \in {"FIRST_PAYLOAD", "PASS_PAYLOAD"} /\ output_buffer!s_ready

input_handshake(in) == in.tvalid /\ s_axis_tready

\* Fault: the first payload byte is written before it is compared.
WritesUnchecked(in) == in.tvalid /\ state \in {"FIRST_PAYLOAD", "PASS_PAYLOAD"}

\* A first payload byte is written only if it matches the message type.
buffer_s_valid(in) ==
  /\ in.tvalid
  /\ \/ state = "PASS_PAYLOAD"
     \/ state = "FIRST_PAYLOAD" /\ in.tdata = cfg_q.msg_type

\* Fault: "last" only where the frame ends, not where the payload does.
BeatLastWithFrame(in) == [data  |-> in.tdata,
                          last  |-> in.tlast,
                          error |-> in.tlast /\ payload_many]

\* Fault: "error" while payload is outstanding, whether or not the frame ends.
BeatErrorEarly(in) == [data  |-> in.tdata,
                       last  |-> payload_one \/ in.tlast,
                       error |-> payload_many]

BufferBeat(in) == [data  |-> in.tdata,
                   last  |-> payload_one \/ in.tlast,
                   error |-> in.tlast /\ payload_many]

OutputHandshake(in) == output_buffer!m_valid /\ in.m_ready
ResultHandshake(in) == result_valid_q /\ in.result_ready

-----------------------------------------------------------------------------
(* The tasks of the always_ff block.  "fields" is the result record with   *)
(* the fields this byte completes already in place.                        *)

create_descriptor(fields, reason) ==
  /\ result' = [fields EXCEPT !.accept = (reason = REASON_ACCEPT),
                              !.reason = reason,
                              !.sequence = sequence_counter]
  /\ sequence_counter' = (sequence_counter + 1) % SEQUENCE_MODULUS
  /\ result_valid_q' = TRUE
  /\ state' = "RESULT_HOLD"

\* The frame goes on in state "next".
Continue(fields, next) ==
  /\ result' = fields
  /\ state' = next
  /\ UNCHANGED <<sequence_counter, result_valid_q>>

\* The frame passes what this byte decides, but must not end here.
Advance(in, fields, next) ==
  /\ UNCHANGED frame_reason
  /\ IF in.tlast THEN create_descriptor(fields, REASON_BAD_LENGTH_OR_TRUNCATED)
                 ELSE Continue(fields, next)

\* This byte decides the reason; the rest of the frame is drained.
Settle(in, fields, reason) ==
  IF in.tlast THEN create_descriptor(fields, reason) /\ UNCHANGED frame_reason
              ELSE Continue(fields, "DRAIN") /\ frame_reason' = reason

\* With the count still including the byte that is transferring now.
close_reason(pending) ==
  IF payload_many THEN REASON_BAD_LENGTH_OR_TRUNCATED ELSE pending

\* Fault: "more than one left" is also raised for the last byte.
LoadsManyAtOne(count) ==
  /\ payload_left' = count
  /\ payload_one' = (count = 1)
  /\ payload_many' = (count >= 1)

load_payload_count(count) ==
  /\ payload_left' = count
  /\ payload_one' = (count = 1)
  /\ payload_many' = (count > 1)

\* Fault: padding after the payload is counted below zero.
CountsPadding == load_payload_count(payload_left - 1)

count_payload_byte ==
  IF payload_left # 0 THEN load_payload_count(payload_left - 1)
                      ELSE UNCHANGED payloadVars

\* Fault: the record does not wait for the payload to leave.
ReportsAtOnce(in, reason) == frame_reason' = reason /\ create_descriptor(result, reason)

\* Fault: a frame that forwarded nothing waits for the buffer too.
AlwaysWaits(in, reason) == frame_reason' = reason /\ Continue(result, "WAIT_OUTPUT")

close_or_wait(in, reason) ==
  /\ frame_reason' = reason
  /\ IF output_buffer!drained(in.m_ready)
       THEN create_descriptor(result, reason)
       ELSE Continue(result, "WAIT_OUTPUT")

-----------------------------------------------------------------------------
(* The states of the parser.  Each action is an edge on which the parser   *)
(* does something; NoHandshake is every other edge.                        *)

\* {field_hi, s_axis_tdata}
Word(in) == hdr.field_hi * 256 + in.tdata

\* Fault: the fields of the frame before stay in the result registers.
IdleKeepsFields(in) ==
  /\ state = "IDLE" /\ input_handshake(in)
  /\ cfg_q' = in.cfg
  /\ header_index' = 1
  /\ load_payload_count(0)
  /\ hdr' = [hdr EXCEPT !.address_shift = <<0, 0, 0>>]
  /\ frame_reason' = REASON_ACCEPT
  /\ IF in.tlast THEN create_descriptor(result, REASON_BAD_LENGTH_OR_TRUNCATED)
                 ELSE Continue(result, "ETH_HEADER")

Idle(in) ==
  /\ state = "IDLE" /\ input_handshake(in)
  /\ cfg_q' = in.cfg
  /\ header_index' = 1
  /\ load_payload_count(0)
  /\ hdr' = [hdr EXCEPT !.address_shift = <<0, 0, 0>>]
  /\ frame_reason' = REASON_ACCEPT
  /\ LET cleared == [ResetResult EXCEPT !.sequence = result.sequence]
     IN IF in.tlast THEN create_descriptor(cleared, REASON_BAD_LENGTH_OR_TRUNCATED)
                    ELSE Continue(cleared, "ETH_HEADER")

EthHeader(in) ==
  /\ state = "ETH_HEADER" /\ input_handshake(in)
  /\ header_index' = (header_index + 1) % 64
  /\ hdr' = [hdr EXCEPT !.field_hi = IF header_index = 12 THEN in.tdata ELSE @]
  /\ \/ header_index = 13 /\ Word(in) # 2048 /\ Settle(in, result, REASON_NON_IPV4)
     \/ header_index = 13 /\ Word(in) = 2048 /\ Advance(in, result, "IPV4_HEADER")
     \/ header_index # 13 /\ Advance(in, result, "ETH_HEADER")
  /\ UNCHANGED <<cfg_q, payloadVars>>

\* {address_shift[15:0], s_axis_tdata}
Shifted(in) == <<hdr.address_shift[2], hdr.address_shift[3], in.tdata>>
\* {address_shift, s_axis_tdata}
Address(in) == <<hdr.address_shift[1], hdr.address_shift[2], hdr.address_shift[3],
                 in.tdata>>

Ipv4Fields(in) ==
  CASE header_index \in {16, 20} -> [hdr EXCEPT !.field_hi = in.tdata]
    [] header_index = 17 -> [hdr EXCEPT !.ip_total_length = Word(in)]
    [] header_index = 21 ->
         [hdr EXCEPT !.fragment_field = (hdr.field_hi % 64) * 256 + in.tdata]
    [] header_index \in {26, 30} -> [hdr EXCEPT !.address_shift = <<0, 0, in.tdata>>]
    [] header_index \in {27, 28, 31, 32} -> [hdr EXCEPT !.address_shift = Shifted(in)]
    [] header_index \in {29, 33} -> [hdr EXCEPT !.address_shift = <<0, 0, 0>>]
    [] OTHER -> hdr

Ipv4Result(in) ==
  CASE header_index = 29 -> [result EXCEPT !.src_ip = Address(in)]
    [] header_index = 33 -> [result EXCEPT !.dst_ip = Address(in)]
    [] OTHER -> result

BadVersion(in)  == header_index = 14 /\ (in.tdata \div 16 # 4 \/ in.tdata % 16 # 5)

\* Fault: a frame of exactly the maximum length is too long.
TooLongAtLimit(in) == header_index = 17 /\ Word(in) >= MAX_IP_TOTAL_LENGTH

TooLong(in)     == header_index = 17 /\ Word(in) > MAX_IP_TOTAL_LENGTH
NotUdp(in)      == header_index = 23 /\ in.tdata # 17
Fragment(in)    == header_index = 23 /\ in.tdata = 17 /\ hdr.fragment_field # 0

Ipv4Header(in) ==
  /\ state = "IPV4_HEADER" /\ input_handshake(in)
  /\ header_index' = (header_index + 1) % 64
  /\ hdr' = Ipv4Fields(in)
  /\ \/ BadVersion(in) /\ Settle(in, result, REASON_BAD_IPV4_HEADER)
     \/ TooLong(in) /\ Settle(in, result, REASON_FRAME_TOO_LONG)
     \/ NotUdp(in) /\ Settle(in, result, REASON_NON_UDP)
     \/ Fragment(in) /\ Settle(in, result, REASON_FRAGMENTED)
     \/ /\ ~(BadVersion(in) \/ TooLong(in) \/ NotUdp(in) \/ Fragment(in))
        /\ Advance(in, Ipv4Result(in),
                   IF header_index = 33 THEN "UDP_HEADER" ELSE "IPV4_HEADER")
  /\ UNCHANGED <<cfg_q, payloadVars>>

\* The length rules and the port match are decided at byte 40, used at 41.
LengthRules == /\ hdr.ip_total_length >= 28
               /\ hdr.udp_length >= 8
               /\ hdr.udp_length = (hdr.ip_total_length - 20) % 65536
PortRule == result.dst_port = cfg_q.dst_port

UdpFields(in) ==
  CASE header_index \in {34, 36, 38} -> [hdr EXCEPT !.field_hi = in.tdata]
    [] header_index = 39 -> [hdr EXCEPT !.udp_length = Word(in)]
    [] header_index = 40 ->
         [hdr EXCEPT !.lengths_ok = LengthRules, !.port_match = PortRule]
    [] OTHER -> hdr

UdpResult(in) ==
  CASE header_index = 35 -> [result EXCEPT !.src_port = Word(in)]
    [] header_index = 37 -> [result EXCEPT !.dst_port = Word(in)]
    [] OTHER -> result

UdpHeader(in) ==
  /\ state = "UDP_HEADER" /\ input_handshake(in) /\ header_index # 41
  /\ header_index' = (header_index + 1) % 64
  /\ hdr' = UdpFields(in)
  /\ Advance(in, UdpResult(in), "UDP_HEADER")
  /\ UNCHANGED <<cfg_q, payloadVars>>

\* Byte 41 with lengths that break the rules.
UdpBadLengths(in) ==
  /\ state = "UDP_HEADER" /\ input_handshake(in) /\ header_index = 41
  /\ ~hdr.lengths_ok
  /\ header_index' = (header_index + 1) % 64
  /\ Settle(in, result, REASON_BAD_LENGTH_OR_TRUNCATED)
  /\ UNCHANGED <<cfg_q, hdr, payloadVars>>

\* Byte 41 with good lengths: load the count and pick the payload state.
UdpHeaderEnd(in) ==
  LET payload_length == (hdr.udp_length - 8) % 65536
      fields == [result EXCEPT !.payload_len = payload_length]
      first == IF cfg_q.msg_type_enable THEN "FIRST_PAYLOAD" ELSE "PASS_PAYLOAD"
      empty == IF cfg_q.msg_type_enable THEN REASON_MSG_TYPE_MISMATCH
                                        ELSE REASON_ACCEPT
  IN /\ state = "UDP_HEADER" /\ input_handshake(in) /\ header_index = 41
     /\ hdr.lengths_ok
     /\ header_index' = (header_index + 1) % 64
     /\ load_payload_count(payload_length)
     /\ \/ /\ hdr.udp_length > 8 /\ in.tlast
           /\ create_descriptor(fields, REASON_BAD_LENGTH_OR_TRUNCATED)
           /\ UNCHANGED frame_reason
        \/ /\ ~(hdr.udp_length > 8 /\ in.tlast) /\ ~hdr.port_match
           /\ Settle(in, fields, REASON_DST_PORT_MISMATCH)
        \/ /\ hdr.udp_length = 8 /\ hdr.port_match
           /\ frame_reason' = empty
           /\ IF in.tlast THEN create_descriptor(fields, empty)
                          ELSE Continue(fields, "DRAIN")
        \/ /\ hdr.udp_length # 8 /\ ~(hdr.udp_length > 8 /\ in.tlast) /\ hdr.port_match
           /\ Continue(fields, first)
           /\ UNCHANGED frame_reason
     /\ UNCHANGED <<cfg_q, hdr>>

\* Fault: the payload goes on after its last declared byte.
ForwardKeepsOn(in) ==
  \/ /\ in.tlast
     /\ frame_reason' = close_reason(REASON_ACCEPT)
     /\ Continue(result, "WAIT_OUTPUT")
  \/ /\ ~in.tlast
     /\ UNCHANGED frame_reason
     /\ Continue(result, "PASS_PAYLOAD")

\* A payload byte goes to the buffer; "tlast" or the last declared byte ends it.
Forward(in) ==
  \/ /\ in.tlast
     /\ frame_reason' = close_reason(REASON_ACCEPT)
     /\ Continue(result, "WAIT_OUTPUT")
  \/ /\ ~in.tlast /\ payload_one
     /\ frame_reason' = REASON_ACCEPT
     /\ Continue(result, "DRAIN")
  \/ /\ ~in.tlast /\ ~payload_one
     /\ UNCHANGED frame_reason
     /\ Continue(result, "PASS_PAYLOAD")

FirstPayload(in) ==
  /\ state = "FIRST_PAYLOAD" /\ input_handshake(in)
  /\ count_payload_byte
  /\ \/ in.tdata = cfg_q.msg_type /\ Forward(in)
     \/ /\ in.tdata # cfg_q.msg_type
        /\ IF in.tlast
             THEN /\ create_descriptor(result, close_reason(REASON_MSG_TYPE_MISMATCH))
                  /\ UNCHANGED frame_reason
             ELSE /\ Continue(result, "DRAIN")
                  /\ frame_reason' = REASON_MSG_TYPE_MISMATCH
  /\ UNCHANGED <<header_index, cfg_q, hdr>>

PassPayload(in) ==
  /\ state = "PASS_PAYLOAD" /\ input_handshake(in)
  /\ count_payload_byte
  /\ Forward(in)
  /\ UNCHANGED <<header_index, cfg_q, hdr>>

\* Bytes after a reject or after the payload are dropped, and still counted.
Drain(in) ==
  /\ state = "DRAIN" /\ input_handshake(in)
  /\ count_payload_byte
  /\ \/ in.tlast /\ close_or_wait(in, close_reason(frame_reason))
     \/ ~in.tlast /\ Continue(result, "DRAIN") /\ UNCHANGED frame_reason
  /\ UNCHANGED <<header_index, cfg_q, hdr>>

\* Fault: the buffer is only looked at with a byte, and none is let in.
WaitOutputWithByte(in) ==
  /\ state = "WAIT_OUTPUT" /\ input_handshake(in) /\ output_buffer!drained(in.m_ready)
  /\ create_descriptor(result, frame_reason)
  /\ UNCHANGED <<header_index, payloadVars, cfg_q, hdr, frame_reason>>

WaitOutput(in) ==
  /\ state = "WAIT_OUTPUT" /\ output_buffer!drained(in.m_ready)
  /\ create_descriptor(result, frame_reason)
  /\ UNCHANGED <<header_index, payloadVars, cfg_q, hdr, frame_reason>>

\* Fault: the record is dropped if it is not taken at once.
ResultHoldGivesUp(in) ==
  /\ state = "RESULT_HOLD"
  /\ result_valid_q' = FALSE
  /\ state' = "IDLE"
  /\ UNCHANGED <<header_index, payloadVars, cfg_q, hdr, frame_reason,
                 sequence_counter, result>>

ResultHold(in) ==
  /\ state = "RESULT_HOLD" /\ ResultHandshake(in)
  /\ result_valid_q' = FALSE
  /\ state' = "IDLE"
  /\ UNCHANGED <<header_index, payloadVars, cfg_q, hdr, frame_reason,
                 sequence_counter, result>>

\* No byte transfers and the parser waits: only the buffer moves.
NoHandshake(in) ==
  /\ \/ state \notin {"WAIT_OUTPUT", "RESULT_HOLD"} /\ ~input_handshake(in)
     \/ state = "WAIT_OUTPUT" /\ ~output_buffer!drained(in.m_ready)
     \/ state = "RESULT_HOLD" /\ ~ResultHandshake(in)
  /\ UNCHANGED parserVars

-----------------------------------------------------------------------------

Parser(in) ==
  \/ Idle(in) \/ EthHeader(in) \/ Ipv4Header(in)
  \/ UdpHeader(in) \/ UdpBadLengths(in) \/ UdpHeaderEnd(in)
  \/ FirstPayload(in) \/ PassPayload(in) \/ Drain(in)
  \/ WaitOutput(in) \/ ResultHold(in) \/ NoHandshake(in)

\* A rising edge with rst_n high: both always_ff blocks.
Clock(in) ==
  /\ Parser(in)
  /\ output_buffer!Edge(buffer_s_valid(in), BufferBeat(in), in.m_ready)

FilterInit ==
  /\ state = "IDLE" /\ header_index = 0
  /\ payload_left = 0 /\ payload_one = FALSE /\ payload_many = FALSE
  /\ cfg_q = ResetConfig /\ hdr = ResetFields
  /\ frame_reason = REASON_ACCEPT /\ sequence_counter = 0
  /\ result_valid_q = FALSE /\ result = ResetResult
  /\ output_buffer!BufferInit

\* A rising edge with rst_n low.
ResetEdge ==
  /\ state' = "IDLE" /\ header_index' = 0
  /\ load_payload_count(0)
  /\ cfg_q' = ResetConfig /\ hdr' = ResetFields
  /\ frame_reason' = REASON_ACCEPT /\ sequence_counter' = 0
  /\ result_valid_q' = FALSE /\ result' = ResetResult
  /\ output_buffer!ClearEdge

FilterTypeOK ==
  /\ state \in States /\ header_index \in Word6
  /\ payload_left \in Word16
  /\ payload_one \in BOOLEAN /\ payload_many \in BOOLEAN
  /\ cfg_q \in Config /\ hdr \in Fields
  /\ frame_reason \in Reasons /\ sequence_counter \in SequenceNumber
  /\ result_valid_q \in BOOLEAN /\ result \in Result
  /\ output_buffer!BufferTypeOK
=============================================================================
