---------------------------- MODULE FilterProofs ----------------------------
(***************************************************************************)
(* Theorems about udp_packet_filter in its environment, for every length   *)
(* limit, every set of frames of any length, every configuration and any   *)
(* behaviour of the two consumers.                                         *)
(*                                                                         *)
(* Control: Moves says where an edge takes the parser, from which the      *)
(* parts of ControlInv follow one by one, and from their conjunction the   *)
(* safety properties of FilterHarness that are not about the bytes.        *)
(*                                                                         *)
(* Data: the filter computes, byte by byte and without looking back, what  *)
(* the reference model computes from a whole frame: the record and the     *)
(* payload beats agree, for every frame of any length that may end at any  *)
(* byte, every configuration, and any number of frames in a row.  The      *)
(* reference model falls into three cases (a header that has passed so     *)
(* far, one that has failed, and a complete one), and what one more byte   *)
(* does to each case is what the parser does with it.                      *)
(*                                                                         *)
(* The last two sections use the invariant for the timing of the filter    *)
(* between consumers that are always ready, and for the testbench: none of *)
(* the assertions of run_frame can fail.                                   *)
(***************************************************************************)
EXTENDS FilterInvariant, FilterRate, RtlTestbench, TLAPS

-----------------------------------------------------------------------------
(* Type correctness of udp_packet_filter: whatever the input ports show on *)
(* an edge, every register keeps its width.  One lemma per register group  *)
(* and per parser state; ClockTypeCorrect and ResetTypeCorrect gather them.*)

(* The ranges of the registers as inequalities, the form arithmetic needs. *)

\* Membership of a register of any width, without enumerating its values.
LEMMA Range == \A N \in Int : \A n : n \in Unsigned(N) <=> n \in Int /\ 0 <= n /\ n < N
BY DEF Unsigned

\* Two bytes make a 16-bit word, and six bits and a byte a 14-bit one.
LEMMA TwoBytes ==
  ASSUME NEW h \in Byte, NEW d \in Byte
  PROVE  h * 256 + d \in Word16 /\ (h % 64) * 256 + d \in Word14
BY Range, SMT DEF Byte, Word14, Word16

\* A count that is not zero can go down by one.
LEMMA Decrement ==
  ASSUME NEW count \in Word16, count # 0
  PROVE  count - 1 \in Word16
BY Range, SMT DEF Word16

\* A 16-bit word is an integer.
LEMMA Word16Integer ==
  ASSUME NEW n \in Word16
  PROVE  n \in Int /\ n - 8 \in Int
BY Range, SMT DEF Word16

\* Reduction modulo 2^w gives a value of w bits.
LEMMA Wraps ==
  ASSUME NEW n \in Int
  PROVE  n % 64 \in Word6 /\ n % 65536 \in Word16
BY Range, SMT DEF Word6, Word16

\* The reset values of the numeric registers.
LEMMA Zeros ==
  /\ 0 \in Byte /\ 0 \in Word6 /\ 1 \in Word6 /\ 0 \in Word14 /\ 0 \in Word16
  /\ 0 \in SequenceNumber
BY Range, SequenceAssumption, SMT DEF Byte, Word6, Word14, Word16, SequenceNumber

\* Each reason constant is a reason,
LEMMA ReasonTypes ==
  /\ REASON_ACCEPT \in Reasons /\ REASON_NON_IPV4 \in Reasons
  /\ REASON_BAD_IPV4_HEADER \in Reasons /\ REASON_NON_UDP \in Reasons
  /\ REASON_FRAGMENTED \in Reasons /\ REASON_BAD_LENGTH_OR_TRUNCATED \in Reasons
  /\ REASON_DST_PORT_MISMATCH \in Reasons /\ REASON_MSG_TYPE_MISMATCH \in Reasons
  /\ REASON_FRAME_TOO_LONG \in Reasons
BY DEF Reasons

\* and each state constant a state.
LEMMA StateTypes ==
  /\ "IDLE" \in States /\ "ETH_HEADER" \in States /\ "IPV4_HEADER" \in States
  /\ "UDP_HEADER" \in States /\ "FIRST_PAYLOAD" \in States /\ "PASS_PAYLOAD" \in States
  /\ "DRAIN" \in States /\ "WAIT_OUTPUT" \in States /\ "RESULT_HOLD" \in States
BY DEF States

\* The 16-bit field that ends with this byte.
LEMMA WordType ==
  ASSUME FilterTypeOK, NEW in \in Input
  PROVE  Word(in) \in Word16
<1>1. hdr.field_hi \in Byte /\ in.tdata \in Byte
  BY DEF FilterTypeOK, Fields, Input
<1> QED
  BY <1>1, TwoBytes DEF Word

\* The sequence counter wraps within its width.
LEMMA NextSequenceType ==
  ASSUME FilterTypeOK
  PROVE  (sequence_counter + 1) % SEQUENCE_MODULUS \in SequenceNumber
BY Range, SequenceAssumption, SMT DEF FilterTypeOK, SequenceNumber

\* The field registers keep their types over an IPv4 header byte,
LEMMA Ipv4FieldsType ==
  ASSUME FilterTypeOK, NEW in \in Input
  PROVE  Ipv4Fields(in) \in Fields
<1>1. hdr \in Fields /\ in.tdata \in Byte
  BY DEF FilterTypeOK, Input
<1>a. hdr.field_hi \in Byte /\ hdr.address_shift \in Word24
  BY <1>1 DEF Fields
<1>2. Word(in) \in Word16
  BY WordType
<1>3. (hdr.field_hi % 64) * 256 + in.tdata \in Word14
  BY <1>1, <1>a, TwoBytes
<1>4. <<0, 0, in.tdata>> \in Word24
  BY <1>1, Zeros DEF Word24
<1>5. Shifted(in) \in Word24
  BY <1>1, <1>a DEF Shifted, Word24
<1>6. <<0, 0, 0>> \in Word24
  BY Zeros DEF Word24
<1> QED
  <2>1. \A d \in Byte : [hdr EXCEPT !.field_hi = d] \in Fields
    BY <1>1 DEF Fields
  <2>2. \A w \in Word16 : [hdr EXCEPT !.ip_total_length = w] \in Fields
    BY <1>1 DEF Fields
  <2>3. \A w \in Word14 : [hdr EXCEPT !.fragment_field = w] \in Fields
    BY <1>1 DEF Fields
  <2>4. \A t \in Word24 : [hdr EXCEPT !.address_shift = t] \in Fields
    BY <1>1 DEF Fields
  <2> QED
    BY <1>1, <1>2, <1>3, <1>4, <1>5, <1>6, <2>1, <2>2, <2>3, <2>4 DEF Ipv4Fields

\* and so does the result record.
LEMMA Ipv4ResultType ==
  ASSUME FilterTypeOK, NEW in \in Input
  PROVE  Ipv4Result(in) \in Result
<1>1. result \in Result /\ in.tdata \in Byte /\ hdr.address_shift \in Word24
  BY DEF FilterTypeOK, Input, Fields
<1>2. Address(in) \in Word32
  BY <1>1 DEF Address, Word24, Word32
<1> QED
  BY <1>1, <1>2 DEF Ipv4Result, Result

\* The field registers keep their types over a UDP header byte,
LEMMA UdpFieldsType ==
  ASSUME FilterTypeOK, NEW in \in Input
  PROVE  UdpFields(in) \in Fields
<1>1. hdr \in Fields /\ in.tdata \in Byte
  BY DEF FilterTypeOK, Input
<1>2. Word(in) \in Word16
  BY WordType
<1> QED
  <2>1. \A d \in Byte : [hdr EXCEPT !.field_hi = d] \in Fields
    BY <1>1 DEF Fields
  <2>2. \A w \in Word16 : [hdr EXCEPT !.udp_length = w] \in Fields
    BY <1>1 DEF Fields
  <2>3. \A a, b \in BOOLEAN : [hdr EXCEPT !.lengths_ok = a, !.port_match = b] \in Fields
    BY <1>1 DEF Fields
  <2> QED
    <3>1. CASE header_index = 40
      <4>1. LengthRules \in BOOLEAN /\ PortRule \in BOOLEAN
        BY DEF LengthRules, PortRule
      <4>2. UdpFields(in) = [hdr EXCEPT !.lengths_ok = LengthRules, !.port_match = PortRule]
        BY <3>1 DEF UdpFields
      <4> QED
        BY <2>3, <4>1, <4>2
    <3>2. CASE header_index # 40
      BY <1>1, <1>2, <2>1, <2>2, <3>2 DEF UdpFields
    <3> QED
      BY <3>1, <3>2

\* and so does the result record.
LEMMA UdpResultType ==
  ASSUME FilterTypeOK, NEW in \in Input
  PROVE  UdpResult(in) \in Result
<1>1. result \in Result
  BY DEF FilterTypeOK
<1>2. Word(in) \in Word16
  BY WordType
<1> QED
  BY <1>1, <1>2 DEF UdpResult, Result

\* The reset values of all registers.
LEMMA ZeroTypes ==
  /\ 0 \in Word6 /\ 0 \in Word16 /\ 0 \in SequenceNumber
  /\ ResetFields \in Fields /\ ResetResult \in Result /\ ResetConfig \in Config
<1>1. 0 \in Byte /\ 0 \in Word6 /\ 0 \in Word14 /\ 0 \in Word16 /\ 0 \in SequenceNumber
  BY Zeros
<1>2. <<0, 0, 0>> \in Word24 /\ ZeroWord \in Word32
  BY <1>1 DEF Word24, Word32, ZeroWord
<1>3. ResetFields \in Fields
  BY <1>1, <1>2 DEF ResetFields, Fields
<1>4. ResetResult \in Result
  BY <1>1, <1>2, ReasonTypes DEF ResetResult, Result
<1>5. ResetConfig \in Config
  BY <1>1 DEF ResetConfig, Config
<1> QED
  BY <1>1, <1>3, <1>4, <1>5

\* What the first byte of a frame clears keeps its type.
LEMMA EmptyFieldsType ==
  ASSUME FilterTypeOK
  PROVE  /\ [hdr EXCEPT !.address_shift = <<0, 0, 0>>] \in Fields
         /\ [ResetResult EXCEPT !.sequence = result.sequence] \in Result
<1>1. hdr \in Fields /\ result.sequence \in SequenceNumber
  BY DEF FilterTypeOK, Result
<1>2. <<0, 0, 0>> \in Word24
  BY Zeros DEF Word24
<1>3. [hdr EXCEPT !.address_shift = <<0, 0, 0>>] \in Fields
  BY <1>1, <1>2 DEF Fields
<1>4. [ResetResult EXCEPT !.sequence = result.sequence] \in Result
  BY <1>1, ZeroTypes DEF Result
<1> QED
  BY <1>3, <1>4

\* What a byte may do to the state and the result registers; a record that
\* appears says "accept" with the reason of that name.
OutcomeType == /\ state' \in States /\ result' \in Result
               /\ sequence_counter' \in SequenceNumber
               /\ result_valid_q' \in BOOLEAN
               /\ result_valid_q' /\ ~result_valid_q =>
                    (result'.accept <=> result'.reason = REASON_ACCEPT)

\* A record that appears is well formed.
LEMMA DescriptorType ==
  ASSUME FilterTypeOK, NEW fields \in Result, NEW reason \in Reasons,
         create_descriptor(fields, reason)
  PROVE  OutcomeType
<1>1. sequence_counter \in SequenceNumber
  BY DEF FilterTypeOK
<1>2. result' \in Result
  BY <1>1 DEF create_descriptor, Result
<1>3. result'.accept <=> result'.reason = REASON_ACCEPT
  BY DEF create_descriptor, Result
<1> QED
  BY <1>2, <1>3, NextSequenceType DEF create_descriptor, OutcomeType, States

\* A frame that goes on shows no new record.
LEMMA ContinueType ==
  ASSUME FilterTypeOK, NEW fields \in Result, NEW next \in States, Continue(fields, next)
  PROVE  OutcomeType
BY DEF Continue, OutcomeType, FilterTypeOK

\* The two outcomes of a byte that decides nothing.
LEMMA AdvanceType ==
  ASSUME FilterTypeOK, NEW in, NEW fields \in Result, NEW next \in States,
         Advance(in, fields, next)
  PROVE  OutcomeType /\ frame_reason' \in Reasons
<1>1. REASON_BAD_LENGTH_OR_TRUNCATED \in Reasons
  BY DEF Reasons
<1> QED
  BY <1>1, DescriptorType, ContinueType DEF Advance, FilterTypeOK

\* The two outcomes of a byte that decides the reason.
LEMMA SettleType ==
  ASSUME FilterTypeOK, NEW in, NEW fields \in Result, NEW reason \in Reasons,
         Settle(in, fields, reason)
  PROVE  OutcomeType /\ frame_reason' \in Reasons
<1>1. "DRAIN" \in States
  BY DEF States
<1> QED
  BY <1>1, DescriptorType, ContinueType DEF Settle, FilterTypeOK

\* The payload counter registers.
PayloadType == /\ payload_left' \in Word16
               /\ payload_one' \in BOOLEAN /\ payload_many' \in BOOLEAN

\* Loading the payload count keeps the types of count and flags,
LEMMA LoadType ==
  ASSUME NEW count \in Word16, load_payload_count(count)
  PROVE  PayloadType
BY DEF load_payload_count, PayloadType

\* and so does counting a payload byte: the count never goes below zero.
LEMMA CountType ==
  ASSUME FilterTypeOK, count_payload_byte
  PROVE  PayloadType
<1>1. CASE payload_left = 0
  BY <1>1 DEF count_payload_byte, payloadVars, FilterTypeOK, PayloadType
<1>2. CASE payload_left # 0
  <2>1. payload_left - 1 \in Word16
    BY <1>2, Decrement DEF FilterTypeOK
  <2> QED
    BY <1>2, <2>1, LoadType DEF count_payload_byte
<1> QED
  BY <1>1, <1>2

\* Everything an edge of the parser assigns.
ParserType == /\ OutcomeType /\ PayloadType /\ frame_reason' \in Reasons
              /\ header_index' \in Word6 /\ cfg_q' \in Config /\ hdr' \in Fields

\* The header index wraps within six bits.
LEMMA IndexType ==
  ASSUME FilterTypeOK
  PROVE  (header_index + 1) % 64 \in Word6
<1>1. header_index + 1 \in Int
  <2>1. header_index \in Int
    BY Range, SMT DEF FilterTypeOK, Word6
  <2> QED
    BY <2>1
<1> QED
  BY <1>1, Wraps

\* A register that keeps its value keeps its type.
LEMMA Unchanged ==
  ASSUME FilterTypeOK
  PROVE  /\ UNCHANGED payloadVars => PayloadType
         /\ UNCHANGED cfg_q => cfg_q' \in Config
         /\ UNCHANGED hdr => hdr' \in Fields
         /\ UNCHANGED frame_reason => frame_reason' \in Reasons
         /\ UNCHANGED header_index => header_index' \in Word6
         /\ result \in Result
BY DEF FilterTypeOK, payloadVars, PayloadType

\* The reason of a frame that ends is a reason.
LEMMA CloseReasonType ==
  ASSUME NEW reason \in Reasons
  PROVE  close_reason(reason) \in Reasons
BY ReasonTypes DEF close_reason

\* The registers keep their types over the first byte of a frame,
LEMMA IdleType ==
  ASSUME FilterTypeOK, NEW in \in Input, Idle(in)
  PROVE  ParserType
<1> DEFINE cleared == [ResetResult EXCEPT !.sequence = result.sequence]
<1>1. cleared \in Result /\ hdr' \in Fields
  BY EmptyFieldsType DEF Idle
<1>2. OutcomeType
  <2> HIDE DEF cleared
  <2>1. IF in.tlast THEN create_descriptor(cleared, REASON_BAD_LENGTH_OR_TRUNCATED)
                    ELSE Continue(cleared, "ETH_HEADER")
    BY DEF Idle, cleared
  <2> QED
    BY <1>1, <2>1, ReasonTypes, StateTypes, DescriptorType, ContinueType
<1>3. PayloadType
  <2>1. 0 \in Word16
    BY Zeros
  <2> QED
    BY <2>1, LoadType DEF Idle
<1>4. in.cfg \in Config /\ 1 \in Word6
  BY Zeros DEF Input
<1> QED
  BY <1>1, <1>2, <1>3, <1>4, ReasonTypes DEF Idle, ParserType

\* over an Ethernet header byte,
LEMMA EthHeaderType ==
  ASSUME FilterTypeOK, NEW in \in Input, EthHeader(in)
  PROVE  ParserType
<1>1. OutcomeType /\ frame_reason' \in Reasons
  BY Unchanged, SettleType, AdvanceType, ReasonTypes, StateTypes DEF EthHeader
<1>2. hdr' \in Fields
  <2>1. hdr \in Fields /\ in.tdata \in Byte
    BY DEF FilterTypeOK, Input
  <2>2. hdr.field_hi \in Byte /\ \A d \in Byte : [hdr EXCEPT !.field_hi = d] \in Fields
    BY <2>1 DEF Fields
  <2>3. CASE header_index = 12
    BY <2>1, <2>2, <2>3 DEF EthHeader
  <2>4. CASE header_index # 12
    BY <2>1, <2>2, <2>4 DEF EthHeader
  <2> QED
    BY <2>3, <2>4
<1> QED
  BY <1>1, <1>2, Unchanged, IndexType DEF EthHeader, ParserType

\* over an IPv4 header byte,
LEMMA Ipv4HeaderType ==
  ASSUME FilterTypeOK, NEW in \in Input, Ipv4Header(in)
  PROVE  ParserType
<1>1. OutcomeType /\ frame_reason' \in Reasons
  <2> DEFINE next == IF header_index = 33 THEN "UDP_HEADER" ELSE "IPV4_HEADER"
  <2>1. next \in States
    BY StateTypes
  <2>2. \/ Settle(in, result, REASON_BAD_IPV4_HEADER)
        \/ Settle(in, result, REASON_FRAME_TOO_LONG)
        \/ Settle(in, result, REASON_NON_UDP)
        \/ Settle(in, result, REASON_FRAGMENTED)
        \/ Advance(in, Ipv4Result(in), next)
    BY DEF Ipv4Header
  <2> HIDE DEF next
  <2> QED
    BY <2>1, <2>2, Unchanged, SettleType, AdvanceType, ReasonTypes, Ipv4ResultType
<1> QED
  BY <1>1, Unchanged, IndexType, Ipv4FieldsType DEF Ipv4Header, ParserType

\* over a UDP header byte,
LEMMA UdpHeaderType ==
  ASSUME FilterTypeOK, NEW in \in Input, UdpHeader(in) \/ UdpBadLengths(in)
  PROVE  ParserType
<1>1. OutcomeType /\ frame_reason' \in Reasons
  BY Unchanged, SettleType, AdvanceType, ReasonTypes, StateTypes, UdpResultType
  DEF UdpHeader, UdpBadLengths
<1> QED
  BY <1>1, Unchanged, IndexType, UdpFieldsType DEF UdpHeader, UdpBadLengths, ParserType

\* over byte 41 with good lengths,
LEMMA UdpHeaderEndType ==
  ASSUME FilterTypeOK, NEW in \in Input, UdpHeaderEnd(in)
  PROVE  ParserType
<1> DEFINE payload_length == (hdr.udp_length - 8) % 65536
           fields == [result EXCEPT !.payload_len = payload_length]
           first == IF cfg_q.msg_type_enable THEN "FIRST_PAYLOAD" ELSE "PASS_PAYLOAD"
           empty == IF cfg_q.msg_type_enable THEN REASON_MSG_TYPE_MISMATCH
                                             ELSE REASON_ACCEPT
<1>1. payload_length \in Word16
  <2>1. hdr.udp_length - 8 \in Int
    <3>1. hdr.udp_length \in Word16
      BY DEF FilterTypeOK, Fields
    <3> QED
      BY <3>1, Word16Integer
  <2> QED
    BY <2>1, Wraps
<1>2. fields \in Result
  <2> HIDE DEF payload_length
  <2> QED
    BY <1>1 DEF FilterTypeOK, Result
<1>3. first \in States /\ empty \in Reasons
  BY StateTypes, ReasonTypes
<1>4. PayloadType
  BY <1>1, LoadType DEF UdpHeaderEnd
<1>5. \/ create_descriptor(fields, REASON_BAD_LENGTH_OR_TRUNCATED) /\ UNCHANGED frame_reason
      \/ Settle(in, fields, REASON_DST_PORT_MISMATCH)
      \/ /\ frame_reason' = empty
         /\ create_descriptor(fields, empty) \/ Continue(fields, "DRAIN")
      \/ Continue(fields, first) /\ UNCHANGED frame_reason
  BY DEF UdpHeaderEnd
<1>6. OutcomeType /\ frame_reason' \in Reasons
  <2> HIDE DEF fields, first, empty
  <2> QED
    BY <1>2, <1>3, <1>5, Unchanged, SettleType, DescriptorType, ContinueType,
       ReasonTypes, StateTypes
<1> QED
  BY <1>4, <1>6, Unchanged, IndexType DEF UdpHeaderEnd, ParserType

\* over a byte written to the payload buffer,
LEMMA ForwardType ==
  ASSUME FilterTypeOK, NEW in \in Input, Forward(in)
  PROVE  OutcomeType /\ frame_reason' \in Reasons
BY Unchanged, ContinueType, CloseReasonType, ReasonTypes, StateTypes DEF Forward

\* over a payload or drained byte,
LEMMA PayloadStatesType ==
  ASSUME FilterTypeOK, NEW in \in Input,
         FirstPayload(in) \/ PassPayload(in) \/ Drain(in)
  PROVE  ParserType
<1>1. CASE FirstPayload(in)
  <2>1. OutcomeType /\ frame_reason' \in Reasons
    BY <1>1, Unchanged, ForwardType, DescriptorType, ContinueType, CloseReasonType,
       ReasonTypes, StateTypes DEF FirstPayload
  <2> QED
    BY <1>1, <2>1, Unchanged, CountType DEF FirstPayload, ParserType
<1>2. CASE PassPayload(in)
  BY <1>2, Unchanged, ForwardType, CountType DEF PassPayload, ParserType
<1>3. CASE Drain(in)
  <2>1. close_reason(frame_reason) \in Reasons
    BY CloseReasonType DEF FilterTypeOK
  <2>2. OutcomeType /\ frame_reason' \in Reasons
    BY <1>3, <2>1, Unchanged, DescriptorType, ContinueType, StateTypes
    DEF Drain, close_or_wait
  <2> QED
    BY <1>3, <2>2, Unchanged, CountType DEF Drain, ParserType
<1> QED
  BY <1>1, <1>2, <1>3

\* and over an edge without a byte.
LEMMA WaitingStatesType ==
  ASSUME FilterTypeOK, NEW in \in Input,
         WaitOutput(in) \/ ResultHold(in) \/ NoHandshake(in)
  PROVE  ParserType
<1>1. CASE WaitOutput(in)
  <2>1. OutcomeType
    BY <1>1, Unchanged, DescriptorType DEF WaitOutput, FilterTypeOK
  <2> QED
    BY <1>1, <2>1, Unchanged DEF WaitOutput, ParserType
<1>2. CASE ResultHold(in)
  <2>1. OutcomeType
    BY <1>2, StateTypes DEF ResultHold, OutcomeType, FilterTypeOK
  <2> QED
    BY <1>2, <2>1, Unchanged DEF ResultHold, ParserType
<1>3. CASE NoHandshake(in)
  BY <1>3, Unchanged DEF NoHandshake, parserVars, payloadVars, ParserType, OutcomeType,
                         FilterTypeOK
<1> QED
  BY <1>1, <1>2, <1>3

\* So do all registers of the parser over any edge.
LEMMA ParserTypeCorrect ==
  ASSUME FilterTypeOK, NEW in \in Input, Parser(in)
  PROVE  ParserType
BY IdleType, EthHeaderType, Ipv4HeaderType, UdpHeaderType, UdpHeaderEndType,
   PayloadStatesType, WaitingStatesType DEF Parser

\* The registers of the buffer keep their types over an edge,
LEMMA BufferTypeCorrect ==
  ASSUME output_buffer!BufferTypeOK, NEW s_valid \in BOOLEAN, NEW beat \in output_buffer!Beat,
         NEW m_ready, output_buffer!Edge(s_valid, beat, m_ready)
  PROVE  output_buffer!BufferTypeOK'
BY DEF output_buffer!BufferTypeOK, output_buffer!Edge, output_buffer!RefillFromSkid,
       output_buffer!PassThrough, output_buffer!Skid, output_buffer!Stall,
       output_buffer!bufferVars

\* because the parser writes it proper beats.
LEMMA BufferInputType ==
  ASSUME FilterTypeOK, NEW in \in Input
  PROVE  buffer_s_valid(in) \in BOOLEAN /\ BufferBeat(in) \in output_buffer!Beat
<1>1. in.tdata \in Byte /\ in.tlast \in BOOLEAN /\ in.tvalid \in BOOLEAN
  BY DEF Input
<1>2. payload_one \in BOOLEAN /\ payload_many \in BOOLEAN
  BY DEF FilterTypeOK
<1>3. buffer_s_valid(in) \in BOOLEAN
  BY <1>1 DEF buffer_s_valid
<1>4. (payload_one \/ in.tlast) \in BOOLEAN /\ (in.tlast /\ payload_many) \in BOOLEAN
  BY <1>1, <1>2
<1> QED
  BY <1>1, <1>3, <1>4 DEF BufferBeat, output_buffer!Beat

\* An edge with rst_n high keeps every register of the filter in its type.
LEMMA ClockTypeCorrect ==
  ASSUME FilterTypeOK, NEW in \in Input, Clock(in)
  PROVE  FilterTypeOK'
<1>1. ParserType
  BY ParserTypeCorrect DEF Clock
<1>2. output_buffer!BufferTypeOK'
  BY BufferInputType, BufferTypeCorrect DEF Clock, FilterTypeOK
<1> QED
  BY <1>1, <1>2 DEF FilterTypeOK, ParserType, OutcomeType, PayloadType

\* The reset value of the buffer registers is a beat.
LEMMA BufferResetType == output_buffer!NoBeat \in output_buffer!Beat
BY Zeros DEF output_buffer!NoBeat, output_buffer!Beat

\* The reset values have the types of their registers.
LEMMA ResetTypeCorrect ==
  /\ FilterInit => FilterTypeOK
  /\ ResetEdge => FilterTypeOK'
<1>1. ASSUME FilterInit PROVE FilterTypeOK
  BY <1>1, ZeroTypes, StateTypes, ReasonTypes, BufferResetType
  DEF FilterInit, FilterTypeOK, output_buffer!BufferInit, output_buffer!BufferTypeOK
<1>2. ASSUME ResetEdge PROVE FilterTypeOK'
  <2>1. PayloadType
    BY <1>2, ZeroTypes, LoadType DEF ResetEdge
  <2>2. output_buffer!BufferTypeOK'
    BY <1>2, BufferResetType
    DEF ResetEdge, output_buffer!ClearEdge, output_buffer!BufferTypeOK
  <2> QED
    BY <1>2, <2>1, <2>2, ZeroTypes, StateTypes, ReasonTypes
    DEF ResetEdge, FilterTypeOK, PayloadType
<1> QED
  BY <1>1, <1>2

-----------------------------------------------------------------------------
(* Where one edge takes the parser. *)

Moves(in) ==
  /\ input_handshake(in) /\ in.tlast => state' \in ClosedStates
  /\ input_handshake(in) /\ ~in.tlast =>
       state' \in HeaderStates \cup PayloadStates \cup {"DRAIN"}
  /\ ~input_handshake(in) /\ state \notin ClosedStates => state' = state
  /\ state = "WAIT_OUTPUT" =>
       state' = IF output_buffer!drained(in.m_ready) THEN "RESULT_HOLD" ELSE "WAIT_OUTPUT"
  /\ state = "RESULT_HOLD" =>
       state' = IF ResultHandshake(in) THEN "IDLE" ELSE "RESULT_HOLD"
  /\ result_valid_q' <=> state' = "RESULT_HOLD"

\* s_axis_tready is low from the last byte of a frame to its record.
LEMMA NoInputWhenClosed ==
  ASSUME NEW in, state \in ClosedStates
  PROVE  ~input_handshake(in)
BY DEF ClosedStates, input_handshake, s_axis_tready

\* The first byte of a frame moves the parser as Moves says.
LEMMA IdleMoves ==
  ASSUME NEW in \in Input, Idle(in), result_valid_q <=> state = "RESULT_HOLD",
         result_valid_q \in BOOLEAN
  PROVE  Moves(in)
BY DEF Idle, Moves, create_descriptor, Continue, ClosedStates, HeaderStates, Input

\* So does a header byte that leaves the payload count alone.
LEMMA HeaderMoves ==
  ASSUME NEW in \in Input, EthHeader(in) \/ Ipv4Header(in) \/ UdpHeader(in) \/ UdpBadLengths(in),
         result_valid_q <=> state = "RESULT_HOLD", result_valid_q \in BOOLEAN
  PROVE  Moves(in)
<1>1. state \in HeaderStates /\ input_handshake(in)
  BY DEF HeaderStates, EthHeader, Ipv4Header, UdpHeader, UdpBadLengths
<1>2. \/ in.tlast /\ state' = "RESULT_HOLD" /\ result_valid_q' = TRUE
      \/ /\ ~in.tlast /\ state' \in HeaderStates \cup {"DRAIN"}
         /\ result_valid_q' = result_valid_q
  <2>1. \A fields, reason :
          Settle(in, fields, reason) =>
            \/ in.tlast /\ state' = "RESULT_HOLD" /\ result_valid_q' = TRUE
            \/ ~in.tlast /\ state' = "DRAIN" /\ result_valid_q' = result_valid_q
    BY DEF Settle, create_descriptor, Continue
  <2>2. \A fields : \A next \in HeaderStates :
          Advance(in, fields, next) =>
            \/ in.tlast /\ state' = "RESULT_HOLD" /\ result_valid_q' = TRUE
            \/ ~in.tlast /\ state' = next /\ result_valid_q' = result_valid_q
    BY DEF Advance, create_descriptor, Continue
  <2>3. CASE EthHeader(in)
    BY <2>1, <2>2, <2>3 DEF EthHeader, HeaderStates
  <2>4. CASE Ipv4Header(in)
    BY <2>1, <2>2, <2>4 DEF Ipv4Header, HeaderStates
  <2>5. CASE UdpHeader(in) \/ UdpBadLengths(in)
    BY <2>1, <2>2, <2>5 DEF UdpHeader, UdpBadLengths, HeaderStates
  <2> QED
    BY <2>3, <2>4, <2>5
<1> QED
  BY <1>1, <1>2 DEF Moves, ClosedStates, HeaderStates

\* So does byte 41 with good lengths: a length of 8 or more cannot wrap.
LEMMA UdpHeaderEndMoves ==
  ASSUME NEW in \in Input, FilterTypeOK, UdpHeaderEnd(in), LengthsLatched,
         result_valid_q <=> state = "RESULT_HOLD"
  PROVE  Moves(in)
<1>1. state = "UDP_HEADER" /\ input_handshake(in)
  BY DEF UdpHeaderEnd
<1>2. hdr.udp_length >= 8
  BY DEF UdpHeaderEnd, LengthsLatched, LengthRules
<1>3. hdr.udp_length \in Int
  BY Word16Integer DEF FilterTypeOK, Fields
<1>4. \/ in.tlast /\ state' = "RESULT_HOLD" /\ result_valid_q' = TRUE
      \/ /\ ~in.tlast /\ state' \in PayloadStates \cup {"DRAIN"}
         /\ result_valid_q' = result_valid_q
  <2> DEFINE first == IF cfg_q.msg_type_enable THEN "FIRST_PAYLOAD" ELSE "PASS_PAYLOAD"
  <2>1. first \in PayloadStates
    BY DEF PayloadStates
  <2>2. in.tlast \in BOOLEAN
    BY DEF Input
  <2> HIDE DEF first
  <2>3. \/ in.tlast /\ \E fields, reason : create_descriptor(fields, reason)
        \/ ~in.tlast /\ \E fields : Continue(fields, "DRAIN")
        \/ ~in.tlast /\ \E fields : Continue(fields, first)
    BY <1>2, <1>3, <2>2 DEF UdpHeaderEnd, Settle, first
  <2> QED
    BY <2>1, <2>2, <2>3 DEF create_descriptor, Continue
<1> QED
  BY <1>1, <1>4 DEF Moves, ClosedStates, HeaderStates, PayloadStates, FilterTypeOK

\* So does a byte of the payload or after it.
LEMMA PayloadMoves ==
  ASSUME NEW in \in Input, FirstPayload(in) \/ PassPayload(in) \/ Drain(in),
         result_valid_q <=> state = "RESULT_HOLD", result_valid_q \in BOOLEAN
  PROVE  Moves(in)
BY DEF FirstPayload, PassPayload, Drain, Forward, close_or_wait, Moves, create_descriptor,
       Continue, ClosedStates, HeaderStates, PayloadStates, Input

\* So does an edge on which no byte is accepted.
LEMMA WaitingMoves ==
  ASSUME NEW in \in Input, WaitOutput(in) \/ ResultHold(in) \/ NoHandshake(in),
         result_valid_q <=> state = "RESULT_HOLD", result_valid_q \in BOOLEAN
  PROVE  Moves(in)
BY NoInputWhenClosed
DEF WaitOutput, ResultHold, NoHandshake, Moves, create_descriptor, parserVars,
    ClosedStates, ResultHandshake

\* Every edge moves the parser as Moves says.
LEMMA ParserMoves ==
  ASSUME NEW in \in Input, FilterTypeOK, LengthsLatched,
         result_valid_q <=> state = "RESULT_HOLD", Parser(in)
  PROVE  Moves(in)
<1>1. result_valid_q \in BOOLEAN
  BY DEF FilterTypeOK
<1> QED
  BY <1>1, IdleMoves, HeaderMoves, UdpHeaderEndMoves, PayloadMoves, WaitingMoves DEF Parser
-----------------------------------------------------------------------------
(* A tick of the environment is an edge with inputs of their types and a   *)
(* byte of a stream at its place.                                          *)

Step(source, in) ==
  /\ Offset \in 1..Len(source) /\ in.tdata = source[Offset]
  /\ Offset = Len(source) => in.tlast
  /\ Clock(in)
  /\ Follow(source, in)

\* What the ports carry in a cycle of the environment.
Driven(source, tvalid, tlast, cfg, m_ready, result_ready) ==
  [tvalid |-> tvalid, tdata |-> source[Offset], tlast |-> tlast,
   cfg |-> cfg, m_ready |-> m_ready, result_ready |-> result_ready]

\* What the environment drives is of the type of the ports, and in range.
LEMMA CycleIsStep ==
  ASSUME ControlInv, NEW source \in Sources, NEW tvalid \in BOOLEAN, NEW tlast \in BOOLEAN,
         NEW cfg \in Configs, NEW m_ready \in OutReady, NEW result_ready \in ResultReady,
         Cycle(source, tvalid, tlast, cfg, m_ready, result_ready)
  PROVE  LET in == Driven(source, tvalid, tlast, cfg, m_ready, result_ready)
         IN source \in Streams /\ in \in Input /\ Step(source, in)
<1> DEFINE in == Driven(source, tvalid, tlast, cfg, m_ready, result_ready)
<1>1. open \in Nat /\ pos \in Nat /\ (pos > 0 => frame \in Streams)
      /\ (pos > 0 /\ open = 0 => pos < Len(frame))
  BY DEF ControlInv, TypeOK, StateFollowsFrame
<1>2. source \in Streams
  BY <1>1 DEF Sources, BetweenFrames
<1>3. source \in Seq(Byte) /\ Len(source) \in Nat /\ Len(source) > 0
  <2>1. source \in Seq(Byte) /\ source # << >>
    BY <1>2, StreamsAssumption
  <2> QED
    BY <2>1
<1>4. Offset \in 1..Len(source)
  <2>1. CASE BetweenFrames
    BY <1>3, <2>1 DEF Offset
  <2>2. CASE ~BetweenFrames
    <3>1. source = frame /\ Offset = pos + 1 /\ pos < Len(frame)
      BY <1>1, <2>2 DEF Offset, Sources, BetweenFrames
    <3> QED
      BY <1>1, <1>3, <3>1
  <2> QED
    BY <2>1, <2>2
<1>5. in \in Input
  <2>1. source[Offset] \in Byte
    BY <1>3, <1>4
  <2>2. cfg \in Config /\ m_ready \in BOOLEAN /\ result_ready \in BOOLEAN
    BY EnvironmentAssumption
  <2> QED
    BY <2>1, <2>2 DEF Input, Driven
<1>6. Step(source, in)
  BY <1>4 DEF Cycle, Step, Driven
<1> QED
  BY <1>2, <1>5, <1>6, Zenon

\* So a tick is a step with what the consumers offer.
LEMMA TickIsStep ==
  ASSUME ControlInv, Tick
  PROVE  \E source \in Streams, in \in Input :
            /\ Step(source, in) /\ source \in Sources /\ in.cfg \in Configs
            /\ in.m_ready \in OutReady /\ in.result_ready \in ResultReady
<1>1. \A values, looked : LookedAt(values, looked) \subseteq values
  BY DEF LookedAt
<1>2. PICK tvalid \in BOOLEAN :
        LET taken == tvalid /\ s_axis_tready
        IN /\ tvalid /\ pos = 0 => started < FRAMES_PER_RESET
           /\ \E source \in LookedAt(Sources, taken),
                 tlast \in {b \in BOOLEAN : taken \/ b},
                 cfg \in LookedAt(Configs, taken /\ pos = 0),
                 m_ready \in LookedAt(OutReady, out_valid_q),
                 result_ready \in LookedAt(ResultReady, result_valid_q) :
                Cycle(source, tvalid, tlast, cfg, m_ready, result_ready)
  BY Zenon DEF Tick
<1> DEFINE taken == tvalid /\ s_axis_tready
<1>3. PICK source \in LookedAt(Sources, taken), tlast \in {b \in BOOLEAN : taken \/ b},
           cfg \in LookedAt(Configs, taken /\ pos = 0),
           m_ready \in LookedAt(OutReady, out_valid_q),
           result_ready \in LookedAt(ResultReady, result_valid_q) :
             Cycle(source, tvalid, tlast, cfg, m_ready, result_ready)
  BY <1>2, Zenon
<1>4. /\ source \in Sources /\ cfg \in Configs
      /\ m_ready \in OutReady /\ result_ready \in ResultReady
  BY <1>1, <1>3, Zenon
<1>5. tlast \in BOOLEAN
  BY <1>3, Zenon
<1> DEFINE in == Driven(source, tvalid, tlast, cfg, m_ready, result_ready)
<1>6. source \in Streams /\ in \in Input /\ Step(source, in)
  BY <1>2, <1>3, <1>4, <1>5, CycleIsStep, Zenon
<1>7. in.cfg = cfg /\ in.m_ready = m_ready /\ in.result_ready = result_ready
  BY Zenon DEF Driven
<1> QED
  BY <1>4, <1>6, <1>7, Zenon

\* Moves, from the invariant.
LEMMA StepMoves ==
  ASSUME ControlInv, NEW in \in Input, NEW source, Step(source, in)
  PROVE  Moves(in)
BY ParserMoves DEF ControlInv, TypeOK, StateFollowsFrame, Step, Clock

\* The ways to leave the header: with or without payload to come, and with or
\* without the port to match.
LEMMA UdpHeaderEndOutcomes ==
  ASSUME NEW in, UdpHeaderEnd(in), NEW fields, NEW first, NEW empty,
         fields = [result EXCEPT !.payload_len = (hdr.udp_length - 8) % 65536],
         first = IF cfg_q.msg_type_enable THEN "FIRST_PAYLOAD" ELSE "PASS_PAYLOAD",
         empty = IF cfg_q.msg_type_enable THEN REASON_MSG_TYPE_MISMATCH ELSE REASON_ACCEPT
  PROVE  \/ /\ hdr.udp_length > 8 /\ in.tlast
            /\ create_descriptor(fields, REASON_BAD_LENGTH_OR_TRUNCATED)
         \/ /\ ~(hdr.udp_length > 8 /\ in.tlast) /\ ~hdr.port_match
            /\ Settle(in, fields, REASON_DST_PORT_MISMATCH)
         \/ /\ hdr.udp_length = 8 /\ hdr.port_match /\ in.tlast
            /\ create_descriptor(fields, empty)
         \/ /\ hdr.udp_length = 8 /\ hdr.port_match /\ ~in.tlast
            /\ frame_reason' = empty /\ Continue(fields, "DRAIN")
         \/ /\ hdr.udp_length # 8 /\ ~(hdr.udp_length > 8 /\ in.tlast) /\ hdr.port_match
            /\ Continue(fields, first)
BY DEF UdpHeaderEnd

\* A record is made and counted, or shown and taken, or neither.
LEMMA CounterMoves ==
  ASSUME NEW in \in Input, Parser(in)
  PROVE  /\ \/ /\ state # "RESULT_HOLD"
               /\ \E fields, reason : create_descriptor(fields, reason)
            \/ UNCHANGED <<sequence_counter, result_valid_q>>
            \/ state = "RESULT_HOLD" /\ ~result_valid_q' /\ UNCHANGED sequence_counter
         /\ IF state = "IDLE" /\ input_handshake(in) THEN cfg_q' = in.cfg ELSE UNCHANGED cfg_q
<1> DEFINE Made == \E fields, reason : create_descriptor(fields, reason)
           Kept == UNCHANGED <<sequence_counter, result_valid_q>>
<1>1. \A fields, next : Continue(fields, next) => Kept
  BY DEF Continue
<1>2. \A fields, reason : Settle(in, fields, reason) => Made \/ Kept
  BY <1>1 DEF Settle
<1>3. \A fields, next : Advance(in, fields, next) => Made \/ Kept
  BY <1>1 DEF Advance
<1>4. CASE Idle(in)
  <2>1. Made \/ Kept
    BY <1>1, <1>4, Zenon DEF Idle
  <2> QED
    BY <1>4, <2>1 DEF Idle
<1>5. CASE EthHeader(in)
  <2>1. \/ Settle(in, result, REASON_NON_IPV4)
        \/ Advance(in, result, "IPV4_HEADER")
        \/ Advance(in, result, "ETH_HEADER")
    BY <1>5 DEF EthHeader
  <2>2. Made \/ Kept
    BY <1>2, <1>3, <2>1, Zenon
  <2> QED
    BY <1>5, <2>2 DEF EthHeader
<1>6. CASE Ipv4Header(in)
  <2>1. \/ \E fields, reason : Settle(in, fields, reason)
        \/ \E fields, next : Advance(in, fields, next)
    <3> DEFINE next == IF header_index = 33 THEN "UDP_HEADER" ELSE "IPV4_HEADER"
    <3>1. \/ Settle(in, result, REASON_BAD_IPV4_HEADER)
          \/ Settle(in, result, REASON_FRAME_TOO_LONG)
          \/ Settle(in, result, REASON_NON_UDP)
          \/ Settle(in, result, REASON_FRAGMENTED)
          \/ Advance(in, Ipv4Result(in), next)
      BY <1>6, Zenon DEF Ipv4Header
    <3> HIDE DEF next
    <3> QED
      BY <3>1, Zenon
  <2>2. Made \/ Kept
    BY <1>2, <1>3, <2>1, Zenon
  <2> QED
    BY <1>6, <2>2 DEF Ipv4Header
<1>7. CASE UdpHeader(in) \/ UdpBadLengths(in)
  <2>1. Made \/ Kept
    BY <1>2, <1>3, <1>7, Zenon DEF UdpHeader, UdpBadLengths
  <2> QED
    BY <1>7, <2>1 DEF UdpHeader, UdpBadLengths
<1>8. CASE UdpHeaderEnd(in)
  <2> DEFINE filled == [result EXCEPT !.payload_len = (hdr.udp_length - 8) % 65536]
             first == IF cfg_q.msg_type_enable THEN "FIRST_PAYLOAD" ELSE "PASS_PAYLOAD"
             empty == IF cfg_q.msg_type_enable THEN REASON_MSG_TYPE_MISMATCH
                                               ELSE REASON_ACCEPT
  <2>1. /\ filled = [result EXCEPT !.payload_len = (hdr.udp_length - 8) % 65536]
        /\ first = IF cfg_q.msg_type_enable THEN "FIRST_PAYLOAD" ELSE "PASS_PAYLOAD"
        /\ empty = IF cfg_q.msg_type_enable THEN REASON_MSG_TYPE_MISMATCH ELSE REASON_ACCEPT
    OBVIOUS
  <2> HIDE DEF filled, first, empty
  <2>2. \/ create_descriptor(filled, REASON_BAD_LENGTH_OR_TRUNCATED)
        \/ Settle(in, filled, REASON_DST_PORT_MISMATCH)
        \/ create_descriptor(filled, empty)
        \/ Continue(filled, "DRAIN")
        \/ Continue(filled, first)
    BY <1>8, <2>1, UdpHeaderEndOutcomes
  <2>3. Made \/ Kept
    <3> HIDE DEF Kept
    <3> QED
      BY <1>1, <1>2, <2>2, Zenon
  <2> QED
    BY <1>8, <2>3 DEF UdpHeaderEnd
<1>9. CASE FirstPayload(in) \/ PassPayload(in)
  <2>1. Forward(in) => Kept
    BY <1>1, Zenon DEF Forward
  <2>2. Made \/ Kept
    BY <1>1, <1>9, <2>1, Zenon DEF FirstPayload, PassPayload
  <2> QED
    BY <1>9, <2>2 DEF FirstPayload, PassPayload
<1>10. CASE Drain(in) \/ WaitOutput(in)
  <2>1. Made \/ Kept
    BY <1>1, <1>10, Zenon DEF Drain, WaitOutput, close_or_wait
  <2> QED
    BY <1>10, <2>1 DEF Drain, WaitOutput
<1>11. CASE ResultHold(in) \/ NoHandshake(in)
  <2>1. ~(state = "IDLE" /\ input_handshake(in))
    BY <1>11 DEF ResultHold, NoHandshake
  <2> QED
    BY <1>11, <2>1 DEF ResultHold, NoHandshake, parserVars
<1> QED
  BY <1>4, <1>5, <1>6, <1>7, <1>8, <1>9, <1>10, <1>11 DEF Parser

-----------------------------------------------------------------------------
(* The parts of the invariant, one lemma each. *)

\* A step keeps the state of the parser and the progress of the frame together.
LEMMA StateFollowsFrameStep ==
  ASSUME ControlInv, NEW source \in Streams, NEW in \in Input, Step(source, in),
         source \in Sources
  PROVE  StateFollowsFrame'
<1> USE DEF HeaderStates, PayloadStates, ClosedStates
<1>1. Moves(in)
  BY StepMoves
<1>2. StateFollowsFrame /\ open \in Nat /\ pos \in Nat /\ Len(source) \in Nat
  BY StreamsAssumption DEF ControlInv, TypeOK
<1>3. in.tlast \in BOOLEAN /\ in.result_ready \in BOOLEAN /\ result_valid_q \in BOOLEAN
  BY DEF Input, ControlInv, TypeOK, FilterTypeOK
<1>4. ResultHandshake(in) => state = "RESULT_HOLD"
  BY <1>2 DEF ResultHandshake, StateFollowsFrame
<1>5. CASE input_handshake(in)
  <2>1. state \notin ClosedStates /\ open = 0 /\ ~ResultHandshake(in)
    BY <1>2, <1>4, <1>5, NoInputWhenClosed DEF StateFollowsFrame
  <2>2. frame' = source /\ pos' = pos + 1
        /\ open' = IF in.tlast THEN 1 ELSE 0
    BY <1>2, <1>3, <1>5, <2>1 DEF Step, Follow
  <2>3. Offset = pos + 1 /\ pos + 1 <= Len(source) /\ (~in.tlast => pos + 1 < Len(source))
    <3>1. Offset = pos + 1
      BY <1>2, <2>1 DEF Offset, BetweenFrames
    <3>2. Offset \in 1..Len(source) /\ (Offset = Len(source) => in.tlast)
      BY DEF Step
    <3> QED
      BY <1>2, <1>3, <3>1, <3>2
  <2>4. IF in.tlast THEN state' \in ClosedStates
                    ELSE state' \in HeaderStates \cup PayloadStates \cup {"DRAIN"}
    BY <1>1, <1>5 DEF Moves
  <2> QED
    BY <1>1, <1>2, <1>3, <2>2, <2>3, <2>4 DEF Moves, StateFollowsFrame
<1>6. CASE ResultHandshake(in)
  <2>1. state = "RESULT_HOLD" /\ ~input_handshake(in) /\ open = 1
    BY <1>2, <1>4, <1>6, NoInputWhenClosed DEF StateFollowsFrame
  <2>2. pos' = 0 /\ open' = 0 /\ state' = "IDLE"
    BY <1>1, <1>6, <2>1 DEF Step, Follow, Moves
  <2> QED
    BY <1>1, <2>2 DEF Moves, StateFollowsFrame
<1>7. CASE ~input_handshake(in) /\ ~ResultHandshake(in)
  <2>1. UNCHANGED <<frame, pos, open>>
    BY <1>2, <1>7 DEF Step, Follow
  <2>2. CASE state \in ClosedStates
    <3>1. state' \in ClosedStates
      BY <1>1, <1>7, <2>2 DEF Moves
    <3> QED
      BY <1>1, <1>2, <2>1, <2>2, <3>1 DEF Moves, StateFollowsFrame
  <2>3. CASE state \notin ClosedStates
    <3>1. state' = state
      BY <1>1, <1>7, <2>3 DEF Moves
    <3> QED
      BY <1>1, <1>2, <2>1, <2>3, <3>1 DEF Moves, StateFollowsFrame
  <2> QED
    BY <2>2, <2>3
<1> QED
  BY <1>5, <1>6, <1>7

\* The count and its flags are always written together.
LEMMA PayloadLoads ==
  ASSUME NEW in, Parser(in)
  PROVE  UNCHANGED payloadVars \/ \E count : load_payload_count(count)
<1>1. count_payload_byte => UNCHANGED payloadVars \/ \E count : load_payload_count(count)
  BY DEF count_payload_byte
<1>2. CASE Idle(in)
  BY <1>2 DEF Idle
<1>3. CASE EthHeader(in) \/ Ipv4Header(in) \/ UdpHeader(in) \/ UdpBadLengths(in)
  BY <1>3 DEF EthHeader, Ipv4Header, UdpHeader, UdpBadLengths
<1>4. CASE UdpHeaderEnd(in)
  BY <1>4 DEF UdpHeaderEnd
<1>5. CASE FirstPayload(in) \/ PassPayload(in) \/ Drain(in)
  BY <1>1, <1>5 DEF FirstPayload, PassPayload, Drain
<1>6. CASE WaitOutput(in) \/ ResultHold(in)
  BY <1>6 DEF WaitOutput, ResultHold
<1>7. CASE NoHandshake(in)
  BY <1>7 DEF NoHandshake, parserVars, payloadVars
<1> QED
  BY <1>2, <1>3, <1>4, <1>5, <1>6, <1>7 DEF Parser

\* So the flags keep agreeing with the count.
LEMMA FlagsMatchCountStep ==
  ASSUME FlagsMatchCount, NEW in, Parser(in)
  PROVE  FlagsMatchCount'
BY PayloadLoads DEF FlagsMatchCount, load_payload_count, payloadVars

\* A record that appears says "accept" with its reason; a record shown stays.
LEMMA AcceptIsReasonStep ==
  ASSUME ControlInv, NEW in \in Input, Parser(in)
  PROVE  AcceptIsReason'
<1>1. CASE ~result_valid_q
  BY <1>1, ParserTypeCorrect DEF ControlInv, TypeOK, ParserType, OutcomeType, AcceptIsReason
<1>2. CASE result_valid_q
  <2>1. ResultHold(in) \/ NoHandshake(in)
    BY <1>2 DEF ControlInv, StateFollowsFrame, Parser, Idle, EthHeader, Ipv4Header, UdpHeader,
                UdpBadLengths, UdpHeaderEnd, FirstPayload, PassPayload, Drain, WaitOutput
  <2> QED
    BY <1>2, <2>1 DEF ControlInv, AcceptIsReason, ResultHold, NoHandshake, parserVars
<1> QED
  BY <1>1, <1>2

\* Byte 40 latches the length check and no field changes before byte 41.
LEMMA LengthsLatchedStep ==
  ASSUME ControlInv, NEW in \in Input, Parser(in)
  PROVE  LengthsLatched'
<1> SUFFICES ASSUME state' = "UDP_HEADER", header_index' = 41
             PROVE  hdr'.lengths_ok => LengthRules'
  BY DEF LengthsLatched
<1>1. header_index \in Int /\ header_index >= 0 /\ header_index < 64
  BY Range, SMT DEF ControlInv, TypeOK, FilterTypeOK, Word6
<1>2. UdpHeader(in) \/ NoHandshake(in)
  <2>1. ~Idle(in) /\ ~EthHeader(in) /\ ~UdpBadLengths(in) /\ ~UdpHeaderEnd(in)
    BY <1>1 DEF Idle, EthHeader, UdpBadLengths, UdpHeaderEnd, Settle, Advance,
                create_descriptor, Continue
  <2>2. ~Ipv4Header(in)
    BY <1>1 DEF Ipv4Header, Settle, Advance, create_descriptor, Continue
  <2>3. ~FirstPayload(in) /\ ~PassPayload(in) /\ ~Drain(in)
    BY DEF FirstPayload, PassPayload, Drain, Forward, close_or_wait, create_descriptor, Continue
  <2>4. ~WaitOutput(in) /\ ~ResultHold(in)
    BY DEF WaitOutput, ResultHold, create_descriptor
  <2> QED
    BY <2>1, <2>2, <2>3, <2>4 DEF Parser
<1>3. CASE UdpHeader(in)
  <2>1. header_index = 40
    BY <1>1, <1>3 DEF UdpHeader
  <2>2. hdr' = [hdr EXCEPT !.lengths_ok = LengthRules, !.port_match = PortRule]
    BY <1>3, <2>1 DEF UdpHeader, UdpFields
  <2>3. hdr \in Fields
    BY DEF ControlInv, TypeOK, FilterTypeOK
  <2>4. hdr'.lengths_ok = LengthRules /\ hdr'.ip_total_length = hdr.ip_total_length
        /\ hdr'.udp_length = hdr.udp_length
    BY <2>2, <2>3 DEF Fields
  <2>5. LengthRules' = LengthRules
    BY <2>4 DEF LengthRules
  <2> QED
    BY <2>4, <2>5
<1>4. CASE NoHandshake(in)
  BY <1>4 DEF NoHandshake, parserVars, ControlInv, LengthsLatched, LengthRules
<1> QED
  BY <1>2, <1>3, <1>4

\* A payload state is only entered and kept with payload outstanding.
LEMMA PayloadExpectedStep ==
  ASSUME ControlInv, NEW in \in Input, Parser(in)
  PROVE  PayloadExpected'
<1> SUFFICES ASSUME state' \in PayloadStates
             PROVE  payload_left' # 0
  BY DEF PayloadExpected
<1>1. payload_left \in Int
  BY Word16Integer DEF ControlInv, TypeOK, FilterTypeOK
<1>2. \/ UdpHeaderEnd(in) \/ FirstPayload(in) \/ PassPayload(in) \/ NoHandshake(in)
  <2> USE DEF PayloadStates
  <2>1. ~Idle(in) /\ ~EthHeader(in) /\ ~UdpHeader(in) /\ ~UdpBadLengths(in)
    BY DEF Idle, EthHeader, UdpHeader, UdpBadLengths, Settle, Advance, create_descriptor,
           Continue
  <2>2. ~Ipv4Header(in)
    BY DEF Ipv4Header, Settle, Advance, create_descriptor, Continue
  <2>3. ~Drain(in) /\ ~WaitOutput(in) /\ ~ResultHold(in)
    BY DEF Drain, WaitOutput, ResultHold, close_or_wait, create_descriptor, Continue
  <2> QED
    BY <2>1, <2>2, <2>3 DEF Parser
<1>3. CASE UdpHeaderEnd(in)
  <2>1. hdr.udp_length \in Int /\ hdr.udp_length < 65536
    BY Range, SMT DEF ControlInv, TypeOK, FilterTypeOK, Fields, Word16
  <2>2. hdr.udp_length >= 8
    BY <1>3 DEF UdpHeaderEnd, ControlInv, LengthsLatched, LengthRules
  <2>3. hdr.udp_length # 8
    BY <1>3 DEF UdpHeaderEnd, Settle, create_descriptor, Continue, PayloadStates
  <2>4. payload_left' = (hdr.udp_length - 8) % 65536
    BY <1>3 DEF UdpHeaderEnd, load_payload_count
  <2> QED
    BY <2>1, <2>2, <2>3, <2>4
<1>4. CASE FirstPayload(in) \/ PassPayload(in)
  <2>1. count_payload_byte /\ state \in PayloadStates
    BY <1>4 DEF FirstPayload, PassPayload, PayloadStates
  <2>2. ~payload_one
    BY <1>4 DEF FirstPayload, PassPayload, Forward, create_descriptor, Continue, PayloadStates
  <2>3. payload_left # 0 /\ payload_left # 1
    BY <2>1, <2>2 DEF ControlInv, PayloadExpected, FlagsMatchCount
  <2> QED
    BY <1>1, <2>1, <2>3 DEF count_payload_byte, load_payload_count
<1>5. CASE NoHandshake(in)
  BY <1>5 DEF NoHandshake, parserVars, ControlInv, PayloadExpected
<1> QED
  BY <1>2, <1>3, <1>4, <1>5

-----------------------------------------------------------------------------
(* The payload buffer beside the parser: a beat is written only in the     *)
(* payload states, and a state without payload finds the buffer empty.     *)

Writes(in) == buffer_s_valid(in) /\ output_buffer!s_ready

BufferMoves(in) ==
  /\ Writes(in) =>
       /\ state \in PayloadStates
       /\ state' = IF in.tlast THEN "WAIT_OUTPUT"
                   ELSE IF payload_one THEN "DRAIN" ELSE "PASS_PAYLOAD"
  /\ ~Writes(in) =>
       /\ state \in {"IDLE"} \cup HeaderStates =>
            state' \in {"IDLE", "DRAIN", "RESULT_HOLD"} \cup HeaderStates \cup PayloadStates
       /\ state = "FIRST_PAYLOAD" => state' \in {"FIRST_PAYLOAD", "DRAIN", "RESULT_HOLD"}
       /\ state = "PASS_PAYLOAD" => state' = "PASS_PAYLOAD"
       /\ state = "DRAIN" =>
            \/ state' = "DRAIN"
            \/ state' = IF output_buffer!drained(in.m_ready) THEN "RESULT_HOLD" ELSE "WAIT_OUTPUT"

\* Every edge writes to the buffer and moves the parser as BufferMoves says.
LEMMA ParserMovesBuffer ==
  ASSUME ControlInv, NEW in \in Input, Parser(in)
  PROVE  BufferMoves(in)
<1> USE DEF HeaderStates, PayloadStates
<1>1. Moves(in) /\ in.tvalid \in BOOLEAN /\ in.tlast \in BOOLEAN
  BY ParserMoves DEF ControlInv, TypeOK, StateFollowsFrame, Input
<1>2. state \in States
  BY DEF ControlInv, TypeOK, FilterTypeOK
<1>3. CASE Writes(in)
  <2>1. state \in PayloadStates /\ input_handshake(in)
    BY <1>3 DEF Writes, buffer_s_valid, input_handshake, s_axis_tready
  <2>2. FirstPayload(in) \/ PassPayload(in)
    BY <2>1 DEF Parser, Idle, EthHeader, Ipv4Header, UdpHeader, UdpBadLengths, UdpHeaderEnd,
                Drain, WaitOutput, ResultHold, NoHandshake
  <2>3. Forward(in)
    BY <1>3, <2>2 DEF Writes, buffer_s_valid, FirstPayload, PassPayload
  <2>4. payload_one \in BOOLEAN
    BY DEF ControlInv, TypeOK, FilterTypeOK
  <2> QED
    BY <1>1, <1>3, <2>1, <2>3, <2>4 DEF BufferMoves, Forward, Continue
<1>4. CASE ~Writes(in)
  <2>1. CASE state \in {"IDLE"} \cup HeaderStates
    <3>1. CASE input_handshake(in)
      <4>1. ~in.tlast => state' \in HeaderStates \cup PayloadStates \cup {"DRAIN"}
        BY <1>1, <3>1 DEF Moves
      <4>2. in.tlast => state' = "RESULT_HOLD"
        <5>1. in.tlast => state' \in ClosedStates
          BY <1>1, <3>1 DEF Moves
        <5>2. \/ Idle(in) \/ EthHeader(in) \/ Ipv4Header(in)
              \/ UdpHeader(in) \/ UdpBadLengths(in) \/ UdpHeaderEnd(in)
          BY <2>1, <3>1 DEF Parser, FirstPayload, PassPayload, Drain, WaitOutput, ResultHold,
                            NoHandshake
        <5>3. state' # "WAIT_OUTPUT"
          <6>1. CASE Idle(in) \/ EthHeader(in) \/ UdpHeader(in) \/ UdpBadLengths(in)
            BY <6>1 DEF Idle, EthHeader, UdpHeader, UdpBadLengths, Settle, Advance,
                        create_descriptor, Continue
          <6>2. CASE Ipv4Header(in)
            BY <6>2 DEF Ipv4Header, Settle, Advance, create_descriptor, Continue
          <6>3. CASE UdpHeaderEnd(in)
            BY <6>3 DEF UdpHeaderEnd, Settle, create_descriptor, Continue
          <6> QED
            BY <5>2, <6>1, <6>2, <6>3
        <5> QED
          BY <5>1, <5>3 DEF ClosedStates
      <4> QED
        BY <1>1, <1>4, <2>1, <4>1, <4>2 DEF BufferMoves
    <3>2. CASE ~input_handshake(in)
      <4>1. state' = state
        BY <1>1, <2>1, <3>2 DEF Moves, ClosedStates
      <4> QED
        BY <1>4, <2>1, <4>1 DEF BufferMoves
    <3> QED
      BY <3>1, <3>2
  <2>2. CASE state = "FIRST_PAYLOAD"
    <3>1. FirstPayload(in) \/ NoHandshake(in)
      BY <2>2 DEF Parser, Idle, EthHeader, Ipv4Header, UdpHeader, UdpBadLengths, UdpHeaderEnd,
                  PassPayload, Drain, WaitOutput, ResultHold
    <3>2. FirstPayload(in) => in.tdata # cfg_q.msg_type
      BY <1>4, <2>2 DEF FirstPayload, input_handshake, s_axis_tready, Writes, buffer_s_valid
    <3>3. state' \in {"FIRST_PAYLOAD", "DRAIN", "RESULT_HOLD"}
      BY <1>1, <2>2, <3>1, <3>2
      DEF FirstPayload, NoHandshake, parserVars, create_descriptor, Continue
    <3> QED
      BY <1>4, <2>2, <3>3 DEF BufferMoves
  <2>3. CASE state = "PASS_PAYLOAD"
    <3>1. ~input_handshake(in)
      BY <1>4, <2>3 DEF input_handshake, s_axis_tready, Writes, buffer_s_valid
    <3>2. state' = state
      BY <1>1, <2>3, <3>1 DEF Moves, ClosedStates
    <3> QED
      BY <1>4, <2>3, <3>2 DEF BufferMoves
  <2>4. CASE state = "DRAIN"
    <3>1. Drain(in) \/ NoHandshake(in)
      BY <2>4 DEF Parser, Idle, EthHeader, Ipv4Header, UdpHeader, UdpBadLengths, UdpHeaderEnd,
                  FirstPayload, PassPayload, WaitOutput, ResultHold
    <3>2. \/ state' = "DRAIN"
          \/ state' = IF output_buffer!drained(in.m_ready) THEN "RESULT_HOLD" ELSE "WAIT_OUTPUT"
      BY <2>4, <3>1
      DEF Drain, NoHandshake, parserVars, close_or_wait, create_descriptor, Continue
    <3> QED
      BY <1>4, <2>4, <3>2 DEF BufferMoves
  <2>5. CASE state \in ClosedStates
    BY <1>4, <2>5 DEF BufferMoves, ClosedStates
  <2> QED
    BY <1>2, <2>1, <2>2, <2>3, <2>4, <2>5 DEF States, ClosedStates
<1> QED
  BY <1>3, <1>4

\* The four things an edge does to the buffer, as the parser sees them.
LEMMA BufferEdges ==
  ASSUME NEW in \in Input, BufferFollowsState, output_buffer!BufferTypeOK,
         output_buffer!Edge(buffer_s_valid(in), BufferBeat(in), in.m_ready)
  PROVE  \/ /\ ~Writes(in) /\ skid_valid_q /\ out_valid_q /\ in.m_ready
            /\ out_q' = skid_q /\ out_valid_q' /\ ~skid_valid_q'
         \/ /\ Writes(in) /\ output_buffer!drained(in.m_ready)
            /\ out_q' = BufferBeat(in) /\ out_valid_q' /\ ~skid_valid_q'
         \/ /\ ~Writes(in) /\ output_buffer!drained(in.m_ready)
            /\ out_q' = out_q /\ ~out_valid_q' /\ ~skid_valid_q'
         \/ /\ Writes(in) /\ out_valid_q /\ ~in.m_ready /\ skid_q' = BufferBeat(in)
            /\ skid_valid_q' /\ UNCHANGED <<out_q, out_valid_q>>
         \/ /\ ~Writes(in) /\ ~output_buffer!drained(in.m_ready)
            /\ out_valid_q /\ ~in.m_ready
            /\ UNCHANGED <<out_q, out_valid_q, skid_q, skid_valid_q>>
<1>1. skid_valid_q => out_valid_q
  BY DEF BufferFollowsState
<1>2. skid_valid_q \in BOOLEAN /\ out_valid_q \in BOOLEAN
  BY DEF output_buffer!BufferTypeOK
<1> QED
  BY <1>1, <1>2
  DEF output_buffer!Edge, output_buffer!RefillFromSkid, output_buffer!PassThrough,
      output_buffer!Skid, output_buffer!Stall, output_buffer!out_free, output_buffer!drained,
      output_buffer!s_ready, output_buffer!bufferVars, Writes

\* A step keeps what each parser state says about the buffer.
LEMMA BufferFollowsStateStep ==
  ASSUME ControlInv, NEW source, NEW in \in Input, Step(source, in)
  PROVE  BufferFollowsState'
<1> USE DEF HeaderStates, PayloadStates
<1>1. BufferMoves(in) /\ Moves(in)
  BY ParserMovesBuffer, StepMoves DEF Step, Clock
<1>2. BufferFollowsState /\ output_buffer!BufferTypeOK /\ state \in States
      /\ ended \in BOOLEAN
  BY DEF ControlInv, TypeOK, FilterTypeOK
<1>3. ended' = IF ResultHandshake(in) THEN FALSE
               ELSE ended \/ (OutputHandshake(in) /\ out_q.last)
  BY DEF Step, Follow
<1>4. OutputHandshake(in) <=> out_valid_q /\ in.m_ready
  BY DEF OutputHandshake, output_buffer!m_valid
<1>5. state \notin {"PASS_PAYLOAD", "DRAIN", "WAIT_OUTPUT"} => ~out_valid_q
  BY <1>2 DEF BufferFollowsState
<1>6. CASE /\ ~Writes(in) /\ skid_valid_q /\ out_valid_q /\ in.m_ready
           /\ out_q' = skid_q /\ out_valid_q' /\ ~skid_valid_q'
  <2>1. ~ended'
    BY <1>2, <1>3, <1>6 DEF BufferFollowsState
  <2>2. state' \in {"PASS_PAYLOAD", "DRAIN", "WAIT_OUTPUT"}
        /\ (state' = "PASS_PAYLOAD" => state = "PASS_PAYLOAD")
    BY <1>1, <1>5, <1>6 DEF BufferMoves, Moves, output_buffer!drained
  <2> QED
    BY <1>2, <1>6, <2>1, <2>2 DEF BufferFollowsState
<1>7. CASE /\ Writes(in) /\ output_buffer!drained(in.m_ready)
           /\ out_q' = BufferBeat(in) /\ out_valid_q' /\ ~skid_valid_q'
  <2>1. state \in PayloadStates
    BY <1>1, <1>7 DEF BufferMoves
  <2>2. ~ended'
    BY <1>2, <1>3, <1>4, <1>5, <2>1 DEF BufferFollowsState
  <2>3. BufferBeat(in).error => BufferBeat(in).last
    BY DEF BufferBeat
  <2>4. state' \in {"PASS_PAYLOAD", "DRAIN", "WAIT_OUTPUT"}
    BY <1>1, <1>7 DEF BufferMoves
  <2>5. state' = "PASS_PAYLOAD" => ~BufferBeat(in).last
    BY <1>1, <1>7 DEF BufferMoves, BufferBeat
  <2> QED
    BY <1>7, <2>2, <2>3, <2>4, <2>5 DEF BufferFollowsState
<1>8. CASE /\ ~Writes(in) /\ output_buffer!drained(in.m_ready)
           /\ out_q' = out_q /\ ~out_valid_q' /\ ~skid_valid_q'
  <2>1. state' # "WAIT_OUTPUT"
    BY <1>1, <1>2, <1>8 DEF BufferMoves, Moves, States
  <2>2. state' \in {"IDLE"} \cup HeaderStates \cup PayloadStates => ~ended'
    <3>1. CASE state = "RESULT_HOLD"
      BY <1>1, <1>3, <3>1 DEF Moves
    <3>2. CASE state \in {"IDLE"} \cup HeaderStates \cup PayloadStates
      BY <1>2, <1>3, <1>4, <1>5, <3>2 DEF BufferFollowsState
    <3>3. CASE state \in {"DRAIN", "WAIT_OUTPUT"}
      BY <1>1, <1>8, <3>3 DEF BufferMoves, Moves
    <3> QED
      BY <1>2, <3>1, <3>2, <3>3 DEF States
  <2> QED
    BY <1>8, <2>1, <2>2 DEF BufferFollowsState
<1>9. CASE /\ Writes(in) /\ out_valid_q /\ ~in.m_ready /\ skid_q' = BufferBeat(in)
           /\ skid_valid_q' /\ UNCHANGED <<out_q, out_valid_q>>
  <2>1. state = "PASS_PAYLOAD"
    BY <1>1, <1>5, <1>9 DEF BufferMoves
  <2>2. ~ended' /\ ~out_q.last
    BY <1>2, <1>3, <1>4, <1>9, <2>1 DEF BufferFollowsState
  <2>3. BufferBeat(in).error => BufferBeat(in).last
    BY DEF BufferBeat
  <2>4. state' \in {"PASS_PAYLOAD", "DRAIN", "WAIT_OUTPUT"}
    BY <1>1, <1>9 DEF BufferMoves
  <2>5. state' = "PASS_PAYLOAD" => ~BufferBeat(in).last
    BY <1>1, <1>9 DEF BufferMoves, BufferBeat
  <2> QED
    BY <1>2, <1>9, <2>2, <2>3, <2>4, <2>5 DEF BufferFollowsState
<1>10. CASE /\ ~Writes(in) /\ ~output_buffer!drained(in.m_ready)
            /\ out_valid_q /\ ~in.m_ready
            /\ UNCHANGED <<out_q, out_valid_q, skid_q, skid_valid_q>>
  <2>1. ~ended'
    BY <1>2, <1>3, <1>4, <1>10 DEF BufferFollowsState
  <2>2. state' \in {"PASS_PAYLOAD", "DRAIN", "WAIT_OUTPUT"}
        /\ (state' = "PASS_PAYLOAD" => state = "PASS_PAYLOAD")
    BY <1>1, <1>5, <1>10 DEF BufferMoves, Moves
  <2> QED
    BY <1>2, <1>10, <2>1, <2>2 DEF BufferFollowsState
<1> QED
  BY <1>2, <1>6, <1>7, <1>8, <1>9, <1>10, BufferEdges DEF Step, Clock

\* The first beat of a frame is written in a payload state, and taken later.
LEMMA NothingSentYetStep ==
  ASSUME ControlInv, NEW source, NEW in \in Input, Step(source, in)
  PROVE  NothingSentYet'
<1> USE DEF HeaderStates, PayloadStates
<1>1. BufferMoves(in) /\ Moves(in)
  BY ParserMovesBuffer, StepMoves DEF Step, Clock
<1>2. /\ BufferFollowsState /\ NothingSentYet /\ state \in States /\ StateFollowsFrame
      /\ result_valid_q \in BOOLEAN
  BY DEF ControlInv, TypeOK, FilterTypeOK
<1>3. sent' = IF ResultHandshake(in) THEN 0
              ELSE IF OutputHandshake(in) THEN sent + 1 ELSE sent
  BY DEF Step, Follow
<1>4. CASE state \in {"IDLE", "FIRST_PAYLOAD"} \cup HeaderStates
  <2>1. ~OutputHandshake(in) /\ sent = 0
    BY <1>2, <1>4 DEF OutputHandshake, output_buffer!m_valid, BufferFollowsState, NothingSentYet
  <2>2. sent' = 0
    BY <1>3, <2>1
  <2> QED
    BY <2>2 DEF NothingSentYet
<1>5. CASE state \in {"PASS_PAYLOAD", "DRAIN", "WAIT_OUTPUT"}
  <2>1. state' \notin {"IDLE", "FIRST_PAYLOAD"} \cup HeaderStates
    BY <1>1, <1>5 DEF BufferMoves, Moves
  <2> QED
    BY <2>1 DEF NothingSentYet
<1>6. CASE state = "RESULT_HOLD"
  <2>1. CASE ResultHandshake(in)
    BY <1>3, <2>1 DEF NothingSentYet
  <2>2. CASE ~ResultHandshake(in)
    BY <1>1, <1>6, <2>2 DEF Moves, NothingSentYet
  <2> QED
    BY <2>1, <2>2
<1> QED
  BY <1>2, <1>4, <1>5, <1>6 DEF States

\* A step keeps the types of the registers and of the bookkeeping.
LEMMA TypeStep ==
  ASSUME ControlInv, NEW source \in Streams, NEW in \in Input, Step(source, in)
  PROVE  TypeOK'
<1>1. TypeOK
  BY DEF ControlInv
<1>2. FilterTypeOK'
  BY <1>1, ClockTypeCorrect DEF TypeOK, Step
<1>3. frame' \in Streams \cup {<< >>} /\ cfg0' \in Config
  BY <1>1, ZeroTypes DEF TypeOK, Step, Follow, Input
<1>4. pos' \in Nat /\ sent' \in Nat /\ ended' \in BOOLEAN /\ started' \in Nat
  <2>1. out_q.last \in BOOLEAN /\ ended \in BOOLEAN
    BY <1>1 DEF TypeOK, FilterTypeOK, output_buffer!BufferTypeOK, output_buffer!Beat
  <2>2. (ended \/ (OutputHandshake(in) /\ out_q.last)) \in BOOLEAN
    BY <2>1
  <2>3. ended' \in BOOLEAN
    BY <2>2 DEF Step, Follow
  <2> QED
    BY <1>1, <2>3 DEF TypeOK, Step, Follow
<1>5. open' \in Nat
  <2>1. ResultHandshake(in) => open = 1
    BY DEF ControlInv, StateFollowsFrame, ResultHandshake, ClosedStates
  <2> QED
    BY <1>1, <2>1 DEF TypeOK, Step, Follow
<1> QED
  BY <1>2, <1>3, <1>4, <1>5 DEF TypeOK

-----------------------------------------------------------------------------
(* The invariant. *)

\* The invariant holds after power-up,
LEMMA InvariantInit == Init => ControlInv
<1> SUFFICES ASSUME Init PROVE ControlInv
  OBVIOUS
<1>1. TypeOK
  BY ResetTypeCorrect, ZeroTypes DEF Init, TypeOK
<1>2. FlagsMatchCount
  <2>1. payload_left = 0 /\ payload_one = FALSE /\ payload_many = FALSE
    BY DEF Init, FilterInit
  <2>2. (0 = 1) = FALSE /\ (0 > 1) = FALSE
    OBVIOUS
  <2> QED
    BY <2>1, <2>2, Zenon DEF FlagsMatchCount
<1>3. /\ state = "IDLE" /\ result_valid_q = FALSE /\ out_valid_q = FALSE
      /\ skid_valid_q = FALSE /\ ended = FALSE /\ pos = 0 /\ open = 0 /\ sent = 0
  BY DEF Init, FilterInit, output_buffer!BufferInit
<1> QED
  BY <1>1, <1>2, <1>3
  DEF ControlInv, StateFollowsFrame, LengthsLatched, PayloadExpected, BufferFollowsState,
      NothingSentYet, AcceptIsReason, HeaderStates, PayloadStates, ClosedStates

\* after a reset at any point,
LEMMA InvariantReset ==
  ASSUME ControlInv, Reset
  PROVE  ControlInv'
<1>1. TypeOK'
  BY ResetTypeCorrect, ZeroTypes DEF Reset, TypeOK
<1>2. FlagsMatchCount'
  BY DEF Reset, ResetEdge, load_payload_count, FlagsMatchCount
<1>3. /\ state' = "IDLE" /\ result_valid_q' = FALSE /\ out_valid_q' = FALSE
      /\ skid_valid_q' = FALSE /\ ended' = FALSE /\ pos' = 0 /\ open' = 0 /\ sent' = 0
  BY DEF Reset, ResetEdge, output_buffer!ClearEdge
<1> QED
  BY <1>1, <1>2, <1>3
  DEF ControlInv, StateFollowsFrame, LengthsLatched, PayloadExpected, BufferFollowsState,
      NothingSentYet, AcceptIsReason, HeaderStates, PayloadStates, ClosedStates

\* after every other edge,
LEMMA InvariantTick ==
  ASSUME ControlInv, Tick
  PROVE  ControlInv'
<1>1. PICK source \in Streams, in \in Input : Step(source, in) /\ source \in Sources
  BY TickIsStep
<1>2. Parser(in)
  BY <1>1 DEF Step, Clock
<1>3. TypeOK'
  BY <1>1, TypeStep
<1>4. FlagsMatchCount'
  BY <1>2, FlagsMatchCountStep DEF ControlInv
<1>5. StateFollowsFrame'
  BY <1>1, StateFollowsFrameStep
<1>6. LengthsLatched' /\ PayloadExpected' /\ AcceptIsReason'
  BY <1>2, LengthsLatchedStep, PayloadExpectedStep, AcceptIsReasonStep
<1>7. BufferFollowsState' /\ NothingSentYet'
  BY <1>1, BufferFollowsStateStep, NothingSentYetStep
<1> QED
  BY <1>3, <1>4, <1>5, <1>6, <1>7 DEF ControlInv

\* and while nothing changes.
LEMMA InvariantStutter ==
  ASSUME ControlInv, UNCHANGED vars
  PROVE  ControlInv'
<1>1. TypeOK'
  BY DEF ControlInv, TypeOK, FilterTypeOK, output_buffer!BufferTypeOK, vars, filterVars, parserVars,
         ghostVars
<1>2. FlagsMatchCount' /\ StateFollowsFrame' /\ PayloadExpected' /\ AcceptIsReason'
  BY DEF ControlInv, FlagsMatchCount, StateFollowsFrame, PayloadExpected, AcceptIsReason, vars,
         filterVars, parserVars, ghostVars
<1>3. LengthsLatched'
  BY DEF ControlInv, LengthsLatched, LengthRules, vars, filterVars, parserVars
<1>4. BufferFollowsState' /\ NothingSentYet'
  BY DEF ControlInv, BufferFollowsState, NothingSentYet, vars, filterVars, parserVars, ghostVars
<1> QED
  BY <1>1, <1>2, <1>3, <1>4 DEF ControlInv

\* The invariant holds of every behaviour of the filter in its environment.
THEOREM ControlHolds == Spec => []ControlInv
<1>1. ControlInv /\ [Next]_vars => ControlInv'
  BY InvariantReset, InvariantTick, InvariantStutter DEF Next
<1> QED
  BY InvariantInit, <1>1, PTL DEF Spec

-----------------------------------------------------------------------------
(* The properties of FilterHarness that follow from it. *)

\* Every register of udp_packet_filter keeps a value of its width and its
\* enumeration, also the 16-bit differences taken at bytes 40 and 41.
THEOREM TypeCorrect == Spec => []TypeOK
<1>1. ControlInv => TypeOK
  BY DEF ControlInv
<1> QED
  BY <1>1, ControlHolds, PTL

\* The one-cycle-early payload flags always agree with the counter, the
\* concurrent assertions of udp_packet_filter.sv:487-490.
THEOREM FlagsCorrect == Spec => []FlagsMatchCount
<1>1. ControlInv => FlagsMatchCount
  BY DEF ControlInv
<1> QED
  BY <1>1, ControlHolds, PTL

\* The buffer is empty exactly when its output register is.
LEMMA EmptyBuffer ==
  ASSUME ControlInv
  PROVE  Buffered = << >> <=> ~out_valid_q
<1>1. skid_valid_q => out_valid_q
  BY DEF ControlInv, BufferFollowsState
<1>2. skid_valid_q \in BOOLEAN /\ out_valid_q \in BOOLEAN
  BY DEF ControlInv, TypeOK, FilterTypeOK, output_buffer!BufferTypeOK
<1>3. <<out_q>> # << >> /\ <<out_q, skid_q>> # << >>
  OBVIOUS
<1> QED
  BY <1>1, <1>2, <1>3 DEF Buffered, output_buffer!Contents

\* One record per frame, never before its payload has left, and never an
\* accept with a reject's reason (spec.md 5 and 7).
THEOREM RecordsAccountedFor == Spec => []RecordAccounting
<1>1. ControlInv => RecordAccounting
  BY EmptyBuffer DEF ControlInv, RecordAccounting, StateFollowsFrame, BufferFollowsState,
                     AcceptIsReason, ClosedStates
<1> QED
  BY <1>1, ControlHolds, PTL

\* A frame that has ended shows its record as soon as no payload beat of it is
\* left: the parser never waits in WAIT_OUTPUT for an empty buffer.
THEOREM RecordsPrompt == Spec => []RecordIsPrompt
<1>1. ControlInv => RecordIsPrompt
  BY EmptyBuffer DEF ControlInv, RecordIsPrompt, StateFollowsFrame, BufferFollowsState, ClosedStates
<1> QED
  BY <1>1, ControlHolds, PTL

\* "error" only with "last", and no beat after "last" within a frame.
THEOREM PayloadsTerminate == Spec => []PayloadTerminates
<1>1. ControlInv => PayloadTerminates
  BY DEF ControlInv, PayloadTerminates, BufferFollowsState
<1> QED
  BY <1>1, ControlHolds, PTL

\* No byte of the next frame is accepted before the record is taken.
THEOREM InputWaits == Spec => InputWaitsForRecord
<1>1. ControlInv /\ [Next]_vars => [open = 1 => pos' \in {pos, 0} /\ open' <= 1]_vars
  <2> SUFFICES ASSUME ControlInv, open = 1, Next
               PROVE  pos' \in {pos, 0} /\ open' <= 1
    OBVIOUS
  <2>1. CASE Reset
    BY <2>1 DEF Reset
  <2>2. CASE Tick
    <3>1. PICK source \in Streams, in \in Input : Step(source, in)
      BY <2>2, TickIsStep
    <3>2. ~input_handshake(in)
      BY NoInputWhenClosed DEF ControlInv, StateFollowsFrame
    <3> QED
      BY <3>1, <3>2 DEF Step, Follow
  <2> QED
    BY <2>1, <2>2 DEF Next
<1> QED
  BY <1>1, ControlHolds, PTL DEF Spec, InputWaitsForRecord

\* What a consumer has not taken stays on its port unchanged, through whatever
\* the parser and the other consumer do, until it is taken or reset drops it.
THEOREM StalledOutputs == Spec => StalledOutputsHold
<1> DEFINE Held == \/ Reset
                   \/ /\ out_valid_q /\ sent' = sent => out_valid_q' /\ out_q' = out_q
                      /\ result_valid_q /\ open' = open => result_valid_q' /\ result' = result
<1>1. ControlInv /\ [Next]_vars => [Held]_vars
  <2> SUFFICES ASSUME ControlInv, Tick
               PROVE  /\ out_valid_q /\ sent' = sent => out_valid_q' /\ out_q' = out_q
                      /\ result_valid_q /\ open' = open => result_valid_q' /\ result' = result
    BY DEF Next
  <2>1. PICK source \in Streams, in \in Input : Step(source, in)
    BY TickIsStep
  <2>2. ASSUME out_valid_q, sent' = sent
        PROVE  out_valid_q' /\ out_q' = out_q
    <3>1. ~ResultHandshake(in)
      BY <2>2 DEF ControlInv, StateFollowsFrame, BufferFollowsState, ResultHandshake
    <3>2. ~OutputHandshake(in)
      BY <2>1, <2>2, <3>1 DEF Step, Follow, ControlInv, TypeOK
    <3>3. ~in.m_ready
      BY <2>2, <3>2 DEF OutputHandshake, output_buffer!m_valid
    <3> QED
      BY <2>1, <2>2, <3>3, BufferEdges
      DEF Step, Clock, ControlInv, TypeOK, FilterTypeOK, output_buffer!drained,
          output_buffer!out_free
  <2>3. ASSUME result_valid_q, open' = open
        PROVE  result_valid_q' /\ result' = result
    <3>1. state = "RESULT_HOLD" /\ open = 1
      BY <2>3 DEF ControlInv, StateFollowsFrame, ClosedStates
    <3>2. ~input_handshake(in)
      BY <3>1, NoInputWhenClosed DEF ClosedStates
    <3>3. ~ResultHandshake(in)
      BY <2>1, <2>3, <3>1, <3>2 DEF Step, Follow
    <3>4. NoHandshake(in)
      BY <2>1, <3>1, <3>3
      DEF Step, Clock, Parser, Idle, EthHeader, Ipv4Header, UdpHeader, UdpBadLengths,
          UdpHeaderEnd, FirstPayload, PassPayload, Drain, WaitOutput, ResultHold
    <3> QED
      BY <2>3, <3>4 DEF NoHandshake, parserVars
  <2> QED
    BY <2>2, <2>3
<1> QED
  BY <1>1, ControlHolds, PTL DEF Spec, StalledOutputsHold

-----------------------------------------------------------------------------
(* To the logic around it the filter is a FrameService. *)

\* How many beats the buffer holds.
Held == (IF out_valid_q THEN 1 ELSE 0) + (IF skid_valid_q THEN 1 ELSE 0)

\* The invariant says what that is.
LEMMA BufferedLength ==
  ControlInv => Len(Buffered) = Held /\ Held \in 0 .. 2 /\ (~out_valid_q => Held = 0)
<1> SUFFICES ASSUME ControlInv
             PROVE  Len(Buffered) = Held /\ Held \in 0 .. 2 /\ (~out_valid_q => Held = 0)
  OBVIOUS
<1>1. /\ skid_valid_q \in BOOLEAN /\ out_valid_q \in BOOLEAN
      /\ skid_valid_q => out_valid_q
  BY DEF ControlInv, TypeOK, FilterTypeOK, output_buffer!BufferTypeOK, BufferFollowsState
<1>2. Len(<<out_q, skid_q>>) = 2 /\ Len(<<out_q>>) = 1 /\ Len(<< >>) = 0
  OBVIOUS
<1> QED
  BY <1>1, <1>2 DEF Buffered, output_buffer!Contents, Held

\* A beat that is written is either sent or held.
LEMMA SentStep ==
  ASSUME ControlInv, NEW source, NEW in \in Input, Step(source, in), ~ResultHandshake(in)
  PROVE  sent' + Held' = sent + Held + (IF Writes(in) THEN 1 ELSE 0)
<1>1. BufferFollowsState /\ output_buffer!BufferTypeOK /\ sent \in Nat
      /\ skid_valid_q \in BOOLEAN /\ out_valid_q \in BOOLEAN
      /\ (skid_valid_q => out_valid_q)
  BY DEF ControlInv, TypeOK, FilterTypeOK, output_buffer!BufferTypeOK, BufferFollowsState
<1>2. sent' = IF out_valid_q /\ in.m_ready THEN sent + 1 ELSE sent
  BY DEF Step, Follow, OutputHandshake, output_buffer!m_valid
<1>3. output_buffer!Edge(buffer_s_valid(in), BufferBeat(in), in.m_ready)
  BY DEF Step, Clock
<1>4. \/ ~Writes(in) /\ skid_valid_q /\ out_valid_q /\ in.m_ready /\ out_valid_q' /\ ~skid_valid_q'
      \/ Writes(in) /\ output_buffer!drained(in.m_ready) /\ out_valid_q' /\ ~skid_valid_q'
      \/ ~Writes(in) /\ output_buffer!drained(in.m_ready) /\ ~out_valid_q' /\ ~skid_valid_q'
      \/ /\ Writes(in) /\ out_valid_q /\ ~in.m_ready /\ skid_valid_q' /\ out_valid_q' = out_valid_q
         /\ ~skid_valid_q
      \/ /\ ~Writes(in) /\ out_valid_q /\ ~in.m_ready
         /\ out_valid_q' = out_valid_q /\ skid_valid_q' = skid_valid_q
  BY <1>1, <1>3, BufferEdges DEF Writes, output_buffer!s_ready
<1>5. output_buffer!drained(in.m_ready) <=> ~skid_valid_q /\ (~out_valid_q \/ in.m_ready)
  BY DEF output_buffer!drained, output_buffer!out_free
<1> QED
  BY <1>1, <1>2, <1>4, <1>5 DEF Held

\* The variables of FrameService in terms of those of the filter, as the
\* instance Service has them.
Phase == CASE state = "IDLE" -> "idle"
           [] state = "WAIT_OUTPUT" -> "ended"
           [] state = "RESULT_HOLD" -> "record"
           [] OTHER -> "inside"
Payload == IF state = "PASS_PAYLOAD" THEN "open"
           ELSE IF sent + Len(Buffered) > 0 THEN "closed" ELSE "none"
Beats == [k \in 1 .. Len(Buffered) |-> [Buffered[k] EXCEPT !.data = 0]]
Shown == [accept |-> result.accept, sequence |-> result.sequence]

\* The beats left after an edge, and a beat without its data.
Left(in) == IF Beats # << >> /\ in.m_ready THEN Tail(Beats) ELSE Beats
Mark(beat) == [beat EXCEPT !.data = 0]

\* How FrameService ends a frame.
Finished(left) ==
  IF left = << >>
    THEN /\ Phase' = "record"
         /\ \E accept \in BOOLEAN : Shown' = [accept |-> accept, sequence |-> sequence_counter]
         /\ sequence_counter' = (sequence_counter + 1) % SEQUENCE_MODULUS
    ELSE Phase' = "ended" /\ UNCHANGED <<sequence_counter, Shown>>

\* The buffer holds the marked beats of its registers, oldest first.
LEMMA BeatsForm ==
  ControlInv => Beats = IF skid_valid_q THEN <<Mark(out_q), Mark(skid_q)>>
                        ELSE IF out_valid_q THEN <<Mark(out_q)>> ELSE << >>
<1> SUFFICES ASSUME ControlInv
             PROVE  Beats = IF skid_valid_q THEN <<Mark(out_q), Mark(skid_q)>>
                            ELSE IF out_valid_q THEN <<Mark(out_q)>> ELSE << >>
  OBVIOUS
<1>1. /\ skid_valid_q \in BOOLEAN /\ out_valid_q \in BOOLEAN
      /\ skid_valid_q => out_valid_q
  BY DEF ControlInv, TypeOK, FilterTypeOK, output_buffer!BufferTypeOK, BufferFollowsState
<1>2. CASE skid_valid_q
  <2>1. Buffered = <<out_q, skid_q>>
    BY <1>1, <1>2 DEF Buffered, output_buffer!Contents
  <2>2. [k \in 1 .. Len(<<out_q, skid_q>>) |-> [<<out_q, skid_q>>[k] EXCEPT !.data = 0]]
        = <<[out_q EXCEPT !.data = 0], [skid_q EXCEPT !.data = 0]>>
    OBVIOUS
  <2> QED
    BY <1>2, <2>1, <2>2 DEF Beats, Mark
<1>3. CASE out_valid_q /\ ~skid_valid_q
  <2>1. Buffered = <<out_q>>
    BY <1>1, <1>3 DEF Buffered, output_buffer!Contents
  <2>2. [k \in 1 .. Len(<<out_q>>) |-> [<<out_q>>[k] EXCEPT !.data = 0]]
        = <<[out_q EXCEPT !.data = 0]>>
    OBVIOUS
  <2> QED
    BY <1>3, <2>1, <2>2 DEF Beats, Mark
<1>4. CASE ~out_valid_q /\ ~skid_valid_q
  <2>1. Buffered = << >>
    BY <1>1, <1>4 DEF Buffered, output_buffer!Contents
  <2>2. [k \in 1 .. Len(<< >>) |-> [<< >>[k] EXCEPT !.data = 0]] = << >>
    OBVIOUS
  <2> QED
    BY <1>4, <2>1, <2>2 DEF Beats
<1> QED
  BY <1>1, <1>2, <1>3, <1>4

\* The sequence that a second element makes.
LEMMA AppendSecond ==
  ASSUME NEW b, NEW c
  PROVE  Append(<<b>>, c) = <<b, c>>
<1>1. <<b>> \in Seq({b, c}) /\ <<b, c>> \in Seq({b, c}) /\ Append(<<b>>, c) \in Seq({b, c})
  OBVIOUS
<1>2. Len(Append(<<b>>, c)) = 2 /\ Len(<<b, c>>) = 2
  BY <1>1
<1>3. Append(<<b>>, c) = [i \in 1 .. 2 |-> Append(<<b>>, c)[i]]
  BY <1>1, <1>2
<1>4. <<b, c>> = [i \in 1 .. 2 |-> <<b, c>>[i]]
  BY <1>1
<1>5. \A i \in 1 .. 2 : Append(<<b>>, c)[i] = <<b, c>>[i]
  <2>1. Append(<<b>>, c)[1] = b /\ Append(<<b>>, c)[2] = c
    BY <1>1
  <2> QED
    BY <2>1
<1> QED
  BY <1>3, <1>4, <1>5

\* An edge takes the oldest beat if the consumer is ready, and adds one if the
\* parser writes it.
LEMMA BeatsStep ==
  ASSUME ControlInv, ControlInv', NEW source, NEW in \in Input, Step(source, in)
  PROVE  Beats' = IF Writes(in) THEN Append(Left(in), Mark(BufferBeat(in))) ELSE Left(in)
<1>1. Beats = IF skid_valid_q THEN <<Mark(out_q), Mark(skid_q)>>
              ELSE IF out_valid_q THEN <<Mark(out_q)>> ELSE << >>
  BY BeatsForm
<1>2. (Beats = IF skid_valid_q THEN <<Mark(out_q), Mark(skid_q)>>
               ELSE IF out_valid_q THEN <<Mark(out_q)>> ELSE << >>)'
  BY BeatsForm, PTL
<1>3. /\ \A b, c : <<b, c>> # << >> /\ Tail(<<b, c>>) = <<c>>
      /\ \A b : <<b>> # << >> /\ Tail(<<b>>) = << >>
      /\ \A b : Append(<< >>, b) = <<b>>
  OBVIOUS
<1>4. BufferFollowsState /\ output_buffer!BufferTypeOK /\ (skid_valid_q => out_valid_q)
      /\ output_buffer!Edge(buffer_s_valid(in), BufferBeat(in), in.m_ready)
      /\ (Writes(in) => ~skid_valid_q)
  BY DEF ControlInv, TypeOK, FilterTypeOK, BufferFollowsState, Step, Clock, Writes,
         output_buffer!s_ready
<1>5. Mark(out_q)' = Mark(out_q') /\ Mark(skid_q)' = Mark(skid_q')
  BY DEF Mark
<1>6. output_buffer!drained(in.m_ready) <=> ~skid_valid_q /\ (~out_valid_q \/ in.m_ready)
  BY DEF output_buffer!drained, output_buffer!out_free
<1>7. CASE /\ ~Writes(in) /\ skid_valid_q /\ out_valid_q /\ in.m_ready
           /\ out_q' = skid_q /\ out_valid_q' /\ ~skid_valid_q'
  <2>1. Beats = <<Mark(out_q), Mark(skid_q)>> /\ Beats' = <<Mark(skid_q)>>
    BY <1>1, <1>2, <1>5, <1>7
  <2> QED
    BY <1>3, <1>7, <2>1 DEF Left
<1>8. CASE /\ Writes(in) /\ output_buffer!drained(in.m_ready)
           /\ out_q' = BufferBeat(in) /\ out_valid_q' /\ ~skid_valid_q'
  <2>1. Beats' = <<Mark(BufferBeat(in))>>
    BY <1>2, <1>5, <1>8
  <2>2. Left(in) = << >>
    BY <1>1, <1>3, <1>6, <1>8 DEF Left
  <2>3. Append(<< >>, Mark(BufferBeat(in))) = <<Mark(BufferBeat(in))>>
    BY <1>3
  <2> QED
    BY <1>8, <2>1, <2>2, <2>3
<1>9. CASE /\ ~Writes(in) /\ output_buffer!drained(in.m_ready)
           /\ out_q' = out_q /\ ~out_valid_q' /\ ~skid_valid_q'
  <2>1. Beats' = << >>
    BY <1>2, <1>9
  <2>2. Left(in) = << >>
    BY <1>1, <1>3, <1>6, <1>9 DEF Left
  <2> QED
    BY <1>9, <2>1, <2>2
<1>10. CASE /\ Writes(in) /\ out_valid_q /\ ~in.m_ready /\ skid_q' = BufferBeat(in)
            /\ skid_valid_q' /\ UNCHANGED <<out_q, out_valid_q>>
  <2>1. Beats' = <<Mark(out_q), Mark(BufferBeat(in))>>
    BY <1>2, <1>5, <1>10
  <2>2. Left(in) = <<Mark(out_q)>>
    BY <1>1, <1>4, <1>10 DEF Left
  <2>3. Append(<<Mark(out_q)>>, Mark(BufferBeat(in))) = <<Mark(out_q), Mark(BufferBeat(in))>>
    BY AppendSecond
  <2> QED
    BY <1>10, <2>1, <2>2, <2>3
<1>11. CASE /\ ~Writes(in) /\ ~output_buffer!drained(in.m_ready)
            /\ out_valid_q /\ ~in.m_ready
            /\ UNCHANGED <<out_q, out_valid_q, skid_q, skid_valid_q>>
  <2>1. Beats' = Beats
    BY <1>1, <1>2, <1>5, <1>11
  <2> QED
    BY <1>11, <2>1 DEF Left
<1> QED
  BY <1>4, <1>7, <1>8, <1>9, <1>10, <1>11, BufferEdges

\* A buffer without a beat has none to keep.
LEMMA LeftEmpty ==
  ASSUME ControlInv, NEW in
  PROVE  /\ Beats = << >> <=> ~out_valid_q
         /\ Left(in) = << >> <=> output_buffer!drained(in.m_ready)
         /\ Len(Beats) < 2 <=> ~skid_valid_q
<1>1. Beats = IF skid_valid_q THEN <<Mark(out_q), Mark(skid_q)>>
              ELSE IF out_valid_q THEN <<Mark(out_q)>> ELSE << >>
  BY BeatsForm
<1>2. /\ \A b, c : /\ <<Mark(b), Mark(c)>> # << >> /\ Tail(<<Mark(b), Mark(c)>>) = <<Mark(c)>>
                   /\ Len(<<Mark(b), Mark(c)>>) = 2
      /\ \A b : /\ <<Mark(b)>> # << >> /\ Tail(<<Mark(b)>>) = << >>
                /\ Len(<<Mark(b)>>) = 1
      /\ Len(<< >>) = 0
  OBVIOUS
<1>3. skid_valid_q => out_valid_q
  BY DEF ControlInv, BufferFollowsState
<1> QED
  BY <1>1, <1>2, <1>3 DEF Left, output_buffer!drained, output_buffer!out_free

\* Only the first byte of a frame and the record itself change what the result
\* port says of acceptance and number.
LEMMA LabelKept ==
  ASSUME FilterTypeOK, NEW in \in Input, Parser(in),
         ~(state = "IDLE" /\ input_handshake(in)),
         state' # "RESULT_HOLD" \/ state = "RESULT_HOLD"
  PROVE  Shown' = Shown
<1> DEFINE Same(fields) == /\ fields.accept = result.accept
                           /\ fields.sequence = result.sequence
<1> SUFFICES Same(result')
  BY DEF Shown
<1>1. Same(result)
  OBVIOUS
<1>2. Same(Ipv4Result(in)) /\ Same(UdpResult(in))
      /\ Same([result EXCEPT !.payload_len = (hdr.udp_length - 8) % 65536])
  <2>1. result \in Result
    BY DEF FilterTypeOK
  <2> QED
    BY <2>1 DEF Result, Ipv4Result, UdpResult
<1>3. \A fields, reason : state' # "RESULT_HOLD" => ~create_descriptor(fields, reason)
  BY DEF create_descriptor
<1>4. \A fields, next : Continue(fields, next) => result' = fields
  BY DEF Continue
<1>5. CASE state' # "RESULT_HOLD"
  <2>1. \A fields, reason : Settle(in, fields, reason) => result' = fields
    BY <1>3, <1>4, <1>5, Zenon DEF Settle
  <2>2. \A fields, next : Advance(in, fields, next) => result' = fields
    BY <1>3, <1>4, <1>5, Zenon DEF Advance
  <2>3. CASE EthHeader(in)
    <3>1. result' = result
      BY <2>1, <2>2, <2>3 DEF EthHeader
    <3> QED
      BY <1>1, <3>1
  <2>4. CASE Ipv4Header(in)
    <3>1. result' = result \/ result' = Ipv4Result(in)
      BY <2>1, <2>2, <2>4 DEF Ipv4Header
    <3> HIDE DEF Same
    <3> QED
      BY <1>1, <1>2, <3>1
  <2>5. CASE UdpHeader(in) \/ UdpBadLengths(in)
    <3>1. result' = result \/ result' = UdpResult(in)
      BY <2>1, <2>2, <2>5 DEF UdpHeader, UdpBadLengths
    <3> HIDE DEF Same
    <3> QED
      BY <1>1, <1>2, <3>1
  <2>6. CASE UdpHeaderEnd(in)
    <3> DEFINE filled == [result EXCEPT !.payload_len = (hdr.udp_length - 8) % 65536]
               first == IF cfg_q.msg_type_enable THEN "FIRST_PAYLOAD" ELSE "PASS_PAYLOAD"
               empty == IF cfg_q.msg_type_enable THEN REASON_MSG_TYPE_MISMATCH
                                                 ELSE REASON_ACCEPT
    <3>1. /\ filled = [result EXCEPT !.payload_len = (hdr.udp_length - 8) % 65536]
          /\ first = IF cfg_q.msg_type_enable THEN "FIRST_PAYLOAD" ELSE "PASS_PAYLOAD"
          /\ empty = IF cfg_q.msg_type_enable THEN REASON_MSG_TYPE_MISMATCH ELSE REASON_ACCEPT
      OBVIOUS
    <3> HIDE DEF filled, first, empty
    <3>2. \/ create_descriptor(filled, REASON_BAD_LENGTH_OR_TRUNCATED)
          \/ Settle(in, filled, REASON_DST_PORT_MISMATCH)
          \/ create_descriptor(filled, empty)
          \/ Continue(filled, "DRAIN")
          \/ Continue(filled, first)
      BY <2>6, <3>1, UdpHeaderEndOutcomes
    <3>3. result' = filled
      BY <1>3, <1>4, <1>5, <2>1, <3>2
    <3>4. Same(filled)
      BY <1>2 DEF filled
    <3> QED
      BY <3>3, <3>4
  <2>7. CASE FirstPayload(in) \/ PassPayload(in) \/ Drain(in) \/ WaitOutput(in)
    <3>1. result' = result
      BY <1>3, <1>4, <1>5, <2>7
      DEF FirstPayload, PassPayload, Forward, Drain, close_or_wait, WaitOutput
    <3> QED
      BY <1>1, <3>1
  <2>8. CASE ResultHold(in) \/ NoHandshake(in)
    BY <1>1, <2>8 DEF ResultHold, NoHandshake, parserVars
  <2>9. ~Idle(in)
    BY DEF Idle
  <2> QED
    BY <2>3, <2>4, <2>5, <2>6, <2>7, <2>8, <2>9 DEF Parser
<1>6. CASE state = "RESULT_HOLD"
  <2>1. ResultHold(in) \/ NoHandshake(in)
    BY <1>6
    DEF Parser, Idle, EthHeader, Ipv4Header, UdpHeader, UdpBadLengths, UdpHeaderEnd,
        FirstPayload, PassPayload, Drain, WaitOutput
  <2> QED
    BY <1>1, <2>1 DEF ResultHold, NoHandshake, parserVars
<1> QED
  BY <1>5, <1>6

\* What is shown when only acceptance changes.
LEMMA Relabelled ==
  \A a, s, b : [[accept |-> a, sequence |-> s] EXCEPT !.accept = b]
               = [accept |-> b, sequence |-> s]
OBVIOUS

\* A record that appears has the next number and is counted.
LEMMA LabelMade ==
  ASSUME ControlInv, ControlInv', NEW source, NEW in \in Input, Step(source, in),
         state' = "RESULT_HOLD", state # "RESULT_HOLD"
  PROVE  /\ \E accept \in BOOLEAN : Shown' = [accept |-> accept, sequence |-> sequence_counter]
         /\ sequence_counter' = (sequence_counter + 1) % SEQUENCE_MODULUS
<1>1. ~result_valid_q /\ result_valid_q'
  BY DEF ControlInv, StateFollowsFrame
<1>2. result_valid_q \in BOOLEAN /\ result' \in Result
  BY DEF ControlInv, TypeOK, FilterTypeOK
<1>3. PICK fields, reason : create_descriptor(fields, reason)
  <2>1. Parser(in)
    BY DEF Step, Clock
  <2> QED
    BY <1>1, <2>1, CounterMoves
<1>4. result'.sequence = sequence_counter
  BY <1>2, <1>3 DEF create_descriptor, Result
<1>5. result'.accept \in BOOLEAN
  BY <1>2 DEF Result
<1>6. Shown' = [accept |-> result'.accept, sequence |-> sequence_counter]
  BY <1>4 DEF Shown
<1> QED
  BY <1>3, <1>5, <1>6 DEF create_descriptor

\* The steps of FrameService, in the terms above.
Ready == Phase \in {"idle", "inside"} /\ (Payload = "open" => Len(Beats) < 2)

\* No byte comes in and no record is taken: a frame that has ended may be finished.
LEMMA WaitMaps ==
  ASSUME NEW e, ~(e.tvalid /\ Ready), ~(Phase = "record" /\ e.result_ready),
         Beats' = Left(e),
         IF Phase = "ended" THEN Finished(Left(e)) ELSE UNCHANGED <<Phase, sequence_counter, Shown>>,
         UNCHANGED <<cfg_q, Payload>>
  PROVE  Service!Wait(e)
BY Zenon
DEF Service!Wait, Service!s_tready, Service!result_valid, Service!m_tvalid, Service!Kept,
    Service!Finish, Ready, Left, Finished, Phase, Payload, Beats, Shown

\* The first byte of a frame brings its configuration, and may be all of it.
LEMMA BeginMaps ==
  ASSUME NEW e, Phase = "idle", e.tvalid, cfg_q' = e.cfg, Payload' = "none", Beats' = Left(e),
         IF e.tlast THEN Finished(Left(e))
         ELSE /\ Phase' = "inside" /\ Shown' = [Shown EXCEPT !.accept = FALSE]
              /\ UNCHANGED sequence_counter
  PROVE  Service!Begin(e)
BY Zenon
DEF Service!Begin, Service!m_tvalid, Service!Kept, Service!Finish, Left, Finished, Phase,
    Payload, Beats, Shown

\* A byte is read and not passed on; the last header byte may open the payload.
LEMMA DropMaps ==
  ASSUME NEW e, Phase = "inside", e.tvalid, Ready, Payload # "open", Beats' = Left(e),
         IF e.tlast THEN Finished(Left(e)) ELSE UNCHANGED <<Phase, sequence_counter, Shown>>,
         Payload' \in {Payload} \cup (IF Payload = "none" /\ ~e.tlast THEN {"open"} ELSE {}),
         UNCHANGED cfg_q
  PROVE  Service!Drop(e)
BY Zenon
DEF Service!Drop, Service!s_tready, Service!m_tvalid, Service!Kept, Service!Finish, Ready, Left,
    Finished, Phase, Payload, Beats, Shown

\* A byte is read and passed on, as the last of the payload or not.
LEMMA ForwardMaps ==
  ASSUME NEW e, Phase = "inside", e.tvalid, Ready, Payload # "closed",
         NEW last \in BOOLEAN, NEW error \in BOOLEAN, e.tlast => last, error => e.tlast,
         Beats' = Append(Left(e), [data |-> e.tdata, last |-> last, error |-> error]),
         Payload' = IF last THEN "closed" ELSE "open",
         Phase' = IF e.tlast THEN "ended" ELSE "inside",
         UNCHANGED <<cfg_q, sequence_counter, Shown>>
  PROVE  Service!Forward(e)
BY Zenon
DEF Service!Forward, Service!s_tready, Service!m_tvalid, Service!Kept, Ready, Left, Phase,
    Payload, Beats, Shown

\* The record is taken, and the next frame may begin.
LEMMA ReportMaps ==
  ASSUME NEW e, Phase = "record", e.result_ready, Phase' = "idle", Payload' = "none",
         UNCHANGED <<cfg_q, Beats, sequence_counter, Shown>>
  PROVE  Service!Report(e)
BY Zenon DEF Service!Report, Service!result_valid, Phase, Payload, Beats, Shown

\* Any of these edges is a step of the service.
LEMMA EdgeMaps ==
  ASSUME NEW e \in Service!Input, Service!ServiceEdge(e)
  PROVE  [Service!Next]_Service!serviceVars
BY DEF Service!Next

\* A sum that grows by one is positive, one that does not grow is as it was.
LEMMA SumGrows ==
  ASSUME NEW a \in Nat, NEW b \in Nat, NEW c \in Nat, NEW d \in Nat
  PROVE  /\ c + d = a + b + 1 => c + d > 0
         /\ c + d = a + b + 0 => (c + d > 0 <=> a + b > 0)
OBVIOUS

\* Whether payload of the frame has been written depends on the buffer and on
\* what was sent.
LEMMA PayloadStep ==
  ASSUME ControlInv, ControlInv', NEW source, NEW in \in Input, Step(source, in)
  PROVE  /\ ~ResultHandshake(in) /\ ~Writes(in) =>
              (sent' + Len(Buffered') > 0 <=> sent + Len(Buffered) > 0)
         /\ Writes(in) => sent' + Len(Buffered') > 0
<1>1. Len(Buffered) = Held /\ Held \in 0 .. 2 /\ (~out_valid_q => Held = 0)
  BY BufferedLength
<1>2. Len(Buffered') = Held' /\ Held' \in 0 .. 2
  <2>1. (Len(Buffered) = Held /\ Held \in 0 .. 2 /\ (~out_valid_q => Held = 0))'
    BY BufferedLength, PTL
  <2> QED
    BY <2>1
<1>3. sent \in Nat /\ sent' \in Nat
  BY DEF ControlInv, TypeOK
<1>4. Writes(in) => ~ResultHandshake(in)
  <2>1. Writes(in) => state \in PayloadStates
    BY ParserMovesBuffer DEF Step, Clock, BufferMoves
  <2> QED
    BY <2>1 DEF ControlInv, StateFollowsFrame, ResultHandshake, PayloadStates
<1>5. Held \in Nat /\ Held' \in Nat
  BY <1>1, <1>2
<1>6. ASSUME ~ResultHandshake(in), ~Writes(in) PROVE sent' + Held' > 0 <=> sent + Held > 0
  <2>1. sent' + Held' = sent + Held + 0
    BY <1>6, SentStep
  <2> QED
    BY <1>3, <1>5, <2>1, SumGrows
<1>7. ASSUME Writes(in) PROVE sent' + Held' > 0
  <2>1. sent' + Held' = sent + Held + 1
    BY <1>4, <1>7, SentStep
  <2> QED
    BY <1>3, <1>5, <2>1, SumGrows
<1> QED
  BY <1>1, <1>2, <1>6, <1>7

\* None has been in the states before it.
LEMMA Unopened ==
  ControlInv /\ state \in {"IDLE", "FIRST_PAYLOAD"} \cup HeaderStates =>
    ~(sent + Len(Buffered) > 0)
<1> SUFFICES ASSUME ControlInv, state \in {"IDLE", "FIRST_PAYLOAD"} \cup HeaderStates
             PROVE  ~(sent + Len(Buffered) > 0)
  OBVIOUS
<1>1. sent = 0 /\ ~out_valid_q
  BY DEF ControlInv, NothingSentYet, BufferFollowsState, HeaderStates
<1>2. Len(Buffered) = 0
  BY <1>1, BufferedLength
<1> QED
  BY <1>1, <1>2

\* Every edge is a step of the service on the same ports.
LEMMA TickIsServiceStep ==
  ASSUME ControlInv, ControlInv', Tick
  PROVE  [Service!Next]_Service!serviceVars
<1>1. PICK source \in Streams, in \in Input :
             Step(source, in) /\ source \in Sources /\ in.cfg \in Configs
  BY TickIsStep
<1> DEFINE e == [tvalid |-> in.tvalid, tdata |-> 0, tlast |-> in.tlast, cfg |-> in.cfg,
                 m_ready |-> in.m_ready, result_ready |-> in.result_ready]
           opened == sent + Len(Buffered) > 0
<1>2. e \in Service!Input
  BY <1>1 DEF Service!Input, Input
<1>3. /\ e.tvalid = in.tvalid /\ e.tdata = 0 /\ e.tlast = in.tlast /\ e.cfg = in.cfg
      /\ e.m_ready = in.m_ready /\ e.result_ready = in.result_ready /\ Left(e) = Left(in)
      /\ in.tlast \in BOOLEAN /\ in.tvalid \in BOOLEAN
  BY DEF Left, Input
<1>4. /\ Moves(in) /\ BufferMoves(in) /\ Parser(in) /\ FilterTypeOK /\ state \in States
      /\ state' \in States
  BY <1>1, StepMoves, ParserMovesBuffer DEF Step, Clock, ControlInv, TypeOK, FilterTypeOK
<1>5. Beats' = IF Writes(in) THEN Append(Left(in), Mark(BufferBeat(in))) ELSE Left(in)
  BY <1>1, BeatsStep
<1>6. /\ Beats = << >> <=> ~out_valid_q
      /\ Left(in) = << >> <=> output_buffer!drained(in.m_ready)
      /\ Len(Beats) < 2 <=> ~skid_valid_q
  BY LeftEmpty
<1>7. /\ ~ResultHandshake(in) /\ ~Writes(in) => (opened' <=> opened)
      /\ Writes(in) => opened'
  BY <1>1, PayloadStep, Zenon
<1>8. /\ state \in {"IDLE", "FIRST_PAYLOAD"} \cup HeaderStates => ~opened
      /\ state' \in {"IDLE", "FIRST_PAYLOAD"} \cup HeaderStates => ~opened'
  <2>1. (ControlInv /\ state \in {"IDLE", "FIRST_PAYLOAD"} \cup HeaderStates =>
           ~(sent + Len(Buffered) > 0))'
    BY Unopened, PTL
  <2>2. HeaderStates' = HeaderStates
    BY DEF HeaderStates
  <2> QED
    BY <2>1, <2>2, Unopened, Zenon
<1> HIDE DEF e, opened
<1> USE DEF HeaderStates, PayloadStates, ClosedStates
<1> SUFFICES Service!ServiceEdge(e)
  BY <1>2, EdgeMaps
<1>9. /\ state = "IDLE" => Phase = "idle"
      /\ state = "WAIT_OUTPUT" => Phase = "ended"
      /\ state = "RESULT_HOLD" => Phase = "record"
      /\ state \notin {"IDLE", "WAIT_OUTPUT", "RESULT_HOLD"} => Phase = "inside"
  BY DEF Phase
<1>10. /\ state' = "IDLE" => Phase' = "idle"
       /\ state' = "WAIT_OUTPUT" => Phase' = "ended"
       /\ state' = "RESULT_HOLD" => Phase' = "record"
       /\ state' \notin {"IDLE", "WAIT_OUTPUT", "RESULT_HOLD"} => Phase' = "inside"
  BY DEF Phase
<1>11. /\ state = "PASS_PAYLOAD" => Payload = "open"
       /\ state # "PASS_PAYLOAD" /\ opened => Payload = "closed"
       /\ state # "PASS_PAYLOAD" /\ ~opened => Payload = "none"
  BY DEF Payload, opened
<1>12. /\ state' = "PASS_PAYLOAD" => Payload' = "open"
       /\ state' # "PASS_PAYLOAD" /\ opened' => Payload' = "closed"
       /\ state' # "PASS_PAYLOAD" /\ ~opened' => Payload' = "none"
  BY DEF Payload, opened
<1>13. /\ result_valid_q <=> state = "RESULT_HOLD"
       /\ ~(state \in {"PASS_PAYLOAD", "DRAIN", "WAIT_OUTPUT"}) => ~out_valid_q /\ ~skid_valid_q
  BY DEF ControlInv, StateFollowsFrame, BufferFollowsState
<1>14. s_axis_tready <=> Ready
  BY <1>4, <1>6, <1>9, <1>11, <1>13
  DEF s_axis_tready, Ready, output_buffer!s_ready, States
<1>15. ASSUME state' # "RESULT_HOLD" \/ state = "RESULT_HOLD"
       PROVE  UNCHANGED sequence_counter
  <2>1. \A fields, reason : state # "RESULT_HOLD" => ~create_descriptor(fields, reason)
    BY <1>15 DEF create_descriptor
  <2> QED
    BY <1>4, <2>1, CounterMoves
<1>16. ASSUME state # "RESULT_HOLD", ~(state = "IDLE" /\ ~output_buffer!drained(in.m_ready)),
              state' = IF output_buffer!drained(in.m_ready) THEN "RESULT_HOLD" ELSE "WAIT_OUTPUT"
       PROVE  Finished(Left(in))
  <2>1. CASE output_buffer!drained(in.m_ready)
    <3>1. state' = "RESULT_HOLD"
      BY <1>16, <2>1
    <3> QED
      BY <1>1, <1>6, <1>10, <1>16, <2>1, <3>1, LabelMade DEF Finished
  <2>2. CASE ~output_buffer!drained(in.m_ready)
    <3>1. state' = "WAIT_OUTPUT" /\ state # "IDLE"
      BY <1>16, <2>2
    <3>2. Shown' = Shown
      BY <1>4, <3>1, LabelKept
    <3> QED
      BY <1>6, <1>10, <1>15, <2>2, <3>1, <3>2 DEF Finished
  <2> QED
    BY <2>1, <2>2
<1>17. CASE state = "IDLE" /\ input_handshake(in)
  <2>1. ~Writes(in) /\ Idle(in) /\ cfg_q' = in.cfg /\ in.tvalid
    BY <1>4, <1>17, CounterMoves
    DEF Writes, buffer_s_valid, Parser, EthHeader, Ipv4Header, UdpHeader, UdpBadLengths,
        UdpHeaderEnd, FirstPayload, PassPayload, Drain, WaitOutput, ResultHold, NoHandshake,
        input_handshake
  <2>2. output_buffer!drained(in.m_ready)
    BY <1>13, <1>17 DEF output_buffer!drained, output_buffer!out_free
  <2>3. state' = IF in.tlast THEN "RESULT_HOLD" ELSE "ETH_HEADER"
    BY <2>1 DEF Idle, create_descriptor, Continue
  <2>4. ~ResultHandshake(in)
    BY <1>13, <1>17 DEF ResultHandshake
  <2>5. Payload' = "none"
    BY <1>7, <1>8, <1>12, <1>17, <2>1, <2>3, <2>4
  <2>6. CASE in.tlast
    <3>1. Finished(Left(in))
      BY <1>16, <1>17, <2>2, <2>3, <2>6
    <3> QED
      BY <1>3, <1>5, <1>9, <1>17, <2>1, <2>5, <2>6, <3>1, BeginMaps DEF Service!ServiceEdge
  <2>7. CASE ~in.tlast
    <3>1. Phase' = "inside" /\ UNCHANGED sequence_counter
      BY <1>10, <1>15, <2>3, <2>7
    <3>2. Shown' = [Shown EXCEPT !.accept = FALSE]
      <4>1. result' = [ResetResult EXCEPT !.sequence = result.sequence]
        BY <2>1, <2>7 DEF Idle, Continue
      <4>2. result'.accept = FALSE /\ result'.sequence = result.sequence
        BY <4>1 DEF ResetResult
      <4>3. Shown' = [accept |-> FALSE, sequence |-> result.sequence]
        BY <4>2, Zenon DEF Shown
      <4>4. [Shown EXCEPT !.accept = FALSE] = [accept |-> FALSE, sequence |-> result.sequence]
        BY Relabelled, Zenon DEF Shown
      <4> QED
        BY <4>3, <4>4, Zenon
    <3> QED
      BY <1>3, <1>5, <1>9, <1>17, <2>1, <2>5, <2>7, <3>1, <3>2, BeginMaps
      DEF Service!ServiceEdge
  <2> QED
    BY <2>6, <2>7
<1>18. CASE state # "IDLE" /\ input_handshake(in) /\ ~Writes(in)
  <2>1. state \in HeaderStates \cup {"FIRST_PAYLOAD", "DRAIN"} /\ in.tvalid /\ s_axis_tready
    BY <1>18 DEF input_handshake, s_axis_tready, Writes, buffer_s_valid
  <2>2. Phase = "inside" /\ Payload # "open" /\ ~ResultHandshake(in) /\ UNCHANGED cfg_q
    BY <1>4, <1>9, <1>11, <1>13, <1>18, <2>1, CounterMoves DEF ResultHandshake
  <2>3. IF in.tlast
          THEN state' = IF output_buffer!drained(in.m_ready) THEN "RESULT_HOLD" ELSE "WAIT_OUTPUT"
          ELSE state' \in HeaderStates \cup PayloadStates \cup {"DRAIN"}
    BY <1>4, <1>13, <1>18, <2>1
    DEF Moves, BufferMoves, output_buffer!drained, output_buffer!out_free
  <2>4. Payload' \in {Payload} \cup (IF Payload = "none" /\ ~in.tlast THEN {"open"} ELSE {})
    <3>1. opened' <=> opened
      BY <1>7, <1>18, <2>2
    <3>2. state' = "PASS_PAYLOAD" => ~in.tlast /\ ~opened
      BY <1>4, <1>8, <1>18, <2>1, <2>3 DEF BufferMoves
    <3> QED
      BY <1>11, <1>12, <2>1, <3>1, <3>2
  <2>5. IF in.tlast THEN Finished(Left(in)) ELSE UNCHANGED <<Phase, sequence_counter, Shown>>
    <3>1. CASE in.tlast
      BY <1>16, <1>18, <2>1, <2>3, <3>1
    <3>2. CASE ~in.tlast
      <4>1. state' \in HeaderStates \cup PayloadStates \cup {"DRAIN"}
        BY <2>3, <3>2
      <4>2. Shown' = Shown
        BY <1>4, <1>18, <4>1, LabelKept
      <4> QED
        BY <1>10, <1>15, <2>2, <3>2, <4>1, <4>2
    <3> QED
      BY <3>1, <3>2
  <2> QED
    BY <1>3, <1>5, <1>14, <1>18, <2>1, <2>2, <2>4, <2>5, DropMaps DEF Service!ServiceEdge
<1>19. CASE Writes(in)
  <2>1. state \in PayloadStates /\ in.tvalid /\ s_axis_tready /\ input_handshake(in)
    BY <1>19 DEF Writes, buffer_s_valid, s_axis_tready, input_handshake
  <2>2. Phase = "inside" /\ Payload # "closed" /\ UNCHANGED cfg_q
    BY <1>4, <1>8, <1>9, <1>11, <2>1, CounterMoves
  <2>3. state' = IF in.tlast THEN "WAIT_OUTPUT"
                 ELSE IF payload_one THEN "DRAIN" ELSE "PASS_PAYLOAD"
    BY <1>4, <1>19 DEF BufferMoves
  <2> DEFINE last == payload_one \/ in.tlast
             error == in.tlast /\ payload_many
  <2>4. last \in BOOLEAN /\ error \in BOOLEAN /\ (in.tlast => last) /\ (error => in.tlast)
    BY <1>3, <1>4 DEF FilterTypeOK
  <2>5. Beats' = Append(Left(in), [data |-> 0, last |-> last, error |-> error])
    <3>1. Mark(BufferBeat(in)) = [data |-> 0, last |-> last, error |-> error]
      BY DEF Mark, BufferBeat
    <3> QED
      BY <1>5, <1>19, <3>1
  <2>6. last <=> state' # "PASS_PAYLOAD"
    BY <2>3
  <2> HIDE DEF last, error
  <2>7. Payload' = IF last THEN "closed" ELSE "open"
    BY <1>7, <1>12, <1>19, <2>6
  <2>8. Phase' = IF in.tlast THEN "ended" ELSE "inside"
    BY <1>10, <2>3
  <2>9. UNCHANGED <<sequence_counter, Shown>>
    BY <1>4, <1>15, <2>1, <2>3, LabelKept
  <2> QED
    BY <1>3, <1>14, <2>1, <2>2, <2>4, <2>5, <2>7, <2>8, <2>9, ForwardMaps
    DEF Service!ServiceEdge
<1>20. CASE ResultHandshake(in)
  <2>1. state = "RESULT_HOLD" /\ in.result_ready /\ state' = "IDLE"
    BY <1>4, <1>13, <1>20 DEF ResultHandshake, Moves
  <2>2. ~Writes(in) /\ ~(state = "IDLE" /\ input_handshake(in))
    BY <1>4, <2>1 DEF BufferMoves
  <2>3. Payload' = "none"
    BY <1>8, <1>12, <2>1
  <2>4. Beats' = Beats
    BY <1>5, <1>6, <1>13, <2>1, <2>2 DEF Left
  <2>5. UNCHANGED <<cfg_q, sequence_counter, Shown>>
    BY <1>4, <1>15, <2>1, <2>2, CounterMoves, LabelKept
  <2> QED
    BY <1>3, <1>9, <1>10, <2>1, <2>3, <2>4, <2>5, ReportMaps DEF Service!ServiceEdge
<1>21. CASE ~input_handshake(in) /\ ~ResultHandshake(in)
  <2>1. ~(in.tvalid /\ Ready) /\ ~(Phase = "record" /\ in.result_ready)
    BY <1>4, <1>9, <1>13, <1>14, <1>21 DEF input_handshake, ResultHandshake, States
  <2>2. ~Writes(in)
    BY <1>21 DEF Writes, buffer_s_valid, input_handshake, s_axis_tready
  <2>3. IF state = "WAIT_OUTPUT"
          THEN state' = IF output_buffer!drained(in.m_ready) THEN "RESULT_HOLD" ELSE "WAIT_OUTPUT"
          ELSE state' = state
    BY <1>4, <1>21 DEF Moves
  <2>4. UNCHANGED <<cfg_q, Payload>>
    <3>1. opened' <=> opened
      BY <1>7, <1>21, <2>2
    <3>2. state' = "PASS_PAYLOAD" <=> state = "PASS_PAYLOAD"
      BY <2>3
    <3> QED
      BY <1>4, <1>11, <1>12, <1>21, <3>1, <3>2, CounterMoves
  <2>5. IF Phase = "ended" THEN Finished(Left(in))
                           ELSE UNCHANGED <<Phase, sequence_counter, Shown>>
    <3>1. CASE state = "WAIT_OUTPUT"
      BY <1>9, <1>16, <2>3, <3>1
    <3>2. CASE state # "WAIT_OUTPUT"
      <4>1. state' = state
        BY <2>3, <3>2
      <4>2. Phase # "ended" /\ Phase' = Phase
        BY <1>4, <1>9, <1>10, <3>2, <4>1
      <4>3. UNCHANGED <<sequence_counter, Shown>>
        BY <1>4, <1>15, <1>21, <4>1, LabelKept
      <4> QED
        BY <4>2, <4>3
    <3> QED
      BY <3>1, <3>2
  <2> QED
    BY <1>3, <1>5, <2>1, <2>2, <2>4, <2>5, WaitMaps DEF Service!ServiceEdge
<1> QED
  BY <1>17, <1>18, <1>19, <1>20, <1>21

\* The filter after power-up, after a reset and between edges is the service.
LEMMA ServiceInit == Init => Service!ServiceInit
<1> SUFFICES ASSUME Init PROVE Service!ServiceInit
  OBVIOUS
<1>1. /\ state = "IDLE" /\ cfg_q = ResetConfig /\ sequence_counter = 0 /\ result = ResetResult
      /\ sent = 0 /\ ~out_valid_q
  BY DEF Init, FilterInit, output_buffer!BufferInit
<1>2. ControlInv
  BY InvariantInit
<1>3. Phase = "idle" /\ Beats = << >>
  BY <1>1, <1>2, LeftEmpty DEF Phase
<1>4. Payload = "none"
  BY <1>1, <1>2, Unopened DEF Payload
<1>5. Shown = [accept |-> FALSE, sequence |-> 0]
  BY <1>1 DEF Shown, ResetResult
<1> QED
  BY <1>1, <1>3, <1>4, <1>5, Zenon DEF Service!ServiceInit, Phase, Payload, Beats, Shown

\* An edge with rst_n low clears the service, whatever it was at.
LEMMA ResetIsServiceStep ==
  ASSUME ControlInv', Reset
  PROVE  Service!ClearEdge
<1>1. /\ state' = "IDLE" /\ cfg_q' = ResetConfig /\ sequence_counter' = 0
      /\ result' = ResetResult /\ sent' = 0 /\ ~out_valid_q'
  BY DEF Reset, ResetEdge, output_buffer!ClearEdge
<1>2. Phase' = "idle"
  BY <1>1 DEF Phase
<1>3. Beats' = << >>
  <2>1. (Beats = IF skid_valid_q THEN <<Mark(out_q), Mark(skid_q)>>
                 ELSE IF out_valid_q THEN <<Mark(out_q)>> ELSE << >>)'
    BY BeatsForm, PTL
  <2>2. ~skid_valid_q'
    BY DEF Reset, ResetEdge, output_buffer!ClearEdge
  <2> QED
    BY <1>1, <2>1, <2>2
<1>4. Payload' = "none"
  <2>1. (ControlInv /\ state \in {"IDLE", "FIRST_PAYLOAD"} \cup HeaderStates =>
           ~(sent + Len(Buffered) > 0))'
    BY Unopened, PTL
  <2> QED
    BY <1>1, <2>1 DEF Payload
<1>5. Shown' = [accept |-> FALSE, sequence |-> 0]
  BY <1>1 DEF Shown, ResetResult
<1> QED
  BY <1>1, <1>2, <1>3, <1>4, <1>5, Zenon DEF Service!ClearEdge, Phase, Payload, Beats, Shown

\* While the filter stands still the service does.
LEMMA StutterIsServiceStutter ==
  ASSUME UNCHANGED vars
  PROVE  UNCHANGED Service!serviceVars
BY DEF vars, filterVars, parserVars, ghostVars, Service!serviceVars, Buffered,
       output_buffer!Contents

\* The filter implements the service that HwTestCore is built around: every
\* edge, whatever the source, the cfg_* ports and the two consumers do, is one
\* the service allows, and so is a reset at any point.
THEOREM ServiceImplemented == Spec => ImplementsService
<1>1. ControlInv /\ ControlInv' /\ [Next]_vars => [Service!Next]_Service!serviceVars
  <2>1. ASSUME ControlInv, ControlInv', Reset PROVE [Service!Next]_Service!serviceVars
    BY <2>1, ResetIsServiceStep DEF Service!Next
  <2>2. ASSUME ControlInv, ControlInv', Tick PROVE [Service!Next]_Service!serviceVars
    BY <2>2, TickIsServiceStep
  <2>3. ASSUME UNCHANGED vars PROVE [Service!Next]_Service!serviceVars
    BY <2>3, StutterIsServiceStutter
  <2> QED
    BY <2>1, <2>2, <2>3, Zenon DEF Next
<1> QED
  BY <1>1, ServiceInit, ControlHolds, PTL DEF Spec, ImplementsService, Service!Spec

-----------------------------------------------------------------------------
(* The three cases of the reference model.                                 *)

\* The reason codes of the program and of the hardware are the same numbers.
LEMMA SameReasons ==
  /\ Model!REASON_ACCEPT = REASON_ACCEPT
  /\ Model!REASON_NON_IPV4 = REASON_NON_IPV4
  /\ Model!REASON_BAD_IPV4_HEADER = REASON_BAD_IPV4_HEADER
  /\ Model!REASON_NON_UDP = REASON_NON_UDP
  /\ Model!REASON_FRAGMENTED = REASON_FRAGMENTED
  /\ Model!REASON_BAD_LENGTH_OR_TRUNCATED = REASON_BAD_LENGTH_OR_TRUNCATED
  /\ Model!REASON_DST_PORT_MISMATCH = REASON_DST_PORT_MISMATCH
  /\ Model!REASON_MSG_TYPE_MISMATCH = REASON_MSG_TYPE_MISMATCH
  /\ Model!REASON_FRAME_TOO_LONG = REASON_FRAME_TOO_LONG
  /\ Model!PAYLOAD_OFFSET = 42
  /\ Model!ZeroWord = ZeroWord
BY DEF Model!REASON_ACCEPT, Model!REASON_NON_IPV4, Model!REASON_BAD_IPV4_HEADER,
       Model!REASON_NON_UDP, Model!REASON_FRAGMENTED, Model!REASON_BAD_LENGTH_OR_TRUNCATED,
       Model!REASON_DST_PORT_MISMATCH, Model!REASON_MSG_TYPE_MISMATCH,
       Model!REASON_FRAME_TOO_LONG, Model!PAYLOAD_OFFSET, Model!ZeroWord,
       REASON_ACCEPT, REASON_NON_IPV4, REASON_BAD_IPV4_HEADER, REASON_NON_UDP,
       REASON_FRAGMENTED, REASON_BAD_LENGTH_OR_TRUNCATED, REASON_DST_PORT_MISMATCH,
       REASON_MSG_TYPE_MISMATCH, REASON_FRAME_TOO_LONG, ZeroWord

\* What the reference model says of the first n bytes of frame f.
Gives(f, n, cfg, seq, reason, metadata, forwarded) ==
  LET expected == Model!classify_frame(f, n, cfg, seq)
  IN expected.record = Model!Record(reason, metadata, seq) /\ expected.forwarded = forwarded

\* Bytes and 16-bit fields of a frame are numbers, as far as it reaches.
LEMMA FieldTypes ==
  ASSUME NEW f \in Seq(Byte)
  PROVE  /\ \A i \in 0 .. Len(f) - 1 : Model!At(f, i) \in Byte /\ Model!At(f, i) \in Int
         /\ \A i \in 0 .. Len(f) - 2 : Model!U16(f, i) \in Int /\ Model!U16(f, i) >= 0
<1>1. ASSUME NEW i \in 0 .. Len(f) - 1
      PROVE  Model!At(f, i) \in Byte /\ Model!At(f, i) \in Int /\ Model!At(f, i) >= 0
  <2>1. f[i + 1] \in Byte
    BY <1>1
  <2> QED
    BY <2>1, Range, SMT DEF Model!At, Byte
<1>2. ASSUME NEW i \in 0 .. Len(f) - 2
      PROVE  Model!U16(f, i) \in Int /\ Model!U16(f, i) >= 0
  <2>1. i \in 0 .. Len(f) - 1 /\ i + 1 \in 0 .. Len(f) - 1
    BY <1>2
  <2> QED
    BY <1>1, <2>1 DEF Model!U16
<1> QED
  BY <1>1, <1>2

\* A frame that ends inside a header that has passed so far is truncated, and
\* its record holds the fields that were complete.
LEMMA TruncatedHeader ==
  ASSUME NEW f, NEW n \in Nat, n < 42, HeaderPasses(f, n),
         n >= 18 => Model!U16(f, 16) \in Int, NEW cfg, NEW seq
  PROVE  Gives(f, n, cfg, seq, REASON_BAD_LENGTH_OR_TRUNCATED, Model!Metadata(f, n), 0)
<1> DEFINE truncated(metadata) ==
             Gives(f, n, cfg, seq, REASON_BAD_LENGTH_OR_TRUNCATED, metadata, 0)
<1>1. ASSUME n >= 15
      PROVE  /\ ~(n < 14) /\ ~(n < 15) /\ Model!U16(f, 12) = 2048
             /\ ~(Model!At(f, 14) \div 16 # 4 \/ Model!At(f, 14) % 16 # 5)
  BY <1>1 DEF HeaderPasses
<1>2. ASSUME n >= 18
      PROVE  ~(n < 18) /\ ~(14 + Model!U16(f, 16) > MAX_LOGICAL_FRAME_BYTES)
  BY <1>2, MaxLogicalAssumption DEF HeaderPasses
<1>3. ASSUME n < 24
      PROVE  truncated(Model!NoMetadata)
  <2>1. CASE n < 14
    BY <2>1, SameReasons, SMT DEF Gives, Model!classify_frame, Model!Expect
  <2>2. CASE n = 14
    <3>1. ~(n < 14) /\ n < 15 /\ Model!U16(f, 12) = 2048
      BY <2>2 DEF HeaderPasses
    <3> QED
      BY <3>1, SameReasons, SMT DEF Gives, Model!classify_frame, Model!Expect
  <2>3. CASE n >= 15 /\ n < 18
    BY <1>1, <2>3, SameReasons, SMT DEF Gives, Model!classify_frame, Model!Expect
  <2>4. CASE n >= 18
    BY <1>1, <1>2, <1>3, <2>4, SameReasons, SMT DEF Gives, Model!classify_frame, Model!Expect
  <2>5. n < 14 \/ n = 14 \/ (n >= 15 /\ n < 18) \/ n >= 18
    OBVIOUS
  <2> QED
    BY <2>1, <2>2, <2>3, <2>4, <2>5, Zenon
<1>4. ASSUME n >= 24
      PROVE  truncated(Model!Metadata(f, n))
  <2>1. ~(n < 24) /\ Model!At(f, 23) = 17 /\ Model!U16(f, 20) % 16384 = 0
    BY <1>4 DEF HeaderPasses
  <2>2. n < Model!PAYLOAD_OFFSET
    BY SameReasons
  <2> QED
    BY <1>1, <1>2, <1>4, <2>1, <2>2, SameReasons, SMT DEF Gives, Model!classify_frame, Model!Expect
<1>5. n < 24 => Model!Metadata(f, n) = Model!NoMetadata
  BY DEF Model!Metadata, Model!NoMetadata
<1> QED
  <2>1. CASE n < 24
    BY <1>3, <1>5, <2>1, Zenon
  <2>2. CASE n >= 24
    BY <1>4, <2>2, Zenon
  <2>3. n < 24 \/ n >= 24
    OBVIOUS
  <2> QED
    BY <2>1, <2>2, <2>3, Zenon

\* The check that fails first decides, whatever follows it.
LEMMA NotIpv4 ==
  ASSUME NEW f, NEW n \in Nat, n >= 14, Model!U16(f, 12) # 2048, NEW cfg, NEW seq
  PROVE  Gives(f, n, cfg, seq, REASON_NON_IPV4, Model!NoMetadata, 0)
<1>1. ~(n < 14)
  OBVIOUS
<1> QED
  BY <1>1, SameReasons, SMT DEF Gives, Model!classify_frame, Model!Expect

\* The same for the version and header length byte,
LEMMA BadIpv4Header ==
  ASSUME NEW f, NEW n \in Nat, n >= 15, HeaderPasses(f, 14),
         Model!At(f, 14) \div 16 # 4 \/ Model!At(f, 14) % 16 # 5, NEW cfg, NEW seq
  PROVE  Gives(f, n, cfg, seq, REASON_BAD_IPV4_HEADER, Model!NoMetadata, 0)
<1>1. ~(n < 14) /\ ~(n < 15) /\ Model!U16(f, 12) = 2048
  BY DEF HeaderPasses
<1> QED
  BY <1>1, SameReasons, SMT DEF Gives, Model!classify_frame, Model!Expect

\* for a total length that no frame may have,
LEMMA FrameTooLong ==
  ASSUME NEW f, NEW n \in Nat, n >= 18, HeaderPasses(f, 17),
         14 + Model!U16(f, 16) > MAX_LOGICAL_FRAME_BYTES, NEW cfg, NEW seq
  PROVE  Gives(f, n, cfg, seq, REASON_FRAME_TOO_LONG, Model!NoMetadata, 0)
<1>1. /\ ~(n < 14) /\ ~(n < 15) /\ ~(n < 18) /\ Model!U16(f, 12) = 2048
      /\ ~(Model!At(f, 14) \div 16 # 4 \/ Model!At(f, 14) % 16 # 5)
  BY DEF HeaderPasses
<1> QED
  BY <1>1, SameReasons, SMT DEF Gives, Model!classify_frame, Model!Expect

\* for the protocol and the fragment bits,
LEMMA NotUdpOrFragment ==
  ASSUME NEW f, NEW n \in Nat, n >= 24, HeaderPasses(f, 23), Model!U16(f, 16) \in Int,
         NEW cfg, NEW seq
  PROVE  /\ Model!At(f, 23) # 17 =>
              Gives(f, n, cfg, seq, REASON_NON_UDP, Model!NoMetadata, 0)
         /\ Model!At(f, 23) = 17 /\ Model!U16(f, 20) % 16384 # 0 =>
              Gives(f, n, cfg, seq, REASON_FRAGMENTED, Model!NoMetadata, 0)
<1>1. /\ ~(n < 14) /\ ~(n < 15) /\ ~(n < 18) /\ ~(n < 24) /\ Model!U16(f, 12) = 2048
      /\ ~(Model!At(f, 14) \div 16 # 4 \/ Model!At(f, 14) % 16 # 5)
  BY DEF HeaderPasses
<1>2. ~(14 + Model!U16(f, 16) > MAX_LOGICAL_FRAME_BYTES)
  BY MaxLogicalAssumption DEF HeaderPasses
<1> QED
  BY <1>1, <1>2, SameReasons, SMT DEF Gives, Model!classify_frame, Model!Expect

\* and for the length rules at the end of the UDP header.
LEMMA BadLengths ==
  ASSUME NEW f, NEW n \in Nat, n >= 42, HeaderPasses(f, 41), Model!U16(f, 16) \in Int,
         ~Model!LengthsOk(f), NEW cfg, NEW seq
  PROVE  Gives(f, n, cfg, seq, REASON_BAD_LENGTH_OR_TRUNCATED, Model!Metadata(f, n), 0)
<1>1. /\ ~(n < 14) /\ ~(n < 15) /\ ~(n < 18) /\ ~(n < 24) /\ Model!U16(f, 12) = 2048
      /\ ~(Model!At(f, 14) \div 16 # 4 \/ Model!At(f, 14) % 16 # 5)
      /\ Model!At(f, 23) = 17 /\ Model!U16(f, 20) % 16384 = 0
  BY DEF HeaderPasses
<1>2. ~(14 + Model!U16(f, 16) > MAX_LOGICAL_FRAME_BYTES)
  BY MaxLogicalAssumption DEF HeaderPasses
<1> QED
  BY <1>1, <1>2, SameReasons, SMT DEF Gives, Model!classify_frame, Model!Expect

\* With a good header the reference model gets to the datagram, and what is
\* there of its payload is what has arrived.
LEMMA GoodHeaderPasses ==
  ASSUME NEW f, NEW n \in Nat, n >= 42, ~HeaderFails(f, n), Model!U16(f, 16) \in Int,
         Model!U16(f, 38) \in Int, NEW cfg, NEW seq
  PROVE  /\ Model!classify_frame(f, n, cfg, seq) = Model!ClassifyDatagram(f, n, cfg, seq)
         /\ Model!Available(f, n) = Arrived(f, n)
         /\ Model!LengthsOk(f)
<1>1. /\ ~(n < 14) /\ ~(n < 15) /\ ~(n < 18) /\ ~(n < 24) /\ Model!U16(f, 12) = 2048
      /\ ~(Model!At(f, 14) \div 16 # 4 \/ Model!At(f, 14) % 16 # 5)
      /\ Model!At(f, 23) = 17 /\ Model!U16(f, 20) % 16384 = 0
      /\ Model!LengthsOk(f)
  BY DEF HeaderFails, HeaderPasses
<1>2. ~(14 + Model!U16(f, 16) > MAX_LOGICAL_FRAME_BYTES)
  BY MaxLogicalAssumption DEF HeaderFails, HeaderPasses
<1>3. ~(n < Model!PAYLOAD_OFFSET)
  BY SameReasons
<1>4. Model!classify_frame(f, n, cfg, seq) = Model!ClassifyDatagram(f, n, cfg, seq)
  BY <1>1, <1>2, <1>3, SameReasons, SMT DEF Gives, Model!classify_frame, Model!Expect
<1>5. Model!Available(f, n) = Arrived(f, n)
  BY <1>1, SameReasons DEF Model!Available, Arrived, Declared, Model!LengthsOk
<1> QED
  BY <1>1, <1>4, <1>5

\* A frame with a good header declares a payload length that its bytes may not
\* reach; the rules look at the port and at the first payload byte.
LEMMA GoodHeader ==
  ASSUME NEW f, NEW n \in Nat, n >= 42, ~HeaderFails(f, n), Model!U16(f, 16) \in Int,
         Model!U16(f, 38) \in Int, NEW cfg, NEW seq
  PROVE  LET reason == IF Arrived(f, n) < Declared(f) THEN REASON_BAD_LENGTH_OR_TRUNCATED
                                                      ELSE FilterReason(f, cfg)
             metadata == [Model!Metadata(f, n) EXCEPT !.payload_len = Declared(f)]
             forwarded == IF Wanted(f, cfg) THEN Arrived(f, n) ELSE 0
         IN Gives(f, n, cfg, seq, reason, metadata, forwarded)
<1>1. Model!classify_frame(f, n, cfg, seq) = Model!ClassifyDatagram(f, n, cfg, seq)
  BY GoodHeaderPasses
<1>2. Model!Available(f, n) = Arrived(f, n) /\ Model!LengthsOk(f)
  BY GoodHeaderPasses
<1>3. Arrived(f, n) \in Int /\ Declared(f) \in Int /\ Declared(f) >= 0 /\ Arrived(f, n) >= 0
      /\ Arrived(f, n) <= Declared(f)
  BY <1>2 DEF Arrived, Declared, Model!LengthsOk
<1> DEFINE available == Arrived(f, n)
           metadata == [Model!Metadata(f, n) EXCEPT !.payload_len = Declared(f)]
           port == Model!PortMatches(f, cfg)
           message == Model!MessageMatches(f, n, cfg)
           forwarded == IF port /\ message THEN available ELSE 0
           expected == Model!classify_frame(f, n, cfg, seq)
<1>4. expected =
        IF available < Declared(f)
          THEN Model!Expect(Model!Record(REASON_BAD_LENGTH_OR_TRUNCATED, metadata, seq),
                            forwarded, forwarded > 0)
        ELSE IF ~port
          THEN Model!Expect(Model!Record(REASON_DST_PORT_MISMATCH, metadata, seq), 0, FALSE)
        ELSE IF ~message
          THEN Model!Expect(Model!Record(REASON_MSG_TYPE_MISMATCH, metadata, seq), 0, FALSE)
        ELSE Model!Expect(Model!Record(REASON_ACCEPT, metadata, seq), available, FALSE)
  BY <1>1, <1>2, SameReasons, Zenon DEF Model!ClassifyDatagram, Declared
<1>5. expected.record = Model!Record(IF available < Declared(f) THEN REASON_BAD_LENGTH_OR_TRUNCATED
                                     ELSE IF ~port THEN REASON_DST_PORT_MISMATCH
                                     ELSE IF ~message THEN REASON_MSG_TYPE_MISMATCH
                                     ELSE REASON_ACCEPT, metadata, seq)
      /\ expected.forwarded = forwarded
  <2> HIDE DEF port, message, available, metadata, expected
  <2> QED
    BY <1>4 DEF Model!Expect
<1>6. message <=> (cfg.msg_type_enable => available > 0 /\ Model!At(f, 42) = cfg.msg_type)
  BY <1>2, SameReasons DEF Model!MessageMatches
<1>7. Wanted(f, cfg) <=> /\ port
                         /\ cfg.msg_type_enable => Declared(f) > 0 /\ Model!At(f, 42) = cfg.msg_type
  BY DEF Wanted
<1>8. forwarded = IF Wanted(f, cfg) THEN available ELSE 0
  <2> HIDE DEF port, message, available
  <2>1. available = 0 \/ (available > 0 /\ Declared(f) > 0)
    BY <1>3 DEF available
  <2> QED
    BY <1>6, <1>7, <2>1
<1>9. ~(available < Declared(f)) => (message /\ port <=> Wanted(f, cfg))
  <2> HIDE DEF port, message
  <2> QED
    BY <1>3, <1>6, <1>7
<1> QED
  <2> HIDE DEF message, available, metadata, expected
  <2>1. (IF available < Declared(f) THEN REASON_BAD_LENGTH_OR_TRUNCATED
         ELSE IF ~port THEN REASON_DST_PORT_MISMATCH
         ELSE IF ~message THEN REASON_MSG_TYPE_MISMATCH ELSE REASON_ACCEPT)
        = IF available < Declared(f) THEN REASON_BAD_LENGTH_OR_TRUNCATED
                                     ELSE FilterReason(f, cfg)
    BY <1>9 DEF FilterReason
  <2> QED
    BY <1>5, <1>8, <2>1 DEF Gives, available, metadata, expected

\* A failed header stays failed, and the rest of the frame changes nothing.
LEMMA FailedStaysFailed ==
  ASSUME NEW f, NEW n \in Nat, HeaderFails(f, n), n >= 18 => Model!U16(f, 16) \in Int,
         NEW cfg, NEW seq
  PROVE  /\ HeaderFails(f, n + 1)
         /\ \E reason, metadata :
              /\ metadata = MetadataOf(metadata)
              /\ Gives(f, n, cfg, seq, reason, metadata, 0)
              /\ Gives(f, n + 1, cfg, seq, reason, metadata, 0)
<1> n + 1 \in Nat
  OBVIOUS
<1>1. Model!NoMetadata = MetadataOf(Model!NoMetadata)
      /\ Model!Metadata(f, n) = MetadataOf(Model!Metadata(f, n))
  BY DEF Model!NoMetadata, Model!Metadata, MetadataOf
<1>2. HeaderFails(f, n + 1)
  BY DEF HeaderFails, HeaderPasses
<1>3. CASE n >= 14 /\ Model!U16(f, 12) # 2048
  BY <1>1, <1>2, <1>3, NotIpv4
<1>4. CASE n >= 15 /\ HeaderPasses(f, 14) /\ ~HeaderPasses(f, 15)
  <2>1. Model!At(f, 14) \div 16 # 4 \/ Model!At(f, 14) % 16 # 5
    BY <1>4 DEF HeaderPasses
  <2> QED
    BY <1>1, <1>2, <1>4, <2>1, BadIpv4Header
<1>5. CASE n >= 18 /\ HeaderPasses(f, 17) /\ ~HeaderPasses(f, 18)
  <2>1. 14 + Model!U16(f, 16) > MAX_LOGICAL_FRAME_BYTES
    BY <1>5, MaxLogicalAssumption DEF HeaderPasses
  <2> QED
    BY <1>1, <1>2, <1>5, <2>1, FrameTooLong
<1>6. CASE n >= 24 /\ HeaderPasses(f, 23) /\ ~HeaderPasses(f, 24)
  <2>1. Model!At(f, 23) # 17 \/ (Model!At(f, 23) = 17 /\ Model!U16(f, 20) % 16384 # 0)
    BY <1>6 DEF HeaderPasses
  <2> QED
    BY <1>1, <1>2, <1>6, <2>1, NotUdpOrFragment
<1>7. CASE n >= 42 /\ HeaderPasses(f, 41) /\ ~Model!LengthsOk(f)
  <2>1. Model!Metadata(f, n + 1) = Model!Metadata(f, n)
    BY <1>7 DEF Model!Metadata
  <2> QED
    BY <1>1, <1>2, <1>7, <2>1, BadLengths
<1>8. \/ n >= 14 /\ Model!U16(f, 12) # 2048
      \/ n >= 15 /\ HeaderPasses(f, 14) /\ ~HeaderPasses(f, 15)
      \/ n >= 18 /\ HeaderPasses(f, 17) /\ ~HeaderPasses(f, 18)
      \/ n >= 24 /\ HeaderPasses(f, 23) /\ ~HeaderPasses(f, 24)
      \/ n >= 42 /\ HeaderPasses(f, 41) /\ ~Model!LengthsOk(f)
  BY DEF HeaderFails, HeaderPasses
<1> QED
  BY <1>3, <1>4, <1>5, <1>6, <1>7, <1>8

-----------------------------------------------------------------------------
(* The frame and the sequence counter over one edge. *)

\* An accepted byte is the next one of the frame in progress.
LEMMA ByteArrives ==
  ASSUME ControlInv, NEW source \in Streams, NEW in \in Input, Step(source, in),
         source \in Sources, input_handshake(in)
  PROVE  /\ ~ResultHandshake(in) /\ open = 0 /\ ~result_valid_q
         /\ frame' \in Seq(Byte) /\ pos \in Nat /\ pos < Len(frame')
         /\ in.tdata = Model!At(frame', pos)
         /\ pos' = pos + 1 /\ open' = IF in.tlast THEN 1 ELSE 0
         /\ pos > 0 => UNCHANGED <<frame, cfg0, started>>
         /\ pos = 0 => cfg0' = in.cfg /\ started' = started + 1
<1>1. StateFollowsFrame /\ pos \in Nat /\ open \in Nat
  BY DEF ControlInv, TypeOK
<1>2. state \notin ClosedStates
  BY NoInputWhenClosed
<1>3. ~result_valid_q /\ ~ResultHandshake(in) /\ open = 0
  BY <1>1, <1>2 DEF StateFollowsFrame, ResultHandshake, ClosedStates
<1>4. Offset = pos + 1
  BY <1>1, <1>3 DEF Offset, BetweenFrames
<1>5. frame' = source /\ pos' = pos + 1 /\ open' = (IF in.tlast THEN 1 ELSE 0)
      /\ (pos > 0 => cfg0' = cfg0 /\ started' = started)
      /\ (pos = 0 => cfg0' = in.cfg /\ started' = started + 1)
  <2>1. Follow(source, in) /\ in.tlast \in BOOLEAN
    BY DEF Input, Step
  <2>2. frame' = source /\ pos' = pos + 1
    BY <1>3, <2>1 DEF Follow
  <2>3. open' = IF in.tlast THEN 1 ELSE 0
    BY <1>3, <2>1 DEF Follow
  <2>4. pos > 0 => cfg0' = cfg0 /\ started' = started
    BY <1>1, <1>3, <2>1 DEF Follow
  <2>5. pos = 0 => cfg0' = in.cfg /\ started' = started + 1
    BY <1>3, <2>1 DEF Follow
  <2> QED
    BY <2>2, <2>3, <2>4, <2>5
<1>6. pos > 0 => source = frame
  BY <1>1, <1>3 DEF Sources, BetweenFrames
<1>7. source \in Seq(Byte) /\ in.tdata = source[pos + 1] /\ pos + 1 \in 1 .. Len(source)
  BY <1>4, StreamsAssumption DEF Step
<1> QED
  BY <1>1, <1>3, <1>5, <1>6, <1>7 DEF Model!At

\* Without a byte and without the record being taken the frame stands still,
\* and a record that is taken leaves nothing of it.
LEMMA NoByteArrives ==
  ASSUME ControlInv, NEW source \in Streams, NEW in \in Input, Step(source, in),
         ~input_handshake(in)
  PROVE  /\ ~ResultHandshake(in) => UNCHANGED <<frame, pos, cfg0, open, started>>
         /\ ResultHandshake(in) => pos' = 0 /\ sent' = 0 /\ started' = started
<1>1. open \in Nat
  BY DEF ControlInv, TypeOK
<1> QED
  BY <1>1 DEF Step, Follow

\* A remainder is determined by any quotient,
LEMMA Remainder ==
  ASSUME NEW m \in Nat \ {0}, NEW q \in Int, NEW r \in 0 .. m - 1
  PROVE  (q * m + r) % m = r
OBVIOUS

\* so that a counter may be reduced at every step or once at the end.
LEMMA ModuloStep ==
  ASSUME NEW m \in Nat \ {0}, NEW a \in Nat
  PROVE  ((a % m) + 1) % m = (a + 1) % m
<1> DEFINE q == a \div m
           r == a % m
<1>1. a = q * m + r /\ q \in Int /\ r \in 0 .. m - 1
  OBVIOUS
<1> HIDE DEF q, r
<1>2. CASE r + 1 < m
  <2>1. r + 1 \in 0 .. m - 1 /\ a + 1 = q * m + (r + 1)
    BY <1>1, <1>2
  <2>2. (q * m + (r + 1)) % m = r + 1
    BY <1>1, <2>1, Remainder
  <2>3. (r + 1) % m = r + 1
    BY <1>1, <1>2
  <2> QED
    BY <2>1, <2>2, <2>3 DEF r
<1>3. CASE r + 1 = m
  <2>1. 0 \in 0 .. m - 1 /\ a + 1 = (q + 1) * m + 0
    BY <1>1, <1>3
  <2>2. ((q + 1) * m + 0) % m = 0
    BY <1>1, <2>1, Remainder
  <2>3. (r + 1) % m = 0
    BY <1>3
  <2> QED
    BY <2>1, <2>2, <2>3 DEF r
<1> QED
  BY <1>1, <1>2, <1>3

\* The sequence counter is the number of frames recorded, modulo its width, and
\* the registered configuration is that of the frame in progress.
LEMMA SequenceStep ==
  ASSUME ControlInv, SequenceFollowsFrames, NEW source \in Streams, NEW in \in Input,
         Step(source, in), source \in Sources
  PROVE  SequenceFollowsFrames'
<1>1. Moves(in) /\ Parser(in)
  BY StepMoves DEF Step, Clock
<1>2. /\ pos \in Nat /\ started \in Nat /\ StateFollowsFrame
      /\ result_valid_q \in BOOLEAN
  BY DEF ControlInv, TypeOK, FilterTypeOK
<1>3. SEQUENCE_MODULUS \in Nat \ {0}
  BY SequenceAssumption
<1>4. CASE input_handshake(in)
  <2>1. /\ pos' = pos + 1 /\ ~result_valid_q
        /\ pos > 0 => started' = started /\ cfg0' = cfg0
        /\ pos = 0 => started' = started + 1 /\ cfg0' = in.cfg
    BY <1>4, ByteArrives
  <2>2. started' > 0 /\ started' - 1 = (IF pos > 0 THEN started - 1 ELSE started)
    BY <1>2, <2>1 DEF SequenceFollowsFrames
  <2>3. cfg_q' = cfg0'
    BY <1>1, <1>2, <1>4, <2>1, CounterMoves DEF StateFollowsFrame, SequenceFollowsFrames
  <2>4. sequence_counter = (started' - 1) % SEQUENCE_MODULUS
    BY <2>1, <2>2 DEF SequenceFollowsFrames
  <2>5. state # "RESULT_HOLD"
    BY <1>2, <2>1 DEF StateFollowsFrame
  <2>6. CASE \E fields, reason : create_descriptor(fields, reason)
    <3>1. /\ sequence_counter' = (sequence_counter + 1) % SEQUENCE_MODULUS
          /\ result_valid_q' = TRUE
      BY <2>6 DEF create_descriptor
    <3>2. started' - 1 \in Nat /\ (started' - 1) + 1 = started'
      BY <1>2, <2>1, <2>2
    <3>3. (((started' - 1) % SEQUENCE_MODULUS) + 1) % SEQUENCE_MODULUS
          = ((started' - 1) + 1) % SEQUENCE_MODULUS
      BY <1>3, <3>2, ModuloStep
    <3>4. sequence_counter' = started' % SEQUENCE_MODULUS
      BY <2>4, <3>1, <3>2, <3>3
    <3> QED
      BY <2>2, <2>3, <3>1, <3>4 DEF SequenceFollowsFrames
  <2>7. CASE UNCHANGED <<sequence_counter, result_valid_q>>
    BY <1>2, <2>1, <2>2, <2>3, <2>4, <2>7 DEF SequenceFollowsFrames
  <2> QED
    BY <1>1, <2>5, <2>6, <2>7, CounterMoves
<1>5. CASE ~input_handshake(in) /\ ~ResultHandshake(in)
  <2>1. UNCHANGED <<pos, cfg0, started, cfg_q>>
    BY <1>1, <1>5, NoByteArrives, CounterMoves
  <2>2. CASE state # "RESULT_HOLD" /\ \E fields, reason : create_descriptor(fields, reason)
    <3>1. /\ sequence_counter' = (sequence_counter + 1) % SEQUENCE_MODULUS
          /\ result_valid_q' = TRUE /\ state' = "RESULT_HOLD"
      BY <2>2 DEF create_descriptor
    <3>2. state = "WAIT_OUTPUT"
      BY <1>1, <1>5, <2>2, <3>1 DEF Moves, ClosedStates
    <3>3. pos > 0 /\ ~result_valid_q
      BY <1>2, <3>2 DEF StateFollowsFrame
    <3>4. started - 1 \in Nat /\ (started - 1) + 1 = started
          /\ sequence_counter = (started - 1) % SEQUENCE_MODULUS
      BY <1>2, <3>3 DEF SequenceFollowsFrames
    <3>5. (((started - 1) % SEQUENCE_MODULUS) + 1) % SEQUENCE_MODULUS
          = ((started - 1) + 1) % SEQUENCE_MODULUS
      BY <1>3, <3>4, ModuloStep
    <3>6. sequence_counter' = started % SEQUENCE_MODULUS
      BY <3>1, <3>4, <3>5
    <3> QED
      BY <2>1, <3>1, <3>3, <3>6 DEF SequenceFollowsFrames
  <2>3. CASE UNCHANGED <<sequence_counter, result_valid_q>>
    BY <2>1, <2>3 DEF SequenceFollowsFrames
  <2>4. CASE state = "RESULT_HOLD" /\ ~result_valid_q' /\ UNCHANGED sequence_counter
    BY <1>1, <1>5, <2>4 DEF Moves
  <2> QED
    BY <1>1, <2>2, <2>3, <2>4, CounterMoves
<1>6. CASE ResultHandshake(in)
  <2>1. state = "RESULT_HOLD" /\ result_valid_q /\ pos > 0
    BY <1>2, <1>6 DEF ResultHandshake, StateFollowsFrame
  <2>2. ~input_handshake(in)
    BY <2>1, NoInputWhenClosed DEF ClosedStates
  <2>3. pos' = 0 /\ started' = started
    BY <1>6, <2>2, NoByteArrives
  <2>4. ~result_valid_q'
    BY <1>1, <1>6, <2>1 DEF Moves
  <2>5. sequence_counter' = sequence_counter
    BY <1>1, <2>1, <2>4, CounterMoves
  <2>6. sequence_counter = started % SEQUENCE_MODULUS
    BY <2>1 DEF SequenceFollowsFrames
  <2> QED
    BY <2>3, <2>4, <2>5, <2>6 DEF SequenceFollowsFrames
<1> QED
  BY <1>4, <1>5, <1>6

-----------------------------------------------------------------------------
(* What the reference model says after one more byte, and what the parser  *)
(* has in its registers then.                                              *)

\* The byte that is accepted is byte "pos" of the frame, the fields of the
\* header can be read as far as the frame has come, and the next record made
\* is the record of this frame.
NextByte(in) ==
  /\ pos \in Nat /\ pos' = pos + 1
  /\ in.tdata = Model!At(frame', pos) /\ in.tdata \in Int
  /\ pos' >= 18 => Model!U16(frame', 16) \in Int
  /\ pos' >= 40 => Model!U16(frame', 38) \in Int
  /\ sequence_counter = (started' - 1) % SEQUENCE_MODULUS
  /\ in.tlast \in BOOLEAN
  /\ pos > 0 => frame' = frame /\ cfg0' = cfg0 /\ cfg_q = cfg0 /\ started' = started

\* Everything the registers say of the frame, as one formula.
FrameFollowed ==
  HeaderFollowsFrame /\ PayloadFollowsFrame /\ DrainFollowsFrame /\ ResultFollowsFrame

\* The fields a record is made of are the fields of the record.
LEMMA RecordMade ==
  ASSUME NEW fields \in Result, NEW reason, NEW metadata, NEW seq,
         create_descriptor(fields, reason), MetadataOf(fields) = MetadataOf(metadata),
         sequence_counter = seq % SEQUENCE_MODULUS
  PROVE  result' = Model!Record(reason, metadata, seq)
<1>1. /\ fields.src_ip = metadata.src_ip /\ fields.dst_ip = metadata.dst_ip
      /\ fields.src_port = metadata.src_port /\ fields.dst_port = metadata.dst_port
      /\ fields.payload_len = metadata.payload_len
  BY DEF MetadataOf
<1>2. PICK accepts : accepts = (reason = REASON_ACCEPT)
  OBVIOUS
<1>3. result' = [fields EXCEPT !.accept = accepts, !.reason = reason,
                               !.sequence = sequence_counter]
  BY <1>2, Zenon DEF create_descriptor
<1>4. Model!Record(reason, metadata, seq) =
        [accept |-> accepts, reason |-> reason,
         src_ip |-> metadata.src_ip, dst_ip |-> metadata.dst_ip,
         src_port |-> metadata.src_port, dst_port |-> metadata.dst_port,
         payload_len |-> metadata.payload_len, sequence |-> seq % SEQUENCE_MODULUS]
  BY <1>2, SameReasons, Zenon DEF Model!Record
<1>5. result' = [accept |-> accepts, reason |-> reason,
                 src_ip |-> fields.src_ip, dst_ip |-> fields.dst_ip,
                 src_port |-> fields.src_port, dst_port |-> fields.dst_port,
                 payload_len |-> fields.payload_len, sequence |-> sequence_counter]
  BY <1>3 DEF Result
<1> QED
  BY <1>1, <1>4, <1>5

\* A record that is made on the last byte is the record of the frame.
LEMMA Recorded ==
  ASSUME NEW in, NextByte(in), NEW fields \in Result, NEW reason, NEW metadata, NEW forwarded,
         create_descriptor(fields, reason), MetadataOf(fields) = MetadataOf(metadata),
         Gives(frame', pos', cfg0', started' - 1, reason, metadata, forwarded)
  PROVE  FrameFollowed'
<1>1. result' = Model!Record(reason, metadata, started' - 1)
  BY RecordMade DEF NextByte
<1>2. Expected'.record = result'
  BY <1>1 DEF Gives, Expected
<1>3. state' = "RESULT_HOLD"
  BY DEF create_descriptor
<1> QED
  BY <1>2, <1>3
  DEF FrameFollowed, HeaderFollowsFrame, PayloadFollowsFrame, DrainFollowsFrame,
      ResultFollowsFrame, HeaderStates, PayloadStates, ClosedStates

\* The metadata of a record is the metadata it was made of.
LEMMA RecordMetadata ==
  ASSUME NEW reason, NEW metadata, NEW seq
  PROVE  /\ MetadataOf(Model!Record(reason, metadata, seq)) = MetadataOf(metadata)
         /\ Model!Record(reason, metadata, seq).reason = reason
<1>1. PICK accepts : accepts = (reason = Model!REASON_ACCEPT)
  OBVIOUS
<1>2. Model!Record(reason, metadata, seq) =
        [accept |-> accepts, reason |-> reason,
         src_ip |-> metadata.src_ip, dst_ip |-> metadata.dst_ip,
         src_port |-> metadata.src_port, dst_port |-> metadata.dst_port,
         payload_len |-> metadata.payload_len, sequence |-> seq % SEQUENCE_MODULUS]
  BY <1>1, Zenon DEF Model!Record
<1> QED
  BY <1>2 DEF MetadataOf

\* A byte that fails a check decides the record.
LEMMA Settled ==
  ASSUME NEW in, NextByte(in), NEW fields \in Result, NEW reason, NEW metadata,
         Settle(in, fields, reason), MetadataOf(fields) = MetadataOf(metadata),
         Gives(frame', pos', cfg0', started' - 1, reason, metadata, 0),
         HeaderFails(frame', pos'), payload_left' = 0
  PROVE  FrameFollowed'
<1>1. CASE in.tlast
  BY <1>1, Recorded DEF Settle
<1>2. CASE ~in.tlast
  <2>1. state' = "DRAIN" /\ result' = fields /\ frame_reason' = reason
    BY <1>2 DEF Settle, Continue
  <2>2. Expected'.record = Model!Record(reason, metadata, started' - 1)
    BY DEF Gives, Expected
  <2>3. Expected'.record.reason = reason
        /\ MetadataOf(Expected'.record) = MetadataOf(metadata)
    BY <2>2, RecordMetadata
  <2>4. DrainFollowsFrame'
    BY <2>1, <2>3 DEF DrainFollowsFrame
  <2>5. ResultFollowsFrame'
    BY <2>1, <2>3 DEF ResultFollowsFrame, MetadataOf
  <2> QED
    BY <2>1, <2>4, <2>5
    DEF FrameFollowed, HeaderFollowsFrame, PayloadFollowsFrame, HeaderStates, PayloadStates
<1> QED
  BY <1>1, <1>2 DEF NextByte

\* A byte that passes its checks leads on, or truncates the header.
LEMMA Advanced ==
  ASSUME NEW in, NextByte(in), NEW fields \in Result, NEW next,
         IF in.tlast THEN create_descriptor(fields, REASON_BAD_LENGTH_OR_TRUNCATED)
                     ELSE Continue(fields, next),
         MetadataOf(fields) = Model!Metadata(frame', pos'),
         pos' < 42, HeaderPasses(frame', pos'),
         \/ next = "ETH_HEADER" /\ pos' \in 1..13
         \/ next = "IPV4_HEADER" /\ pos' \in 14..33
         \/ next = "UDP_HEADER" /\ pos' \in 34..41,
         header_index' = pos', payload_left' = 0, FieldsFollowFrame'
  PROVE  FrameFollowed'
<1>1. CASE in.tlast
  <2>1. create_descriptor(fields, REASON_BAD_LENGTH_OR_TRUNCATED)
    BY <1>1
  <2>2. Gives(frame', pos', cfg0', started' - 1, REASON_BAD_LENGTH_OR_TRUNCATED,
              Model!Metadata(frame', pos'), 0)
    BY TruncatedHeader DEF NextByte
  <2>3. MetadataOf(fields) = MetadataOf(Model!Metadata(frame', pos'))
    BY DEF Model!Metadata, MetadataOf
  <2> QED
    BY <2>1, <2>2, <2>3, Recorded
<1>2. CASE ~in.tlast
  <2>1. state' = next /\ result' = fields
    BY <1>2 DEF Continue
  <2>2. HeaderFollowsFrame'
    BY <2>1 DEF HeaderFollowsFrame, MetadataOf, HeaderStates
  <2> QED
    BY <2>1, <2>2
    DEF FrameFollowed, PayloadFollowsFrame, DrainFollowsFrame, ResultFollowsFrame,
        PayloadStates, ClosedStates
<1> QED
  BY <1>1, <1>2 DEF NextByte

\* An accepted byte is the next byte.
LEMMA ByteIsNext ==
  ASSUME ControlInv, SequenceFollowsFrames, NEW source \in Streams, NEW in \in Input,
         Step(source, in), source \in Sources, input_handshake(in)
  PROVE  NextByte(in)
<1>1. /\ ~result_valid_q
      /\ frame' \in Seq(Byte) /\ pos \in Nat /\ pos < Len(frame')
      /\ in.tdata = Model!At(frame', pos) /\ pos' = pos + 1
      /\ pos > 0 => frame' = frame /\ cfg0' = cfg0 /\ started' = started
      /\ pos = 0 => started' = started + 1
  BY ByteArrives
<1>2. pos > 0 => cfg_q = cfg0
  BY DEF SequenceFollowsFrames
<1>3. sequence_counter = (started' - 1) % SEQUENCE_MODULUS
  <2>1. started \in Nat
    BY DEF ControlInv, TypeOK
  <2>2. started' - 1 = IF pos > 0 THEN started - 1 ELSE started
    BY <1>1, <2>1
  <2> QED
    BY <1>1, <2>2 DEF SequenceFollowsFrames
<1>4. (pos' >= 18 => Model!U16(frame', 16) \in Int) /\ (pos' >= 40 => Model!U16(frame', 38) \in Int)
  <2>1. \A i \in 0 .. Len(frame') - 2 : Model!U16(frame', i) \in Int
    BY <1>1, FieldTypes
  <2>2. Len(frame') \in Nat
    BY <1>1
  <2>3. (pos' >= 18 => 16 \in 0 .. Len(frame') - 2) /\ (pos' >= 40 => 38 \in 0 .. Len(frame') - 2)
    BY <1>1, <2>2
  <2> QED
    BY <2>1, <2>3
<1>5. in.tdata \in Int /\ in.tlast \in BOOLEAN
  BY Range, SMT DEF Input, Byte
<1> QED
  BY <1>1, <1>2, <1>3, <1>4, <1>5 DEF NextByte

\* The header index counts the bytes of the header.
LEMMA NextIndex ==
  ASSUME NEW n \in 0 .. 62
  PROVE  (n + 1) % 64 = n + 1
OBVIOUS

\* After the first byte of a frame nothing of the frame before is left.
LEMMA IdleFollows ==
  ASSUME ControlInv, NEW in \in Input, NextByte(in), Idle(in)
  PROVE  FrameFollowed'
<1> DEFINE cleared == [ResetResult EXCEPT !.sequence = result.sequence]
<1>1. pos = 0 /\ pos' = 1
  BY DEF ControlInv, StateFollowsFrame, NextByte, Idle
<1>2. cleared \in Result
  BY EmptyFieldsType DEF ControlInv, TypeOK
<1>3. MetadataOf(cleared) = Model!Metadata(frame', pos')
  BY <1>1, SameReasons DEF ResetResult, MetadataOf, Model!Metadata
<1>4. IF in.tlast THEN create_descriptor(cleared, REASON_BAD_LENGTH_OR_TRUNCATED)
                  ELSE Continue(cleared, "ETH_HEADER")
  BY DEF Idle
<1>5. header_index' = 1 /\ payload_left' = 0
  BY DEF Idle, load_payload_count
<1>6. HeaderPasses(frame', pos') /\ FieldsFollowFrame'
  BY <1>1 DEF HeaderPasses, FieldsFollowFrame
<1> HIDE DEF cleared
<1> QED
  BY <1>1, <1>2, <1>3, <1>4, <1>5, <1>6, Advanced

\* What a header byte may rely on.
LEMMA HeaderByte ==
  ASSUME ControlInv, HeaderFollowsFrame, NEW in, NextByte(in), state \in HeaderStates
  PROVE  /\ header_index = pos /\ payload_left = 0 /\ pos > 0 /\ pos \in Nat
         /\ pos' = pos + 1 /\ (pos + 1) % 64 = pos + 1
         /\ state = "ETH_HEADER" => pos \in 1..13
         /\ state = "IPV4_HEADER" => pos \in 14..33
         /\ state = "UDP_HEADER" => pos \in 34..41
         /\ frame' = frame /\ cfg0' = cfg0 /\ cfg_q = cfg0 /\ started' = started
         /\ HeaderPasses(frame, pos) /\ FieldsFollowFrame
         /\ MetadataOf(result) = Model!Metadata(frame, pos)
         /\ in.tdata = Model!At(frame, pos) /\ in.tdata \in Int
         /\ result \in Result /\ hdr \in Fields
<1>1. /\ state = "ETH_HEADER" => pos \in 1..13
      /\ state = "IPV4_HEADER" => pos \in 14..33
      /\ state = "UDP_HEADER" => pos \in 34..41
  BY DEF HeaderFollowsFrame, HeaderStates
<1>2. pos \in 1 .. 41
  BY <1>1 DEF HeaderStates
<1>3. (pos + 1) % 64 = pos + 1
  BY <1>2, NextIndex
<1>4. result \in Result /\ hdr \in Fields
  BY DEF ControlInv, TypeOK, FilterTypeOK
<1> QED
  BY <1>1, <1>2, <1>3, <1>4 DEF HeaderFollowsFrame, NextByte

\* Bytes 1 to 13.
LEMMA EthHeaderFollows ==
  ASSUME ControlInv, HeaderFollowsFrame, NEW in \in Input, NextByte(in), EthHeader(in)
  PROVE  FrameFollowed'
<1>1. state = "ETH_HEADER" /\ state \in HeaderStates
  BY DEF EthHeader, HeaderStates
<1>2. /\ header_index = pos /\ payload_left = 0 /\ pos \in 1..13
      /\ pos' = pos + 1 /\ (pos + 1) % 64 = pos + 1 /\ frame' = frame
      /\ FieldsFollowFrame
      /\ MetadataOf(result) = Model!Metadata(frame, pos)
      /\ in.tdata = Model!At(frame, pos) /\ in.tdata \in Int
      /\ result \in Result /\ hdr \in Fields
  BY <1>1, HeaderByte
<1>3. header_index' = pos' /\ payload_left' = 0
  BY <1>2 DEF EthHeader, payloadVars
<1>4. Model!Metadata(frame', pos') = Model!NoMetadata
      /\ MetadataOf(result) = Model!NoMetadata
  BY <1>2 DEF Model!Metadata, Model!NoMetadata
<1>5. FieldsFollowFrame'
  <2>1. pos' = 13 => hdr'.field_hi = Model!At(frame', pos' - 1)
    <3>1. pos' = 13 => hdr' = [hdr EXCEPT !.field_hi = in.tdata]
      BY <1>2 DEF EthHeader
    <3>2. pos' = 13 => hdr'.field_hi = in.tdata
      BY <1>2, <3>1 DEF Fields
    <3> QED
      BY <1>2, <3>2
  <2> QED
    BY <1>2, <2>1 DEF FieldsFollowFrame
<1>6. header_index = 13 => Word(in) = Model!U16(frame', 12)
  BY <1>2 DEF Word, Model!U16, FieldsFollowFrame
<1>7. CASE header_index = 13 /\ Word(in) # 2048 /\ Settle(in, result, REASON_NON_IPV4)
  <2>1. pos' = 14 /\ Model!U16(frame', 12) # 2048
    BY <1>2, <1>6, <1>7
  <2>2. Gives(frame', pos', cfg0', started' - 1, REASON_NON_IPV4, Model!NoMetadata, 0)
    BY <2>1, NotIpv4
  <2>3. HeaderFails(frame', pos')
    BY <2>1 DEF HeaderFails, HeaderPasses
  <2>4. MetadataOf(result) = MetadataOf(Model!NoMetadata)
    BY <1>4 DEF MetadataOf, Model!NoMetadata
  <2> QED
    BY <1>2, <1>3, <1>7, <2>2, <2>3, <2>4, Settled
<1>8. CASE header_index = 13 /\ Word(in) = 2048 /\ Advance(in, result, "IPV4_HEADER")
  <2>1. HeaderPasses(frame', pos') /\ pos' = 14
    BY <1>2, <1>6, <1>8 DEF HeaderPasses
  <2> QED
    BY <1>2, <1>3, <1>4, <1>5, <1>8, <2>1, Advanced DEF Advance
<1>9. CASE header_index # 13 /\ Advance(in, result, "ETH_HEADER")
  <2>1. HeaderPasses(frame', pos') /\ pos' \in 1..13 /\ pos' < 42
    BY <1>2, <1>9 DEF HeaderPasses
  <2> QED
    BY <1>2, <1>3, <1>4, <1>5, <1>9, <2>1, Advanced DEF Advance
<1> QED
  BY <1>7, <1>8, <1>9 DEF EthHeader

\* What an IPv4 header byte does to each field register and to the addresses.
LEMMA Ipv4Registers ==
  ASSUME NEW in, hdr \in Fields, header_index \in Int
  PROVE  /\ header_index \in {16, 20} => Ipv4Fields(in).field_hi = in.tdata
         /\ header_index \in {26, 30} => Ipv4Fields(in).address_shift = <<0, 0, in.tdata>>
         /\ header_index \in {27, 28, 31, 32} => Ipv4Fields(in).address_shift = Shifted(in)
         /\ Ipv4Fields(in).ip_total_length =
              IF header_index = 17 THEN Word(in) ELSE hdr.ip_total_length
         /\ Ipv4Fields(in).fragment_field =
              IF header_index = 21 THEN (hdr.field_hi % 64) * 256 + in.tdata
                                   ELSE hdr.fragment_field
<1>1. CASE header_index \in {16, 20}
  BY <1>1 DEF Ipv4Fields, Fields
<1>2. CASE header_index = 17
  BY <1>2 DEF Ipv4Fields, Fields
<1>3. CASE header_index = 21
  BY <1>3 DEF Ipv4Fields, Fields
<1>4. CASE header_index \in {26, 30}
  BY <1>4 DEF Ipv4Fields, Fields
<1>5. CASE header_index \in {27, 28, 31, 32}
  BY <1>5 DEF Ipv4Fields, Fields
<1>6. CASE header_index \in {29, 33}
  BY <1>6 DEF Ipv4Fields, Fields
<1>7. CASE header_index \notin {16, 17, 20, 21, 26, 27, 28, 29, 30, 31, 32, 33}
  BY <1>7 DEF Ipv4Fields
<1> QED
  BY <1>1, <1>2, <1>3, <1>4, <1>5, <1>6, <1>7

\* The field registers keep holding the bytes of the fields begun.
LEMMA Ipv4FieldsFollow ==
  ASSUME ControlInv, HeaderFollowsFrame, NEW in \in Input, NextByte(in), Ipv4Header(in)
  PROVE  FieldsFollowFrame'
<1>1. state = "IPV4_HEADER" /\ state \in HeaderStates
  BY DEF Ipv4Header, HeaderStates
<1>2. /\ header_index = pos /\ pos \in 14..33
      /\ pos' = pos + 1 /\ frame' = frame /\ FieldsFollowFrame
      /\ in.tdata = Model!At(frame, pos) /\ hdr \in Fields
  BY <1>1, HeaderByte
<1>3. hdr' = Ipv4Fields(in)
  BY DEF Ipv4Header
<1>4. header_index \in Int
  BY <1>2
<1>5. pos' \in {17, 21} => hdr'.field_hi = Model!At(frame', pos' - 1)
  BY <1>2, <1>3, <1>4, Ipv4Registers
<1>6. pos' \in {27, 31} => hdr'.address_shift = <<0, 0, Model!At(frame', pos' - 1)>>
  BY <1>2, <1>3, <1>4, Ipv4Registers
<1>7. pos' \in {28, 32} => hdr'.address_shift = <<0, Model!At(frame', pos' - 2), Model!At(frame', pos' - 1)>>
  BY <1>2, <1>3, <1>4, Ipv4Registers DEF Shifted, FieldsFollowFrame
<1>8. pos' \in {29, 33} => hdr'.address_shift = <<Model!At(frame', pos' - 3), Model!At(frame', pos' - 2),
                                                 Model!At(frame', pos' - 1)>>
  BY <1>2, <1>3, <1>4, Ipv4Registers DEF Shifted, FieldsFollowFrame
<1>9. pos' >= 18 => hdr'.ip_total_length = Model!U16(frame', 16)
  BY <1>2, <1>3, <1>4, Ipv4Registers DEF Word, Model!U16, FieldsFollowFrame
<1>10. pos' >= 22 => hdr'.fragment_field = Model!U16(frame', 20) % 16384
  <2>1. CASE pos = 21
    <3>1. hdr.field_hi = Model!At(frame, 20) /\ in.tdata = Model!At(frame, 21)
      BY <1>2, <2>1 DEF FieldsFollowFrame
    <3>2. hdr.field_hi \in 0..255 /\ in.tdata \in 0..255
      <4>1. hdr.field_hi \in Byte /\ in.tdata \in Byte
        BY <1>2 DEF Fields, Input
      <4> QED
        BY <4>1, Range, SMT DEF Byte
    <3>a. PICK h \in 0..255, d \in 0..255 : h = hdr.field_hi /\ d = in.tdata
      BY <3>2, Zenon
    <3>b. (h * 256 + d) % 16384 = (h % 64) * 256 + d
      OBVIOUS
    <3>4. hdr'.fragment_field = (hdr.field_hi % 64) * 256 + in.tdata
      BY <1>2, <1>3, <1>4, <2>1, Ipv4Registers
    <3>5. Model!U16(frame', 20) = hdr.field_hi * 256 + in.tdata
      BY <1>2, <3>1 DEF Model!U16
    <3> QED
      BY <3>a, <3>b, <3>4, <3>5
  <2>2. CASE pos # 21
    BY <1>2, <1>3, <1>4, <2>2, Ipv4Registers DEF FieldsFollowFrame
  <2> QED
    BY <2>1, <2>2
<1> QED
  BY <1>2, <1>5, <1>6, <1>7, <1>8, <1>9, <1>10 DEF FieldsFollowFrame

\* A byte in the middle of the frame leaves what the metadata says, unless it
\* completes a field.
LEMMA MetadataAdvances ==
  ASSUME NEW f, NEW n \in Nat, n < 41
  PROVE  Model!Metadata(f, n + 1) =
           [src_ip      |-> IF n = 29 THEN Model!U32(f, 26) ELSE Model!Metadata(f, n).src_ip,
            dst_ip      |-> IF n = 33 THEN Model!U32(f, 30) ELSE Model!Metadata(f, n).dst_ip,
            src_port    |-> IF n = 35 THEN Model!U16(f, 34) ELSE Model!Metadata(f, n).src_port,
            dst_port    |-> IF n = 37 THEN Model!U16(f, 36) ELSE Model!Metadata(f, n).dst_port,
            payload_len |-> 0]
<1>1. n + 1 >= 30 <=> n >= 30 \/ n = 29
  OBVIOUS
<1>2. n + 1 >= 34 <=> n >= 34 \/ n = 33
  OBVIOUS
<1>3. n + 1 >= 36 <=> n >= 36 \/ n = 35
  OBVIOUS
<1>4. n + 1 >= 38 <=> n >= 38 \/ n = 37
  OBVIOUS
<1> QED
  BY <1>1, <1>2, <1>3, <1>4 DEF Model!Metadata

\* The addresses are complete in the result registers when they are in the frame.
LEMMA Ipv4ResultFollows ==
  ASSUME ControlInv, HeaderFollowsFrame, NEW in \in Input, NextByte(in), state = "IPV4_HEADER"
  PROVE  MetadataOf(Ipv4Result(in)) = Model!Metadata(frame', pos')
<1>1. state \in HeaderStates
  BY DEF HeaderStates
<1>2. /\ header_index = pos /\ pos \in 14..33 /\ pos \in Nat
      /\ pos' = pos + 1 /\ frame' = frame /\ FieldsFollowFrame
      /\ MetadataOf(result) = Model!Metadata(frame, pos)
      /\ in.tdata = Model!At(frame, pos) /\ result \in Result
  BY <1>1, HeaderByte
<1>3. header_index \in {29, 33} => Address(in) = Model!U32(frame, pos - 3)
  BY <1>2 DEF Address, Model!U32, FieldsFollowFrame
<1>4. MetadataOf(Ipv4Result(in)) =
        [src_ip |-> IF pos = 29 THEN Address(in) ELSE result.src_ip,
         dst_ip |-> IF pos = 33 THEN Address(in) ELSE result.dst_ip,
         src_port |-> result.src_port, dst_port |-> result.dst_port,
         payload_len |-> result.payload_len]
  BY <1>2 DEF Ipv4Result, MetadataOf, Result
<1>5. /\ result.src_ip = Model!Metadata(frame, pos).src_ip
      /\ result.dst_ip = Model!Metadata(frame, pos).dst_ip
      /\ result.src_port = Model!Metadata(frame, pos).src_port
      /\ result.dst_port = Model!Metadata(frame, pos).dst_port
      /\ result.payload_len = 0
  BY <1>2 DEF MetadataOf, Model!Metadata
<1> QED
  BY <1>2, <1>3, <1>4, <1>5, MetadataAdvances

\* Bytes 14 to 33.
LEMMA Ipv4HeaderFollows ==
  ASSUME ControlInv, HeaderFollowsFrame, NEW in \in Input, NextByte(in), Ipv4Header(in)
  PROVE  FrameFollowed'
<1> DEFINE next == IF header_index = 33 THEN "UDP_HEADER" ELSE "IPV4_HEADER"
<1>1. state = "IPV4_HEADER" /\ state \in HeaderStates
  BY DEF Ipv4Header, HeaderStates
<1>2. /\ header_index = pos /\ payload_left = 0 /\ pos \in 14..33
      /\ pos' = pos + 1 /\ (pos + 1) % 64 = pos + 1 /\ frame' = frame
      /\ FieldsFollowFrame /\ HeaderPasses(frame, pos)
      /\ MetadataOf(result) = Model!Metadata(frame, pos)
      /\ in.tdata = Model!At(frame, pos) /\ in.tdata \in Int
      /\ result \in Result /\ hdr \in Fields
  BY <1>1, HeaderByte
<1>3. header_index' = pos' /\ payload_left' = 0
  BY <1>2 DEF Ipv4Header, payloadVars
<1>4. pos <= 29 => MetadataOf(result) = MetadataOf(Model!NoMetadata)
  BY <1>2 DEF MetadataOf, Model!NoMetadata, Model!Metadata
<1>5. pos' \in Nat /\ pos' > 14
  BY <1>2
<1>6. (pos' >= 18 => Model!U16(frame', 16) \in Int) /\ MAX_LOGICAL_FRAME_BYTES \in Int
  BY MaxLogicalAssumption DEF NextByte
<1>7. header_index = 17 => Word(in) = Model!U16(frame', 16)
  BY <1>2 DEF Word, Model!U16, FieldsFollowFrame
<1>8. header_index = 23 => hdr.fragment_field = Model!U16(frame', 20) % 16384
  BY <1>2 DEF FieldsFollowFrame
<1>9. CASE BadVersion(in) /\ Settle(in, result, REASON_BAD_IPV4_HEADER)
  <2>1. /\ pos = 14 /\ pos' = 15
        /\ Model!At(frame', 14) \div 16 # 4 \/ Model!At(frame', 14) % 16 # 5
    BY <1>2, <1>9 DEF BadVersion
  <2>2. Gives(frame', pos', cfg0', started' - 1, REASON_BAD_IPV4_HEADER, Model!NoMetadata, 0)
    BY <1>2, <2>1, BadIpv4Header
  <2>3. HeaderFails(frame', pos')
    BY <2>1 DEF HeaderFails, HeaderPasses
  <2> QED
    BY <1>2, <1>3, <1>4, <1>9, <2>1, <2>2, <2>3, Settled
<1>10. CASE TooLong(in) /\ Settle(in, result, REASON_FRAME_TOO_LONG)
  <2>1. pos = 17 /\ pos' = 18 /\ 14 + Model!U16(frame', 16) > MAX_LOGICAL_FRAME_BYTES
    BY <1>2, <1>6, <1>7, <1>10 DEF TooLong, MAX_IP_TOTAL_LENGTH
  <2>2. Gives(frame', pos', cfg0', started' - 1, REASON_FRAME_TOO_LONG, Model!NoMetadata, 0)
    BY <1>2, <2>1, FrameTooLong
  <2>3. HeaderFails(frame', pos')
    BY <1>6, <2>1 DEF HeaderFails, HeaderPasses
  <2> QED
    BY <1>2, <1>3, <1>4, <1>10, <2>1, <2>2, <2>3, Settled
<1>11. CASE NotUdp(in) /\ Settle(in, result, REASON_NON_UDP)
  <2>1. pos = 23 /\ pos' = 24 /\ Model!At(frame', 23) # 17
    BY <1>2, <1>11 DEF NotUdp
  <2>2. Gives(frame', pos', cfg0', started' - 1, REASON_NON_UDP, Model!NoMetadata, 0)
    BY <1>2, <1>6, <2>1, NotUdpOrFragment
  <2>3. HeaderFails(frame', pos')
    BY <2>1 DEF HeaderFails, HeaderPasses
  <2> QED
    BY <1>2, <1>3, <1>4, <1>11, <2>1, <2>2, <2>3, Settled
<1>12. CASE Fragment(in) /\ Settle(in, result, REASON_FRAGMENTED)
  <2>1. /\ pos = 23 /\ pos' = 24 /\ Model!At(frame', 23) = 17
        /\ Model!U16(frame', 20) % 16384 # 0
    BY <1>2, <1>8, <1>12 DEF Fragment
  <2>2. Gives(frame', pos', cfg0', started' - 1, REASON_FRAGMENTED, Model!NoMetadata, 0)
    BY <1>2, <1>6, <2>1, NotUdpOrFragment
  <2>3. HeaderFails(frame', pos')
    BY <2>1 DEF HeaderFails, HeaderPasses
  <2> QED
    BY <1>2, <1>3, <1>4, <1>12, <2>1, <2>2, <2>3, Settled
<1>13. CASE /\ ~(BadVersion(in) \/ TooLong(in) \/ NotUdp(in) \/ Fragment(in))
            /\ Advance(in, Ipv4Result(in), next)
  <2>1. HeaderPasses(frame', pos')
    <3>1. pos = 14 => Model!At(frame', 14) \div 16 = 4 /\ Model!At(frame', 14) % 16 = 5
      BY <1>2, <1>13 DEF BadVersion
    <3>2. pos = 17 => 14 + Model!U16(frame', 16) <= MAX_LOGICAL_FRAME_BYTES
      BY <1>2, <1>6, <1>7, <1>13 DEF TooLong, MAX_IP_TOTAL_LENGTH
    <3>3. pos = 23 => Model!At(frame', 23) = 17 /\ Model!U16(frame', 20) % 16384 = 0
      BY <1>2, <1>8, <1>13 DEF NotUdp, Fragment
    <3> QED
      BY <1>2, <3>1, <3>2, <3>3 DEF HeaderPasses
  <2>2. Ipv4Result(in) \in Result
    BY Ipv4ResultType DEF ControlInv, TypeOK
  <2>3. MetadataOf(Ipv4Result(in)) = Model!Metadata(frame', pos')
    BY <1>1, Ipv4ResultFollows
  <2>4. \/ next = "IPV4_HEADER" /\ pos' \in 14..33
        \/ next = "UDP_HEADER" /\ pos' \in 34..41
    BY <1>2
  <2>5. FieldsFollowFrame' /\ pos' < 42
    BY <1>2, Ipv4FieldsFollow
  <2> HIDE DEF next
  <2>6. IF in.tlast THEN create_descriptor(Ipv4Result(in), REASON_BAD_LENGTH_OR_TRUNCATED)
                    ELSE Continue(Ipv4Result(in), next)
    BY <1>13, Zenon DEF Advance
  <2> QED
    BY <1>3, <2>1, <2>2, <2>3, <2>4, <2>5, <2>6, Advanced
<1> QED
  BY <1>9, <1>10, <1>11, <1>12, <1>13 DEF Ipv4Header

\* What a UDP header byte does to the field registers.
LEMMA UdpRegisters ==
  ASSUME NEW in, hdr \in Fields, header_index \in Int
  PROVE  /\ header_index \in {34, 36, 38} => UdpFields(in).field_hi = in.tdata
         /\ UdpFields(in).ip_total_length = hdr.ip_total_length
         /\ UdpFields(in).fragment_field = hdr.fragment_field
         /\ UdpFields(in).udp_length = IF header_index = 39 THEN Word(in) ELSE hdr.udp_length
         /\ header_index = 40 => /\ UdpFields(in).lengths_ok = LengthRules
                                 /\ UdpFields(in).port_match = PortRule
<1>1. CASE header_index \in {34, 36, 38}
  BY <1>1 DEF UdpFields, Fields
<1>2. CASE header_index = 39
  BY <1>2 DEF UdpFields, Fields
<1>3. CASE header_index = 40
  <2>a. LengthRules \in BOOLEAN /\ PortRule \in BOOLEAN
    BY DEF LengthRules, PortRule
  <2>1. PICK lengths \in BOOLEAN, port \in BOOLEAN : lengths = LengthRules /\ port = PortRule
    BY <2>a, Zenon
  <2>2. UdpFields(in) = [hdr EXCEPT !.lengths_ok = lengths, !.port_match = port]
    BY <1>3, <2>1 DEF UdpFields
  <2>3. /\ UdpFields(in).lengths_ok = lengths /\ UdpFields(in).port_match = port
        /\ UdpFields(in).ip_total_length = hdr.ip_total_length
        /\ UdpFields(in).fragment_field = hdr.fragment_field
        /\ UdpFields(in).udp_length = hdr.udp_length
    BY <2>2 DEF Fields
  <2> QED
    BY <1>3, <2>1, <2>3
<1>4. CASE header_index \notin {34, 36, 38, 39, 40}
  BY <1>4 DEF UdpFields
<1> QED
  BY <1>1, <1>2, <1>3, <1>4

\* The 16-bit difference of the length check is the difference: a total length
\* below 28 has already failed.
LEMMA LengthRulesFollow ==
  ASSUME hdr \in Fields, NEW f, hdr.ip_total_length = Model!U16(f, 16),
         hdr.udp_length = Model!U16(f, 38)
  PROVE  LengthRules <=> Model!LengthsOk(f)
<1>1. /\ hdr.ip_total_length \in Int /\ hdr.ip_total_length < 65536
      /\ hdr.udp_length \in Int
  <2>1. hdr.ip_total_length \in Word16 /\ hdr.udp_length \in Word16
    BY DEF Fields
  <2> QED
    BY <2>1, Range, SMT DEF Word16
<1>2. hdr.ip_total_length >= 28 => (hdr.ip_total_length - 20) % 65536 = hdr.ip_total_length - 20
  BY <1>1
<1> QED
  BY <1>1, <1>2 DEF LengthRules, Model!LengthsOk

\* The field registers keep holding the bytes of the fields begun, and after
\* byte 40 the two registered comparisons are those of the reference model.
LEMMA UdpFieldsFollow ==
  ASSUME ControlInv, HeaderFollowsFrame, NEW in \in Input, NextByte(in), UdpHeader(in)
  PROVE  FieldsFollowFrame'
<1>1. state = "UDP_HEADER" /\ state \in HeaderStates
  BY DEF UdpHeader, HeaderStates
<1>2. /\ header_index = pos /\ pos \in 34..40
      /\ pos' = pos + 1 /\ frame' = frame /\ FieldsFollowFrame
      /\ in.tdata = Model!At(frame, pos) /\ hdr \in Fields
      /\ cfg0' = cfg0 /\ cfg_q = cfg0
      /\ MetadataOf(result) = Model!Metadata(frame, pos)
  BY <1>1, HeaderByte DEF UdpHeader
<1>3. hdr' = UdpFields(in)
  BY DEF UdpHeader
<1>4. header_index \in Int
  BY <1>2
<1>5. pos' \in {35, 37, 39} => hdr'.field_hi = Model!At(frame', pos' - 1)
  BY <1>2, <1>3, <1>4, UdpRegisters
<1>6. hdr'.ip_total_length = Model!U16(frame', 16)
  BY <1>2, <1>3, <1>4, UdpRegisters DEF FieldsFollowFrame
<1>7. hdr'.fragment_field = Model!U16(frame', 20) % 16384
  BY <1>2, <1>3, <1>4, UdpRegisters DEF FieldsFollowFrame
<1>8. pos' >= 40 => hdr'.udp_length = Model!U16(frame', 38)
  BY <1>2, <1>3, <1>4, UdpRegisters DEF Word, Model!U16, FieldsFollowFrame
<1>9. ASSUME pos' = 41
      PROVE  /\ hdr'.lengths_ok <=> Model!LengthsOk(frame')
             /\ hdr'.port_match <=> Model!PortMatches(frame', cfg0')
  <2>1. hdr'.lengths_ok = LengthRules /\ hdr'.port_match = PortRule
    BY <1>2, <1>3, <1>4, <1>9, UdpRegisters
  <2>2. hdr.ip_total_length = Model!U16(frame, 16) /\ hdr.udp_length = Model!U16(frame, 38)
    BY <1>2, <1>9 DEF FieldsFollowFrame
  <2>3. LengthRules <=> Model!LengthsOk(frame)
    BY <1>2, <2>2, LengthRulesFollow
  <2>4. result.dst_port = Model!U16(frame, 36)
    BY <1>2, <1>9 DEF MetadataOf, Model!Metadata
  <2>5. PortRule <=> Model!PortMatches(frame, cfg0)
    BY <1>2, <2>4 DEF PortRule, Model!PortMatches
  <2> QED
    BY <1>2, <2>1, <2>3, <2>5
<1> QED
  BY <1>2, <1>5, <1>6, <1>7, <1>8, <1>9 DEF FieldsFollowFrame

\* The ports are complete in the result registers when they are in the frame.
LEMMA UdpResultFollows ==
  ASSUME ControlInv, HeaderFollowsFrame, NEW in \in Input, NextByte(in),
         state = "UDP_HEADER", header_index # 41
  PROVE  MetadataOf(UdpResult(in)) = Model!Metadata(frame', pos')
<1>1. state \in HeaderStates
  BY DEF HeaderStates
<1>2. /\ header_index = pos /\ pos \in 34..40 /\ pos \in Nat
      /\ pos' = pos + 1 /\ frame' = frame /\ FieldsFollowFrame
      /\ MetadataOf(result) = Model!Metadata(frame, pos)
      /\ in.tdata = Model!At(frame, pos) /\ result \in Result
  BY <1>1, HeaderByte
<1>3. header_index \in {35, 37} => Word(in) = Model!U16(frame, pos - 1)
  BY <1>2 DEF Word, Model!U16, FieldsFollowFrame
<1>4. MetadataOf(UdpResult(in)) =
        [src_ip |-> result.src_ip, dst_ip |-> result.dst_ip,
         src_port |-> IF pos = 35 THEN Word(in) ELSE result.src_port,
         dst_port |-> IF pos = 37 THEN Word(in) ELSE result.dst_port,
         payload_len |-> result.payload_len]
  BY <1>2 DEF UdpResult, MetadataOf, Result
<1>5. /\ result.src_ip = Model!Metadata(frame, pos).src_ip
      /\ result.dst_ip = Model!Metadata(frame, pos).dst_ip
      /\ result.src_port = Model!Metadata(frame, pos).src_port
      /\ result.dst_port = Model!Metadata(frame, pos).dst_port
      /\ result.payload_len = 0
  BY <1>2 DEF MetadataOf, Model!Metadata
<1> QED
  BY <1>2, <1>3, <1>4, <1>5, MetadataAdvances

\* Bytes 34 to 40.
LEMMA UdpHeaderFollows ==
  ASSUME ControlInv, HeaderFollowsFrame, NEW in \in Input, NextByte(in), UdpHeader(in)
  PROVE  FrameFollowed'
<1>1. state = "UDP_HEADER" /\ state \in HeaderStates /\ header_index # 41
  BY DEF UdpHeader, HeaderStates
<1>2. /\ header_index = pos /\ payload_left = 0 /\ pos \in 34..40
      /\ pos' = pos + 1 /\ (pos + 1) % 64 = pos + 1 /\ frame' = frame
      /\ HeaderPasses(frame, pos)
  BY <1>1, HeaderByte
<1>3. header_index' = pos' /\ payload_left' = 0
  BY <1>2 DEF UdpHeader, payloadVars
<1>4. HeaderPasses(frame', pos') /\ pos' < 42 /\ pos' \in 34..41
  BY <1>2 DEF HeaderPasses
<1>5. UdpResult(in) \in Result
  BY UdpResultType DEF ControlInv, TypeOK
<1>6. IF in.tlast THEN create_descriptor(UdpResult(in), REASON_BAD_LENGTH_OR_TRUNCATED)
                  ELSE Continue(UdpResult(in), "UDP_HEADER")
  BY DEF UdpHeader, Advance
<1> QED
  BY <1>1, <1>3, <1>4, <1>5, <1>6, UdpResultFollows, UdpFieldsFollow, Advanced

\* Byte 41 with lengths that break the rules.
LEMMA UdpBadLengthsFollows ==
  ASSUME ControlInv, HeaderFollowsFrame, NEW in \in Input, NextByte(in), UdpBadLengths(in)
  PROVE  FrameFollowed'
<1>1. state = "UDP_HEADER" /\ state \in HeaderStates /\ header_index = 41
  BY DEF UdpBadLengths, HeaderStates
<1>2. /\ header_index = pos /\ payload_left = 0 /\ pos \in Nat
      /\ pos' = pos + 1 /\ frame' = frame
      /\ HeaderPasses(frame, pos) /\ FieldsFollowFrame
      /\ MetadataOf(result) = Model!Metadata(frame, pos) /\ result \in Result
  BY <1>1, HeaderByte
<1>3. pos = 41 /\ pos' = 42 /\ payload_left' = 0
  BY <1>1, <1>2 DEF UdpBadLengths, payloadVars
<1>4. ~Model!LengthsOk(frame')
  BY <1>2, <1>3 DEF UdpBadLengths, FieldsFollowFrame
<1>5. HeaderPasses(frame', 41) /\ HeaderFails(frame', pos')
  BY <1>2, <1>3, <1>4 DEF HeaderFails
<1>6. Model!U16(frame', 16) \in Int
  BY <1>3 DEF NextByte
<1>7. Gives(frame', pos', cfg0', started' - 1, REASON_BAD_LENGTH_OR_TRUNCATED,
            Model!Metadata(frame', pos'), 0)
  BY <1>3, <1>4, <1>5, <1>6, BadLengths
<1>8. MetadataOf(result) = MetadataOf(Model!Metadata(frame', pos'))
  BY <1>2, <1>3 DEF MetadataOf, Model!Metadata
<1>9. Settle(in, result, REASON_BAD_LENGTH_OR_TRUNCATED)
  BY DEF UdpBadLengths
<1> QED
  BY <1>2, <1>3, <1>5, <1>7, <1>8, <1>9, Settled

-----------------------------------------------------------------------------
(* The end of the header, the payload and the rest of the frame.           *)

\* The record of a frame with a good header, and what is forwarded of any.
GoodReason(f, n, cfg) ==
  IF Arrived(f, n) < Declared(f) THEN REASON_BAD_LENGTH_OR_TRUNCATED ELSE FilterReason(f, cfg)
GoodMetadata(f, n) == [Model!Metadata(f, n) EXCEPT !.payload_len = Declared(f)]
Forwarded(f, n, cfg) ==
  IF n >= 42 /\ ~HeaderFails(f, n) /\ Wanted(f, cfg) THEN Arrived(f, n) ELSE 0

\* GoodHeader in these terms.
LEMMA GoodFrame ==
  ASSUME NEW f, NEW n \in Nat, n >= 42, ~HeaderFails(f, n), Model!U16(f, 16) \in Int,
         Model!U16(f, 38) \in Int, NEW cfg, NEW seq
  PROVE  Gives(f, n, cfg, seq, GoodReason(f, n, cfg), GoodMetadata(f, n), Forwarded(f, n, cfg))
BY GoodHeader DEF GoodReason, GoodMetadata, Forwarded

\* The header of a frame is complete with byte 41.
LEMMA HeaderComplete ==
  ASSUME NEW f, NEW n \in Nat, n >= 42, NEW m \in Nat, m >= 42
  PROVE  /\ HeaderFails(f, m) <=> HeaderFails(f, n)
         /\ GoodMetadata(f, m) = GoodMetadata(f, n)
BY DEF HeaderFails, HeaderPasses, GoodMetadata, Model!Metadata

\* What has arrived of the payload, byte by byte.
LEMMA PayloadArrives ==
  ASSUME NEW f, NEW n \in Nat, n >= 42, ~HeaderFails(f, n), Model!U16(f, 38) \in Int
  PROVE  /\ Declared(f) \in Int /\ Declared(f) >= 0
         /\ Arrived(f, n) \in Int /\ Arrived(f, n) >= 0 /\ Arrived(f, n) <= Declared(f)
         /\ Arrived(f, n) <= n - 42
         /\ Arrived(f, n) < Declared(f) =>
              Arrived(f, n) = n - 42 /\ Arrived(f, n + 1) = Arrived(f, n) + 1
         /\ Arrived(f, n) = Declared(f) => Arrived(f, n + 1) = Declared(f)
<1>1. Model!U16(f, 38) >= 8
  BY DEF HeaderFails, Model!LengthsOk
<1> QED
  BY <1>1 DEF Arrived, Declared

\* Four ways to go on with a good header: the record, the rest of the frame,
\* the payload, and the wait for the payload to leave.
LEMMA GoodOutcomes ==
  ASSUME NEW in, NextByte(in), NEW fields \in Result, pos' >= 42, ~HeaderFails(frame', pos'),
         MetadataOf(fields) = MetadataOf(GoodMetadata(frame', pos'))
  PROVE  /\ create_descriptor(fields, GoodReason(frame', pos', cfg0')) => FrameFollowed'
         /\ /\ Continue(fields, "DRAIN") /\ frame_reason' = FilterReason(frame', cfg0')
            /\ payload_left' = Declared(frame') - Arrived(frame', pos')
            /\ Wanted(frame', cfg0') => payload_left' = 0
            => FrameFollowed'
         /\ /\ Continue(fields, "FIRST_PAYLOAD") \/ Continue(fields, "PASS_PAYLOAD")
            /\ Model!PortMatches(frame', cfg0')
            /\ payload_left' = Declared(frame') - (pos' - 42)
            /\ state' = "FIRST_PAYLOAD" => pos' = 42 /\ cfg0'.msg_type_enable
            /\ state' = "PASS_PAYLOAD" => Wanted(frame', cfg0')
            => FrameFollowed'
         /\ /\ Continue(fields, "WAIT_OUTPUT")
            /\ frame_reason' = GoodReason(frame', pos', cfg0')
            => FrameFollowed'
<1> DEFINE reason == GoodReason(frame', pos', cfg0')
           metadata == GoodMetadata(frame', pos')
<1>1. Gives(frame', pos', cfg0', started' - 1, reason, metadata, Forwarded(frame', pos', cfg0'))
  <2>1. pos' \in Nat /\ Model!U16(frame', 16) \in Int /\ Model!U16(frame', 38) \in Int
    BY DEF NextByte
  <2> QED
    BY <2>1, GoodFrame
<1> HIDE DEF reason, metadata
<1>2. Expected'.record = Model!Record(reason, metadata, started' - 1)
  BY <1>1 DEF Gives, Expected
<1>3. Expected'.record.reason = reason
      /\ MetadataOf(Expected'.record) = MetadataOf(fields)
  BY <1>2, RecordMetadata DEF metadata
<1>4. ASSUME create_descriptor(fields, reason)
      PROVE  FrameFollowed'
  BY <1>1, <1>4, Recorded DEF metadata
<1>5. ASSUME NEW next, Continue(fields, next), next \in PayloadStates \cup {"DRAIN", "WAIT_OUTPUT"},
             next \in PayloadStates => PayloadFollowsFrame',
             next = "DRAIN" => DrainFollowsFrame',
             next = "WAIT_OUTPUT" => frame_reason' = reason
      PROVE  FrameFollowed'
  <2>1. state' = next /\ result' = fields
    BY <1>5 DEF Continue
  <2>2. ResultFollowsFrame'
    BY <1>3, <1>5, <2>1 DEF ResultFollowsFrame, MetadataOf, PayloadStates
  <2> QED
    BY <1>5, <2>1, <2>2
    DEF FrameFollowed, HeaderFollowsFrame, PayloadFollowsFrame, DrainFollowsFrame, HeaderStates,
        PayloadStates
<1>6. ASSUME Continue(fields, "DRAIN"), frame_reason' = FilterReason(frame', cfg0'),
             payload_left' = Declared(frame') - Arrived(frame', pos'),
             Wanted(frame', cfg0') => payload_left' = 0
      PROVE  FrameFollowed'
  <2>1. DrainFollowsFrame'
    BY <1>6 DEF DrainFollowsFrame
  <2> QED
    BY <1>5, <1>6, <2>1 DEF PayloadStates
<1>7. ASSUME Continue(fields, "FIRST_PAYLOAD") \/ Continue(fields, "PASS_PAYLOAD"),
             Model!PortMatches(frame', cfg0'), payload_left' = Declared(frame') - (pos' - 42),
             state' = "FIRST_PAYLOAD" => pos' = 42 /\ cfg0'.msg_type_enable,
             state' = "PASS_PAYLOAD" => Wanted(frame', cfg0')
      PROVE  FrameFollowed'
  <2>1. PayloadFollowsFrame'
    BY <1>7 DEF PayloadFollowsFrame
  <2> QED
    BY <1>5, <1>7, <2>1 DEF PayloadStates
<1>8. ASSUME Continue(fields, "WAIT_OUTPUT"), frame_reason' = reason
      PROVE  FrameFollowed'
  BY <1>5, <1>8 DEF PayloadStates
<1> QED
  BY <1>4, <1>6, <1>7, <1>8, Zenon DEF reason

\* Byte 41 with good lengths.
LEMMA UdpHeaderEndFollows ==
  ASSUME ControlInv, HeaderFollowsFrame, NEW in \in Input, NextByte(in), UdpHeaderEnd(in)
  PROVE  FrameFollowed'
<1>1. state = "UDP_HEADER" /\ state \in HeaderStates /\ header_index = 41 /\ hdr.lengths_ok
  BY DEF UdpHeaderEnd, HeaderStates
<1>2. /\ pos = 41 /\ pos' = 42 /\ frame' = frame /\ cfg0' = cfg0 /\ cfg_q = cfg0
      /\ HeaderPasses(frame, pos) /\ FieldsFollowFrame
      /\ MetadataOf(result) = Model!Metadata(frame, pos)
      /\ result \in Result /\ hdr \in Fields
  BY <1>1, HeaderByte
<1>3. hdr.udp_length \in Int /\ hdr.udp_length >= 0 /\ hdr.udp_length < 65536
  <2>1. hdr.udp_length \in Word16
    BY <1>2 DEF Fields
  <2> QED
    BY <2>1, Range, SMT DEF Word16
<1>4. /\ hdr.udp_length = Model!U16(frame', 38) /\ Model!LengthsOk(frame')
      /\ hdr.port_match <=> Model!PortMatches(frame', cfg0')
  BY <1>1, <1>2 DEF FieldsFollowFrame
<1>5. /\ (hdr.udp_length - 8) % 65536 = Declared(frame') /\ Declared(frame') \in Int
      /\ Declared(frame') >= 0 /\ Declared(frame') = hdr.udp_length - 8
  BY <1>3, <1>4 DEF Declared, Model!LengthsOk
<1>6. pos' >= 42 /\ ~HeaderFails(frame', pos')
  BY <1>2, <1>4 DEF HeaderFails, HeaderPasses
<1>7. Arrived(frame', pos') = 0
  <2>1. pos' - 42 = 0 /\ Declared(frame') \in Int /\ Declared(frame') >= 0
    BY <1>2, <1>5
  <2> QED
    BY <2>1 DEF Arrived
<1>8. payload_left' = Declared(frame')
  BY <1>5 DEF UdpHeaderEnd, load_payload_count
<1> DEFINE fields == [result EXCEPT !.payload_len = (hdr.udp_length - 8) % 65536]
           first == IF cfg_q.msg_type_enable THEN "FIRST_PAYLOAD" ELSE "PASS_PAYLOAD"
           empty == IF cfg_q.msg_type_enable THEN REASON_MSG_TYPE_MISMATCH ELSE REASON_ACCEPT
<1>9. /\ fields = [result EXCEPT !.payload_len = (hdr.udp_length - 8) % 65536]
      /\ first = IF cfg_q.msg_type_enable THEN "FIRST_PAYLOAD" ELSE "PASS_PAYLOAD"
      /\ empty = IF cfg_q.msg_type_enable THEN REASON_MSG_TYPE_MISMATCH ELSE REASON_ACCEPT
  OBVIOUS
<1> HIDE DEF fields, first, empty
<1>10. fields \in Result /\ fields = [result EXCEPT !.payload_len = Declared(frame')]
  <2>1. (hdr.udp_length - 8) % 65536 \in Word16
    BY <1>3, Wraps
  <2> QED
    BY <1>2, <1>5, <1>9, <2>1 DEF Result
<1>11. MetadataOf(fields) = MetadataOf(GoodMetadata(frame', pos'))
  <2>1. /\ result.src_ip = Model!U32(frame', 26) /\ result.dst_ip = Model!U32(frame', 30)
        /\ result.src_port = Model!U16(frame', 34) /\ result.dst_port = Model!U16(frame', 36)
    BY <1>2 DEF MetadataOf, Model!Metadata
  <2>2. MetadataOf(fields) =
          [src_ip |-> result.src_ip, dst_ip |-> result.dst_ip, src_port |-> result.src_port,
           dst_port |-> result.dst_port, payload_len |-> Declared(frame')]
    BY <1>2, <1>10 DEF MetadataOf, Result
  <2>3. MetadataOf(GoodMetadata(frame', pos')) =
          [src_ip |-> Model!U32(frame', 26), dst_ip |-> Model!U32(frame', 30),
           src_port |-> Model!U16(frame', 34), dst_port |-> Model!U16(frame', 36),
           payload_len |-> Declared(frame')]
    BY <1>2 DEF MetadataOf, GoodMetadata, Model!Metadata
  <2> QED
    BY <2>1, <2>2, <2>3
<1> DEFINE reason == GoodReason(frame', pos', cfg0')
<1>12. \/ /\ hdr.udp_length > 8 /\ in.tlast
          /\ create_descriptor(fields, REASON_BAD_LENGTH_OR_TRUNCATED)
       \/ /\ ~(hdr.udp_length > 8 /\ in.tlast) /\ ~hdr.port_match
          /\ Settle(in, fields, REASON_DST_PORT_MISMATCH)
       \/ /\ hdr.udp_length = 8 /\ hdr.port_match /\ in.tlast
          /\ create_descriptor(fields, empty)
       \/ /\ hdr.udp_length = 8 /\ hdr.port_match /\ ~in.tlast
          /\ frame_reason' = empty /\ Continue(fields, "DRAIN")
       \/ /\ hdr.udp_length # 8 /\ ~(hdr.udp_length > 8 /\ in.tlast) /\ hdr.port_match
          /\ Continue(fields, first)
  BY <1>9, UdpHeaderEndOutcomes
<1>13. ASSUME hdr.udp_length > 8, create_descriptor(fields, REASON_BAD_LENGTH_OR_TRUNCATED)
       PROVE  FrameFollowed'
  <2>1. reason = REASON_BAD_LENGTH_OR_TRUNCATED
    BY <1>3, <1>5, <1>7, <1>13 DEF GoodReason
  <2> QED
    BY <1>6, <1>10, <1>11, <1>13, <2>1, GoodOutcomes
<1>14. ASSUME ~(hdr.udp_length > 8 /\ in.tlast), ~hdr.port_match,
              Settle(in, fields, REASON_DST_PORT_MISMATCH)
       PROVE  FrameFollowed'
  <2>1. FilterReason(frame', cfg0') = REASON_DST_PORT_MISMATCH /\ ~Wanted(frame', cfg0')
    BY <1>4, <1>14 DEF FilterReason, Wanted
  <2>2. CASE in.tlast
    <3>1. reason = REASON_DST_PORT_MISMATCH
      BY <1>3, <1>5, <1>7, <1>14, <2>1, <2>2 DEF GoodReason
    <3>2. create_descriptor(fields, REASON_DST_PORT_MISMATCH)
      BY <1>14, <2>2 DEF Settle
    <3> QED
      BY <1>6, <1>10, <1>11, <3>1, <3>2, GoodOutcomes
  <2>3. CASE ~in.tlast
    <3>1. Continue(fields, "DRAIN") /\ frame_reason' = FilterReason(frame', cfg0')
      BY <1>14, <2>1, <2>3 DEF Settle
    <3>2. payload_left' = Declared(frame') - Arrived(frame', pos')
      BY <1>5, <1>7, <1>8
    <3> QED
      BY <1>6, <1>10, <1>11, <2>1, <3>1, <3>2, GoodOutcomes
  <2> QED
    BY <2>2, <2>3 DEF NextByte
<1>15. ASSUME hdr.udp_length = 8, hdr.port_match
       PROVE  /\ reason = empty /\ FilterReason(frame', cfg0') = empty
              /\ payload_left' = Declared(frame') - Arrived(frame', pos') /\ payload_left' = 0
  <2>1. Declared(frame') = 0 /\ ~(Arrived(frame', pos') < Declared(frame'))
    BY <1>3, <1>5, <1>7, <1>15
  <2>2. FilterReason(frame', cfg0') = empty
    BY <1>2, <1>4, <1>9, <1>15, <2>1 DEF FilterReason, Wanted
  <2> QED
    BY <1>7, <1>8, <2>1, <2>2 DEF GoodReason
<1>16. ASSUME hdr.udp_length # 8, hdr.port_match, Continue(fields, first)
       PROVE  FrameFollowed'
  <2>1. payload_left' = Declared(frame') - (pos' - 42)
    BY <1>2, <1>5, <1>8
  <2>2. CASE cfg_q.msg_type_enable
    <3>1. first = "FIRST_PAYLOAD"
      BY <1>9, <2>2
    <3>2. state' = "FIRST_PAYLOAD" /\ cfg0'.msg_type_enable
      BY <1>2, <1>16, <2>2, <3>1 DEF Continue
    <3> QED
      BY <1>2, <1>4, <1>6, <1>10, <1>11, <1>16, <2>1, <3>1, <3>2, GoodOutcomes
  <2>3. CASE ~cfg_q.msg_type_enable
    <3>1. first = "PASS_PAYLOAD"
      BY <1>9, <2>3
    <3>2. state' = "PASS_PAYLOAD" /\ Wanted(frame', cfg0')
      BY <1>2, <1>4, <1>16, <2>3, <3>1 DEF Continue, Wanted
    <3> QED
      BY <1>4, <1>6, <1>10, <1>11, <1>16, <2>1, <3>1, <3>2, GoodOutcomes
  <2> QED
    BY <2>2, <2>3
<1>17. ASSUME hdr.udp_length = 8, hdr.port_match,
              create_descriptor(fields, empty)
              \/ (frame_reason' = empty /\ Continue(fields, "DRAIN"))
       PROVE  FrameFollowed'
  BY <1>6, <1>10, <1>11, <1>15, <1>17, GoodOutcomes
<1> QED
  BY <1>12, <1>13, <1>14, <1>16, <1>17, Zenon

\* A byte after the header, whether it is payload or follows it.
LEMMA PayloadByte ==
  ASSUME ControlInv, NEW in, NextByte(in), count_payload_byte, pos >= 42,
         ~HeaderFails(frame, pos), payload_left = Declared(frame) - Arrived(frame, pos),
         MetadataOf(result) = MetadataOf(Expected.record)
  PROVE  /\ frame' = frame /\ cfg0' = cfg0 /\ cfg_q = cfg0 /\ pos' >= 42
         /\ ~HeaderFails(frame', pos')
         /\ payload_left' = Declared(frame') - Arrived(frame', pos')
         /\ payload_many <=> Arrived(frame', pos') < Declared(frame')
         /\ payload_one => payload_left' = 0
         /\ result \in Result
         /\ MetadataOf(result) = MetadataOf(GoodMetadata(frame', pos'))
<1>1. /\ frame' = frame /\ cfg0' = cfg0 /\ cfg_q = cfg0 /\ pos' = pos + 1
      /\ pos \in Nat /\ pos' \in Nat /\ pos' >= 42
      /\ Model!U16(frame, 16) \in Int /\ Model!U16(frame, 38) \in Int
  BY DEF NextByte
<1>2. ~HeaderFails(frame', pos') /\ GoodMetadata(frame', pos') = GoodMetadata(frame, pos)
  BY <1>1, HeaderComplete
<1>3. /\ Declared(frame) \in Int /\ Arrived(frame, pos) \in Int
      /\ Arrived(frame, pos) <= Declared(frame)
      /\ Arrived(frame, pos) < Declared(frame) => Arrived(frame, pos') = Arrived(frame, pos) + 1
      /\ Arrived(frame, pos) = Declared(frame) => Arrived(frame, pos') = Declared(frame)
  BY <1>1, PayloadArrives
<1>4. payload_left' = IF payload_left # 0 THEN payload_left - 1 ELSE payload_left
  BY DEF count_payload_byte, load_payload_count, payloadVars
<1>5. (payload_one <=> payload_left = 1) /\ (payload_many <=> payload_left > 1)
  BY Zenon DEF ControlInv, FlagsMatchCount
<1>6. payload_left' = Declared(frame') - Arrived(frame', pos')
  BY <1>1, <1>3, <1>4
<1>7. payload_many <=> Arrived(frame', pos') < Declared(frame')
  <2>1. payload_left > 1 <=> Arrived(frame', pos') < Declared(frame')
    BY <1>1, <1>3
  <2> QED
    BY <1>5, <2>1, Zenon
<1>8. payload_one => payload_left' = 0
  <2>1. payload_left = 1 => payload_left' = 0
    BY <1>4
  <2> QED
    BY <1>5, <2>1, Zenon
<1>9. result \in Result
  BY DEF ControlInv, TypeOK, FilterTypeOK
<1>10. MetadataOf(Expected.record) = MetadataOf(GoodMetadata(frame, pos))
  <2>1. Gives(frame, pos, cfg0, started - 1, GoodReason(frame, pos, cfg0),
              GoodMetadata(frame, pos), Forwarded(frame, pos, cfg0))
    BY <1>1, GoodFrame
  <2> QED
    BY <2>1, RecordMetadata DEF Gives, Expected
<1> QED
  BY <1>1, <1>2, <1>6, <1>7, <1>8, <1>9, <1>10

\* In the payload states as much has arrived as bytes follow the header.
LEMMA PayloadBegun ==
  ASSUME ControlInv, PayloadFollowsFrame, NEW in, NextByte(in), state \in PayloadStates
  PROVE  /\ pos >= 42 /\ ~HeaderFails(frame, pos) /\ pos > 0
         /\ Model!PortMatches(frame, cfg0)
         /\ payload_left = Declared(frame) - Arrived(frame, pos)
         /\ Arrived(frame, pos) = pos - 42 /\ Arrived(frame, pos) < Declared(frame)
         /\ Arrived(frame, pos') = pos' - 42
         /\ Declared(frame) > 0
<1>1. /\ pos >= 42 /\ ~HeaderFails(frame, pos) /\ Model!PortMatches(frame, cfg0)
      /\ payload_left = Declared(frame) - (pos - 42)
  BY DEF PayloadFollowsFrame
<1>2. payload_left \in Int /\ payload_left >= 0 /\ payload_left # 0
  <2>1. payload_left \in Word16 /\ payload_left # 0
    BY DEF ControlInv, TypeOK, FilterTypeOK, PayloadExpected
  <2> QED
    BY <2>1, Range, SMT DEF Word16
<1>3. pos \in Nat /\ pos' = pos + 1 /\ Model!U16(frame, 38) \in Int
  BY <1>1 DEF NextByte
<1>4. /\ Declared(frame) \in Int /\ Arrived(frame, pos) \in Int
      /\ Arrived(frame, pos) <= Declared(frame)
      /\ Arrived(frame, pos) < Declared(frame) =>
           Arrived(frame, pos) = pos - 42 /\ Arrived(frame, pos + 1) = Arrived(frame, pos) + 1
  BY <1>1, <1>3, PayloadArrives
<1>5. pos - 42 < Declared(frame)
  BY <1>1, <1>2, <1>3, <1>4
<1>6. Arrived(frame, pos) = pos - 42
  BY <1>5 DEF Arrived
<1> QED
  BY <1>1, <1>3, <1>4, <1>5, <1>6

\* A payload byte that passes on.
LEMMA ForwardFollows ==
  ASSUME ControlInv, PayloadFollowsFrame, ResultFollowsFrame, NEW in \in Input, NextByte(in),
         state \in PayloadStates, count_payload_byte, Forward(in), Wanted(frame, cfg0)
  PROVE  FrameFollowed'
<1>1. /\ pos >= 42 /\ ~HeaderFails(frame, pos) /\ Model!PortMatches(frame, cfg0)
      /\ payload_left = Declared(frame) - Arrived(frame, pos)
      /\ Arrived(frame, pos') = pos' - 42
  BY PayloadBegun
<1>2. MetadataOf(result) = MetadataOf(Expected.record)
  BY DEF ResultFollowsFrame
<1>3. /\ frame' = frame /\ cfg0' = cfg0 /\ pos' >= 42 /\ ~HeaderFails(frame', pos')
      /\ payload_left' = Declared(frame') - Arrived(frame', pos')
      /\ payload_many <=> Arrived(frame', pos') < Declared(frame')
      /\ payload_one => payload_left' = 0
      /\ result \in Result
      /\ MetadataOf(result) = MetadataOf(GoodMetadata(frame', pos'))
  BY <1>1, <1>2, PayloadByte
<1>4. FilterReason(frame', cfg0') = REASON_ACCEPT
  BY <1>3 DEF FilterReason, Wanted
<1>5. GoodReason(frame', pos', cfg0') = close_reason(REASON_ACCEPT)
  BY <1>3, <1>4, Zenon DEF GoodReason, close_reason
<1>6. \/ frame_reason' = close_reason(REASON_ACCEPT) /\ Continue(result, "WAIT_OUTPUT")
      \/ payload_one /\ frame_reason' = REASON_ACCEPT /\ Continue(result, "DRAIN")
      \/ Continue(result, "PASS_PAYLOAD")
  BY DEF Forward
<1>7. ASSUME frame_reason' = close_reason(REASON_ACCEPT), Continue(result, "WAIT_OUTPUT")
      PROVE  FrameFollowed'
  BY <1>3, <1>5, <1>7, GoodOutcomes
<1>8. ASSUME payload_one, frame_reason' = REASON_ACCEPT, Continue(result, "DRAIN")
      PROVE  FrameFollowed'
  BY <1>3, <1>4, <1>8, GoodOutcomes
<1>9. ASSUME Continue(result, "PASS_PAYLOAD")
      PROVE  FrameFollowed'
  <2>1. state' = "PASS_PAYLOAD" /\ payload_left' = Declared(frame') - (pos' - 42)
    BY <1>1, <1>3, <1>9 DEF Continue
  <2> QED
    BY <1>1, <1>3, <1>9, <2>1, GoodOutcomes
<1> QED
  BY <1>6, <1>7, <1>8, <1>9, Zenon

\* The first payload byte, which the message-type rule looks at.
LEMMA FirstPayloadFollows ==
  ASSUME ControlInv, PayloadFollowsFrame, ResultFollowsFrame, NEW in \in Input, NextByte(in),
         FirstPayload(in)
  PROVE  FrameFollowed'
<1>1. state = "FIRST_PAYLOAD" /\ state \in PayloadStates /\ count_payload_byte
  BY DEF FirstPayload, PayloadStates
<1>2. /\ pos >= 42 /\ ~HeaderFails(frame, pos) /\ Model!PortMatches(frame, cfg0) /\ pos > 0
      /\ payload_left = Declared(frame) - Arrived(frame, pos)
      /\ Declared(frame) > 0
  BY <1>1, PayloadBegun
<1>3. pos = 42 /\ cfg0.msg_type_enable
  BY <1>1 DEF PayloadFollowsFrame
<1>4. in.tdata = Model!At(frame, 42) /\ cfg_q = cfg0
  BY <1>2, <1>3 DEF NextByte
<1>5. Wanted(frame, cfg0) <=> in.tdata = cfg_q.msg_type
  BY <1>2, <1>3, <1>4 DEF Wanted
<1>6. CASE in.tdata = cfg_q.msg_type /\ Forward(in)
  BY <1>1, <1>5, <1>6, ForwardFollows
<1>7. CASE /\ in.tdata # cfg_q.msg_type
           /\ IF in.tlast
                THEN /\ create_descriptor(result, close_reason(REASON_MSG_TYPE_MISMATCH))
                     /\ UNCHANGED frame_reason
                ELSE /\ Continue(result, "DRAIN")
                     /\ frame_reason' = REASON_MSG_TYPE_MISMATCH
  <2>1. MetadataOf(result) = MetadataOf(Expected.record)
    BY <1>1 DEF ResultFollowsFrame
  <2>2. /\ frame' = frame /\ cfg0' = cfg0 /\ pos' >= 42 /\ ~HeaderFails(frame', pos')
        /\ payload_left' = Declared(frame') - Arrived(frame', pos')
        /\ payload_many <=> Arrived(frame', pos') < Declared(frame')
        /\ result \in Result
        /\ MetadataOf(result) = MetadataOf(GoodMetadata(frame', pos'))
    BY <1>1, <1>2, <2>1, PayloadByte
  <2>3. ~Wanted(frame', cfg0') /\ FilterReason(frame', cfg0') = REASON_MSG_TYPE_MISMATCH
    BY <1>2, <1>5, <1>7, <2>2 DEF FilterReason
  <2>4. GoodReason(frame', pos', cfg0') = close_reason(REASON_MSG_TYPE_MISMATCH)
    BY <2>2, <2>3, Zenon DEF GoodReason, close_reason
  <2>5. \/ create_descriptor(result, close_reason(REASON_MSG_TYPE_MISMATCH))
        \/ Continue(result, "DRAIN") /\ frame_reason' = REASON_MSG_TYPE_MISMATCH
    BY <1>7
  <2>6. create_descriptor(result, GoodReason(frame', pos', cfg0')) => FrameFollowed'
    BY <2>2, GoodOutcomes
  <2>7. Continue(result, "DRAIN") /\ frame_reason' = FilterReason(frame', cfg0') => FrameFollowed'
    BY <2>2, <2>3, GoodOutcomes
  <2> QED
    BY <2>3, <2>4, <2>5, <2>6, <2>7
<1> QED
  BY <1>6, <1>7 DEF FirstPayload

\* The other payload bytes.
LEMMA PassPayloadFollows ==
  ASSUME ControlInv, PayloadFollowsFrame, ResultFollowsFrame, NEW in \in Input, NextByte(in),
         PassPayload(in)
  PROVE  FrameFollowed'
<1>1. /\ state = "PASS_PAYLOAD" /\ state \in PayloadStates
      /\ count_payload_byte /\ Forward(in)
  BY DEF PassPayload, PayloadStates
<1>2. Wanted(frame, cfg0)
  BY <1>1 DEF PayloadFollowsFrame
<1> QED
  BY <1>1, <1>2, ForwardFollows

\* The rest of a frame whose header has failed.
LEMMA DrainFailedFollows ==
  ASSUME ControlInv, DrainFollowsFrame, ResultFollowsFrame, NEW in \in Input, NextByte(in),
         Drain(in), HeaderFails(frame, pos)
  PROVE  FrameFollowed'
<1>1. state = "DRAIN" /\ count_payload_byte
  BY DEF Drain
<1>2. /\ payload_left = 0 /\ frame_reason = Expected.record.reason
      /\ MetadataOf(result) = MetadataOf(Expected.record)
  BY <1>1 DEF DrainFollowsFrame, ResultFollowsFrame
<1>3. payload_left' = 0 /\ close_reason(frame_reason) = frame_reason
  <2>1. ~(payload_left > 1)
    BY <1>2
  <2>2. ~payload_many
    BY <2>1, Zenon DEF ControlInv, FlagsMatchCount
  <2> QED
    BY <1>1, <1>2, <2>2 DEF count_payload_byte, payloadVars, close_reason
<1>4. pos > 0
  BY <1>1 DEF ControlInv, StateFollowsFrame, TypeOK
<1>5. /\ frame' = frame /\ cfg0' = cfg0 /\ started' = started /\ pos' = pos + 1 /\ pos \in Nat
      /\ pos >= 18 => Model!U16(frame, 16) \in Int
  BY <1>4 DEF NextByte
<1>6. PICK reason, metadata :
        /\ Gives(frame, pos, cfg0, started - 1, reason, metadata, 0)
        /\ Gives(frame, pos + 1, cfg0, started - 1, reason, metadata, 0)
  BY <1>5, FailedStaysFailed
<1>7. HeaderFails(frame', pos')
  BY <1>5, FailedStaysFailed
<1>8. Gives(frame', pos', cfg0', started' - 1, reason, metadata, 0)
  BY <1>5, <1>6
<1>9. Expected.record = Model!Record(reason, metadata, started - 1)
  BY <1>6 DEF Gives, Expected
<1>10. frame_reason = reason /\ MetadataOf(result) = MetadataOf(metadata)
  BY <1>2, <1>9, RecordMetadata
<1>11. result \in Result
  BY DEF ControlInv, TypeOK, FilterTypeOK
<1>12. Expected'.record.reason = reason /\ MetadataOf(Expected'.record) = MetadataOf(result)
  <2>1. Expected'.record = Model!Record(reason, metadata, started' - 1)
    BY <1>8 DEF Gives, Expected
  <2> QED
    BY <1>10, <2>1, RecordMetadata
<1>13. CASE create_descriptor(result, frame_reason)
  BY <1>8, <1>10, <1>11, <1>13, Recorded
<1>14. CASE /\ frame_reason' = frame_reason
            /\ Continue(result, "WAIT_OUTPUT") \/ Continue(result, "DRAIN")
  <2>1. state' \in {"WAIT_OUTPUT", "DRAIN"} /\ result' = result
    BY <1>14 DEF Continue
  <2>2. frame_reason' = Expected'.record.reason
    BY <1>10, <1>12, <1>14
  <2>3. ResultFollowsFrame'
    BY <1>12, <2>1, <2>2 DEF ResultFollowsFrame, MetadataOf
  <2>4. DrainFollowsFrame'
    BY <1>3, <1>7, <2>2 DEF DrainFollowsFrame
  <2> QED
    BY <2>1, <2>3, <2>4
    DEF FrameFollowed, HeaderFollowsFrame, PayloadFollowsFrame, HeaderStates, PayloadStates
<1> QED
  BY <1>3, <1>13, <1>14 DEF Drain, close_or_wait

\* The rest of a frame with a good header.
LEMMA DrainGoodFollows ==
  ASSUME ControlInv, DrainFollowsFrame, ResultFollowsFrame, NEW in \in Input, NextByte(in),
         Drain(in), ~HeaderFails(frame, pos)
  PROVE  FrameFollowed'
<1>1. state = "DRAIN" /\ count_payload_byte
  BY DEF Drain
<1>2. /\ pos >= 42 /\ payload_left = Declared(frame) - Arrived(frame, pos)
      /\ frame_reason = FilterReason(frame, cfg0)
      /\ Wanted(frame, cfg0) => payload_left = 0
      /\ MetadataOf(result) = MetadataOf(Expected.record)
  BY <1>1 DEF DrainFollowsFrame, ResultFollowsFrame
<1>3. /\ frame' = frame /\ cfg0' = cfg0 /\ pos' >= 42 /\ ~HeaderFails(frame', pos')
      /\ payload_left' = Declared(frame') - Arrived(frame', pos')
      /\ payload_many <=> Arrived(frame', pos') < Declared(frame')
      /\ result \in Result
      /\ MetadataOf(result) = MetadataOf(GoodMetadata(frame', pos'))
  BY <1>1, <1>2, PayloadByte
<1>4. GoodReason(frame', pos', cfg0') = close_reason(frame_reason)
  BY <1>2, <1>3, Zenon DEF GoodReason, close_reason
<1>5. Wanted(frame', cfg0') => payload_left' = 0
  BY <1>1, <1>2, <1>3 DEF count_payload_byte, payloadVars
<1>6. \/ create_descriptor(result, close_reason(frame_reason))
      \/ frame_reason' = close_reason(frame_reason) /\ Continue(result, "WAIT_OUTPUT")
      \/ frame_reason' = frame_reason /\ Continue(result, "DRAIN")
  BY DEF Drain, close_or_wait
<1>7. create_descriptor(result, GoodReason(frame', pos', cfg0')) => FrameFollowed'
  BY <1>3, GoodOutcomes
<1>8. frame_reason' = GoodReason(frame', pos', cfg0') /\ Continue(result, "WAIT_OUTPUT")
        => FrameFollowed'
  BY <1>3, GoodOutcomes
<1>9. frame_reason' = FilterReason(frame', cfg0') /\ Continue(result, "DRAIN") => FrameFollowed'
  BY <1>3, <1>5, GoodOutcomes
<1> QED
  BY <1>2, <1>3, <1>4, <1>6, <1>7, <1>8, <1>9

\* The fields of a frame can be read as far as it has come.
LEMMA FieldsReached ==
  ASSUME NEW f \in Streams, NEW n \in Nat, n <= Len(f)
  PROVE  /\ n >= 18 => Model!U16(f, 16) \in Int
         /\ n >= 40 => Model!U16(f, 38) \in Int
<1>1. f \in Seq(Byte) /\ Len(f) \in Nat
  BY StreamsAssumption
<1>2. \A i \in 0 .. Len(f) - 2 : Model!U16(f, i) \in Int
  BY <1>1, FieldTypes
<1>3. (n >= 18 => 16 \in 0 .. Len(f) - 2) /\ (n >= 40 => 38 \in 0 .. Len(f) - 2)
  BY <1>1
<1> QED
  BY <1>2, <1>3

\* The reference model answers with a record and forwards what it wants to, in
\* any of its three cases.
LEMMA ModelAnswers ==
  ASSUME NEW f \in Streams, NEW n \in Nat, n <= Len(f), NEW cfg, NEW seq
  PROVE  \E reason, metadata : Gives(f, n, cfg, seq, reason, metadata, Forwarded(f, n, cfg))
<1>1. (n >= 18 => Model!U16(f, 16) \in Int) /\ (n >= 40 => Model!U16(f, 38) \in Int)
  BY FieldsReached
<1>2. CASE HeaderFails(f, n)
  <2>1. \E reason, metadata : Gives(f, n, cfg, seq, reason, metadata, 0)
    BY <1>1, <1>2, FailedStaysFailed
  <2>2. Forwarded(f, n, cfg) = 0
    BY <1>2 DEF Forwarded
  <2> QED
    BY <2>1, <2>2, Zenon
<1>3. CASE ~HeaderFails(f, n) /\ n < 42
  <2>1. Gives(f, n, cfg, seq, REASON_BAD_LENGTH_OR_TRUNCATED, Model!Metadata(f, n), 0)
    BY <1>1, <1>3, TruncatedHeader DEF HeaderFails
  <2>2. Forwarded(f, n, cfg) = 0
    BY <1>3 DEF Forwarded
  <2> QED
    BY <2>1, <2>2, Zenon
<1>4. CASE ~HeaderFails(f, n) /\ n >= 42
  <2>1. Gives(f, n, cfg, seq, GoodReason(f, n, cfg), GoodMetadata(f, n), Forwarded(f, n, cfg))
    BY <1>1, <1>4, GoodFrame
  <2> QED
    BY <2>1, Zenon
<1> QED
  BY <1>2, <1>3, <1>4

\* The record that had to wait for the payload to leave.
LEMMA WaitOutputFollows ==
  ASSUME ControlInv, SequenceFollowsFrames, ResultFollowsFrame, NEW in \in Input, WaitOutput(in),
         UNCHANGED <<frame, pos, cfg0, started>>
  PROVE  FrameFollowed'
<1>1. state = "WAIT_OUTPUT" /\ create_descriptor(result, frame_reason)
  BY DEF WaitOutput
<1>2. frame_reason = Expected.record.reason
      /\ MetadataOf(result) = MetadataOf(Expected.record)
  BY <1>1 DEF ResultFollowsFrame, ClosedStates
<1>3. PICK reason, metadata : Expected.record = Model!Record(reason, metadata, started - 1)
  <2>1. pos \in Nat /\ pos > 0 /\ frame \in Streams /\ pos <= Len(frame)
    BY <1>1 DEF ControlInv, TypeOK, StateFollowsFrame
  <2>2. \E reason, metadata, forwarded :
          Gives(frame, pos, cfg0, started - 1, reason, metadata, forwarded)
    BY <2>1, ModelAnswers
  <2> QED
    BY <2>2, Zenon DEF Gives, Expected
<1>4. reason = frame_reason /\ MetadataOf(result) = MetadataOf(metadata)
  BY <1>2, <1>3, RecordMetadata
<1>5. sequence_counter = (started - 1) % SEQUENCE_MODULUS
  BY <1>1 DEF ControlInv, StateFollowsFrame, TypeOK, SequenceFollowsFrames
<1>6. result \in Result
  BY DEF ControlInv, TypeOK, FilterTypeOK
<1>7. result' = Expected.record
  BY <1>1, <1>3, <1>4, <1>5, <1>6, RecordMade
<1>8. Expected' = Expected
  BY DEF Expected
<1>9. state' = "RESULT_HOLD"
  BY <1>1 DEF create_descriptor
<1> QED
  BY <1>7, <1>8, <1>9
  DEF FrameFollowed, HeaderFollowsFrame, PayloadFollowsFrame, DrainFollowsFrame,
      ResultFollowsFrame, HeaderStates, PayloadStates, ClosedStates

\* While the parser waits, what the registers say of the frame stays true.
LEMMA WaitingFollows ==
  ASSUME FrameFollowed, UNCHANGED parserVars, UNCHANGED <<frame, pos, cfg0, started>>
  PROVE  FrameFollowed'
<1>1. Expected' = Expected
  BY DEF Expected
<1>2. HeaderFollowsFrame'
  <2>1. FieldsFollowFrame => FieldsFollowFrame'
    BY DEF FieldsFollowFrame, parserVars
  <2>2. MetadataOf(result)' = MetadataOf(result) /\ UNCHANGED <<state, header_index, payload_left>>
    BY DEF MetadataOf, parserVars
  <2> QED
    BY <2>1, <2>2 DEF FrameFollowed, HeaderFollowsFrame
<1>3. PayloadFollowsFrame'
  BY DEF FrameFollowed, PayloadFollowsFrame, parserVars
<1>4. DrainFollowsFrame'
  BY <1>1 DEF FrameFollowed, DrainFollowsFrame, parserVars
<1>5. ResultFollowsFrame'
  BY <1>1 DEF FrameFollowed, ResultFollowsFrame, MetadataOf, parserVars
<1> QED
  BY <1>2, <1>3, <1>4, <1>5 DEF FrameFollowed

\* On every edge the registers keep saying of the frame what they said.
LEMMA FrameFollowedStep ==
  ASSUME ControlInv, SequenceFollowsFrames, FrameFollowed, NEW source \in Streams,
         NEW in \in Input, Step(source, in), source \in Sources
  PROVE  FrameFollowed'
<1> USE DEF FrameFollowed
<1>1. Parser(in)
  BY DEF Step, Clock
<1>2. CASE input_handshake(in)
  <2>1. NextByte(in)
    BY <1>2, ByteIsNext
  <2>2. state \notin ClosedStates
    BY <1>2, NoInputWhenClosed
  <2>3. ~WaitOutput(in) /\ ~ResultHold(in) /\ ~NoHandshake(in)
    BY <1>2, <2>2 DEF WaitOutput, ResultHold, NoHandshake, ClosedStates
  <2>4. Drain(in) => FrameFollowed'
    BY <2>1, DrainFailedFollows, DrainGoodFollows
  <2> QED
    BY <1>1, <2>1, <2>3, <2>4, IdleFollows, EthHeaderFollows, Ipv4HeaderFollows, UdpHeaderFollows,
       UdpBadLengthsFollows, UdpHeaderEndFollows, FirstPayloadFollows, PassPayloadFollows
    DEF Parser
<1>3. CASE ~input_handshake(in)
  <2>1. WaitOutput(in) \/ ResultHold(in) \/ NoHandshake(in)
    BY <1>1, <1>3 DEF Parser, Idle, EthHeader, Ipv4Header, UdpHeader, UdpBadLengths,
                      UdpHeaderEnd, FirstPayload, PassPayload, Drain
  <2>2. ~ResultHandshake(in) => UNCHANGED <<frame, pos, cfg0, started>>
    BY <1>3, NoByteArrives
  <2>3. ResultHandshake(in) => state = "RESULT_HOLD"
    BY DEF ResultHandshake, ControlInv, StateFollowsFrame
  <2>4. CASE WaitOutput(in)
    <3>1. ~ResultHandshake(in)
      BY <2>3, <2>4 DEF WaitOutput
    <3> QED
      BY <2>2, <2>4, <3>1, WaitOutputFollows
  <2>5. CASE ResultHold(in)
    <3>1. state' = "IDLE"
      BY <2>5 DEF ResultHold
    <3> QED
      BY <3>1 DEF HeaderFollowsFrame, PayloadFollowsFrame, DrainFollowsFrame, ResultFollowsFrame,
                  HeaderStates, PayloadStates, ClosedStates
  <2>6. CASE NoHandshake(in)
    <3>1. ~ResultHandshake(in) /\ UNCHANGED parserVars
      BY <2>3, <2>6 DEF NoHandshake
    <3> HIDE DEF FrameFollowed
    <3>2. FrameFollowed
      OBVIOUS
    <3> QED
      BY <2>2, <3>1, <3>2, WaitingFollows
  <2> QED
    BY <2>1, <2>4, <2>5, <2>6
<1> QED
  BY <1>2, <1>3

-----------------------------------------------------------------------------
(* The payload that has passed on.                                         *)

\* What the reference model forwards of the frame in progress.
LEMMA ModelForwards ==
  ControlInv /\ pos > 0 => Expected.forwarded = Forwarded(frame, pos, cfg0)
<1> SUFFICES ASSUME ControlInv, pos > 0
             PROVE  Expected.forwarded = Forwarded(frame, pos, cfg0)
  OBVIOUS
<1>1. pos \in Nat /\ frame \in Streams /\ pos <= Len(frame)
  BY DEF ControlInv, TypeOK, StateFollowsFrame
<1>2. \E reason, metadata : Gives(frame, pos, cfg0, started - 1, reason, metadata,
                                 Forwarded(frame, pos, cfg0))
  BY <1>1, ModelAnswers
<1> QED
  BY <1>2 DEF Gives, Expected

\* An accepted byte is forwarded by the reference model exactly when the parser
\* writes it to the buffer.
LEMMA ForwardedStep ==
  ASSUME ControlInv, FrameFollowed, NEW in \in Input, NextByte(in), input_handshake(in)
  PROVE  Forwarded(frame', pos', cfg0') =
           (IF pos = 0 THEN 0 ELSE Forwarded(frame, pos, cfg0)) + (IF Writes(in) THEN 1 ELSE 0)
<1>1. /\ pos \in Nat /\ pos' = pos + 1
      /\ pos > 0 => frame' = frame /\ cfg0' = cfg0
      /\ pos' >= 40 => Model!U16(frame', 38) \in Int
  BY DEF NextByte
<1>2. state \in States /\ (pos = 0 <=> state = "IDLE") /\ state \notin ClosedStates
  BY NoInputWhenClosed DEF ControlInv, TypeOK, FilterTypeOK, StateFollowsFrame
<1>3. CASE state \in {"IDLE"} \cup HeaderStates
  <2>1. ~Writes(in)
    BY <1>3 DEF Writes, buffer_s_valid, HeaderStates
  <2>2. pos' <= 42
    <3>1. CASE state = "IDLE"
      BY <1>1, <1>2, <3>1
    <3>2. CASE state \in HeaderStates
      BY <3>2, HeaderByte, <1>1 DEF FrameFollowed, HeaderStates
    <3> QED
      BY <1>3, <3>1, <3>2
  <2>3. pos # 0 => Forwarded(frame, pos, cfg0) = 0
    BY <1>1, <2>2 DEF Forwarded
  <2>4. Forwarded(frame', pos', cfg0') = 0
    <3>1. CASE pos' < 42 \/ HeaderFails(frame', pos')
      BY <1>1, <3>1 DEF Forwarded
    <3>2. CASE pos' = 42 /\ ~HeaderFails(frame', pos')
      <4>1. Arrived(frame', pos') \in Int /\ Arrived(frame', pos') >= 0 /\ Arrived(frame', pos') <= 0
        BY <1>1, <3>2, PayloadArrives
      <4> QED
        BY <3>2, <4>1 DEF Forwarded
    <3> QED
      BY <1>1, <2>2, <3>1, <3>2
  <2> QED
    BY <2>1, <2>3, <2>4
<1>4. CASE state \in PayloadStates
  <2>1. /\ pos >= 42 /\ ~HeaderFails(frame, pos) /\ pos > 0
        /\ Model!PortMatches(frame, cfg0) /\ Declared(frame) > 0
        /\ Arrived(frame, pos) = pos - 42 /\ Arrived(frame, pos') = pos' - 42
    BY <1>4, PayloadBegun DEF FrameFollowed
  <2>2. frame' = frame /\ cfg0' = cfg0 /\ ~HeaderFails(frame, pos') /\ pos' >= 42
    BY <1>1, <2>1, HeaderComplete
  <2>3. Writes(in) <=> Wanted(frame, cfg0)
    <3>1. in.tvalid /\ output_buffer!s_ready
      BY <1>4 DEF input_handshake, s_axis_tready, PayloadStates
    <3>2. CASE state = "PASS_PAYLOAD"
      BY <3>1, <3>2 DEF Writes, buffer_s_valid, FrameFollowed, PayloadFollowsFrame, PayloadStates
    <3>3. CASE state = "FIRST_PAYLOAD"
      <4>1. pos = 42 /\ cfg0.msg_type_enable
        BY <3>3 DEF FrameFollowed, PayloadFollowsFrame, PayloadStates
      <4>2. in.tdata = Model!At(frame, 42) /\ cfg_q = cfg0
        BY <2>1, <4>1 DEF NextByte
      <4>3. Wanted(frame, cfg0) <=> in.tdata = cfg_q.msg_type
        BY <2>1, <4>1, <4>2 DEF Wanted
      <4> QED
        BY <3>1, <3>3, <4>3 DEF Writes, buffer_s_valid
    <3> QED
      BY <1>4, <3>2, <3>3 DEF PayloadStates
  <2> QED
    BY <1>1, <2>1, <2>2, <2>3 DEF Forwarded
<1>5. CASE state = "DRAIN"
  <2>1. ~Writes(in)
    BY <1>5 DEF Writes, buffer_s_valid
  <2>2. pos > 0 /\ frame' = frame /\ cfg0' = cfg0
    BY <1>1, <1>2, <1>5
  <2>3. CASE HeaderFails(frame, pos)
    <3>1. HeaderFails(frame, pos')
      BY <1>1, <2>2, <2>3, FailedStaysFailed DEF NextByte
    <3> QED
      BY <2>1, <2>2, <2>3, <3>1 DEF Forwarded
  <2>4. CASE ~HeaderFails(frame, pos)
    <3>1. /\ pos >= 42 /\ payload_left = Declared(frame) - Arrived(frame, pos)
          /\ Wanted(frame, cfg0) => payload_left = 0
      BY <1>5, <2>4 DEF FrameFollowed, DrainFollowsFrame
    <3>2. ~HeaderFails(frame, pos') /\ pos' >= 42
      BY <1>1, <2>4, <3>1, HeaderComplete
    <3>3. /\ Arrived(frame, pos) \in Int /\ Declared(frame) \in Int
          /\ Arrived(frame, pos) = Declared(frame) => Arrived(frame, pos') = Declared(frame)
      BY <1>1, <2>2, <2>4, <3>1, PayloadArrives
    <3>4. Wanted(frame, cfg0) => Arrived(frame, pos') = Arrived(frame, pos)
      BY <3>1, <3>3
    <3> QED
      BY <1>1, <2>1, <2>2, <2>4, <3>1, <3>2, <3>3, <3>4 DEF Forwarded
  <2> QED
    BY <2>3, <2>4
<1> QED
  BY <1>2, <1>3, <1>4, <1>5 DEF States, HeaderStates, PayloadStates, ClosedStates

\* Every edge forwards what the reference model forwards.
LEMMA PayloadIsCutThroughStep ==
  ASSUME ControlInv, ControlInv', SequenceFollowsFrames, FrameFollowed, PayloadIsCutThrough,
         NEW source \in Streams, NEW in \in Input, Step(source, in), source \in Sources
  PROVE  PayloadIsCutThrough'
<1>1. Len(Buffered) = Held /\ Held \in 0 .. 2 /\ (~out_valid_q => Held = 0)
  BY BufferedLength
<1>2. (Len(Buffered) = Held /\ Held \in 0 .. 2 /\ (~out_valid_q => Held = 0))'
  BY BufferedLength, PTL
<1>3. /\ pos \in Nat /\ pos' \in Nat /\ sent \in Nat /\ sent' \in Nat
      /\ (pos = 0 => ~out_valid_q /\ sent = 0)
  BY DEF ControlInv, TypeOK, StateFollowsFrame, BufferFollowsState, NothingSentYet
<1>4. (pos > 0 => Expected.forwarded = Forwarded(frame, pos, cfg0))
      /\ (pos' > 0 => Expected'.forwarded = Forwarded(frame', pos', cfg0'))
  <2>1. (ControlInv /\ pos > 0 => Expected.forwarded = Forwarded(frame, pos, cfg0))'
    BY ModelForwards, PTL
  <2> QED
    BY <2>1, ModelForwards
<1>5. CASE input_handshake(in)
  <2>1. NextByte(in) /\ pos' = pos + 1 /\ ~ResultHandshake(in)
    BY <1>5, ByteIsNext, ByteArrives
  <2>2. sent' + Held' = sent + Held + (IF Writes(in) THEN 1 ELSE 0)
    BY <2>1, SentStep
  <2>3. Forwarded(frame', pos', cfg0') =
          (IF pos = 0 THEN 0 ELSE Forwarded(frame, pos, cfg0)) + (IF Writes(in) THEN 1 ELSE 0)
    BY <1>5, <2>1, ForwardedStep
  <2>4. sent + Held = IF pos = 0 THEN 0 ELSE Forwarded(frame, pos, cfg0)
    BY <1>1, <1>3, <1>4 DEF PayloadIsCutThrough
  <2>5. pos' > 0
    BY <1>3, <2>1
  <2> QED
    BY <1>2, <1>3, <1>4, <2>2, <2>3, <2>4, <2>5 DEF PayloadIsCutThrough
<1>6. CASE ~input_handshake(in) /\ ~ResultHandshake(in)
  <2>1. UNCHANGED <<frame, pos, cfg0, started>>
    BY <1>6, NoByteArrives
  <2>2. ~Writes(in)
    BY <1>6 DEF Writes, buffer_s_valid, input_handshake, s_axis_tready
  <2>3. sent' + Held' = sent + Held
    <3>1. sent' + Held' = sent + Held + 0
      BY <1>6, <2>2, SentStep
    <3> QED
      BY <1>1, <1>3, <3>1
  <2>4. Expected' = Expected
    BY <2>1 DEF Expected
  <2>5. CASE pos = 0
    BY <2>1, <2>5 DEF PayloadIsCutThrough
  <2>6. CASE pos # 0
    <3>1. sent + Held = Expected.forwarded
      BY <1>1, <1>3, <2>6 DEF PayloadIsCutThrough
    <3> QED
      BY <1>2, <1>3, <2>1, <2>3, <2>4, <2>6, <3>1 DEF PayloadIsCutThrough
  <2> QED
    BY <2>5, <2>6
<1>7. CASE ~input_handshake(in) /\ ResultHandshake(in)
  BY <1>7, NoByteArrives DEF PayloadIsCutThrough
<1> QED
  BY <1>5, <1>6, <1>7

\* The beat written now is the one for the byte that arrives.
LEMMA BeatWritten ==
  ASSUME ControlInv, FrameFollowed, NEW in \in Input, NextByte(in), Writes(in),
         open' = IF in.tlast THEN 1 ELSE 0, NEW n, n = pos - 41
  PROVE  BufferBeat(in) = BeatAt(n)'
<1>1. state \in PayloadStates
  BY DEF Writes, buffer_s_valid, PayloadStates
<1>2. /\ pos \in Nat /\ pos' = pos + 1 /\ pos >= 42 /\ ~HeaderFails(frame, pos) /\ frame' = frame
      /\ payload_left = Declared(frame) - (pos - 42) /\ payload_left # 0
      /\ in.tlast \in BOOLEAN /\ in.tdata = Model!At(frame', pos)
      /\ payload_one \in BOOLEAN /\ payload_many \in BOOLEAN
      /\ Arrived(frame, pos) = pos - 42
  BY <1>1, PayloadBegun DEF FrameFollowed, PayloadFollowsFrame, NextByte, ControlInv,
     PayloadExpected, TypeOK, FilterTypeOK
<1>3. Declared(frame) \in Int /\ Arrived(frame, pos) <= Declared(frame)
  BY <1>2, PayloadArrives DEF NextByte
<1>4. (payload_one <=> payload_left = 1) /\ (payload_many <=> payload_left > 1)
  BY Zenon DEF ControlInv, FlagsMatchCount
<1> DEFINE cut == open' = 1 /\ pos' = 42 + n
           final == n = Declared(frame')
<1>5. (cut <=> in.tlast) /\ (final <=> payload_left = 1) /\ (~final <=> payload_left > 1)
  BY <1>2, <1>3
<1>6. Model!At(frame', 41 + n) = in.tdata
  <2>1. 41 + n = pos
    BY <1>2
  <2> QED
    BY <1>2, <2>1, Zenon
<1>7. BeatAt(n)' = [data |-> Model!At(frame', 41 + n), last |-> final \/ cut, error |-> cut /\ ~final]
  BY Zenon DEF BeatAt
<1> HIDE DEF cut, final
<1>8. (payload_one \/ in.tlast <=> final \/ cut) /\ (in.tlast /\ payload_many <=> cut /\ ~final)
  BY <1>4, <1>5, Zenon
<1>9. (payload_one \/ in.tlast) = (final \/ cut) /\ (in.tlast /\ payload_many) = (cut /\ ~final)
  BY <1>8, Zenon
<1> QED
  BY <1>6, <1>7, <1>9, Zenon DEF BufferBeat

\* Neither the next byte nor a pause changes what a beat before it should be.
LEMMA BeatKept ==
  ASSUME NEW n \in Nat, pos \in Nat,
         \/ frame' = frame /\ pos' = pos + 1 /\ open = 0 /\ n <= pos - 42
         \/ UNCHANGED <<frame, pos, open>>
  PROVE  BeatAt(n)' = BeatAt(n)
<1>1. CASE UNCHANGED <<frame, pos, open>>
  BY <1>1 DEF BeatAt
<1>2. CASE frame' = frame /\ pos' = pos + 1 /\ open = 0 /\ n <= pos - 42
  <2>1. pos' # 42 + n /\ open # 1
    BY <1>2
  <2>2. (open' = 1 /\ pos' = 42 + n) = (open = 1 /\ pos = 42 + n)
    BY <2>1, Zenon
  <2> QED
    BY <1>2, <2>2, Zenon DEF BeatAt
<1> QED
  BY <1>1, <1>2

\* What is sent and what is held is what the reference model forwards so far.
LEMMA PassedOn ==
  ASSUME ControlInv, PayloadIsCutThrough
  PROVE  sent + Held = IF pos = 0 THEN 0 ELSE Forwarded(frame, pos, cfg0)
<1>1. Len(Buffered) = Held /\ (~out_valid_q => Held = 0) /\ sent \in Nat /\ pos \in Nat
  BY BufferedLength DEF ControlInv, TypeOK
<1>2. pos = 0 => ~out_valid_q /\ sent = 0
  BY DEF ControlInv, StateFollowsFrame, BufferFollowsState, NothingSentYet
<1> QED
  BY <1>1, <1>2, ModelForwards DEF PayloadIsCutThrough

\* So an edge leaves what every beat passed on should be.
LEMMA BeatsKept ==
  ASSUME ControlInv, SequenceFollowsFrames, PayloadIsCutThrough,
         NEW source \in Streams, NEW in \in Input, Step(source, in), source \in Sources,
         ~ResultHandshake(in), NEW n \in Nat, n > 0, n <= sent + Held
  PROVE  BeatAt(n)' = BeatAt(n)
<1>1. pos \in Nat /\ sent + Held = IF pos = 0 THEN 0 ELSE Forwarded(frame, pos, cfg0)
  BY PassedOn DEF ControlInv, TypeOK
<1>2. CASE input_handshake(in)
  <2>1. NextByte(in) /\ open = 0
    BY <1>2, ByteIsNext, ByteArrives
  <2>2. pos # 0 /\ n <= Forwarded(frame, pos, cfg0)
    BY <1>1
  <2>3. pos >= 42 /\ ~HeaderFails(frame, pos) /\ n <= Arrived(frame, pos)
    BY <1>1, <2>2 DEF Forwarded
  <2>4. frame' = frame /\ pos' = pos + 1 /\ Model!U16(frame, 38) \in Int
    BY <2>1, <2>3 DEF NextByte
  <2>5. Arrived(frame, pos) \in Int /\ Arrived(frame, pos) <= pos - 42
    BY <1>1, <2>3, <2>4, PayloadArrives
  <2> QED
    BY <1>1, <2>1, <2>3, <2>4, <2>5, BeatKept
<1>3. CASE ~input_handshake(in)
  BY <1>1, <1>3, NoByteArrives, BeatKept
<1> QED
  BY <1>2, <1>3

\* The beats in the buffer are the ones for their bytes.
LEMMA BeatsFollowFrameStep ==
  ASSUME ControlInv, ControlInv', SequenceFollowsFrames, FrameFollowed, PayloadIsCutThrough,
         BeatsFollowFrame, NEW source \in Streams, NEW in \in Input, Step(source, in),
         source \in Sources
  PROVE  BeatsFollowFrame'
<1>1. CASE ResultHandshake(in)
  <2>1. pos' = 0
    BY <1>1 DEF Step, Follow
  <2>2. ~out_valid_q' /\ ~skid_valid_q'
    BY <2>1 DEF ControlInv, StateFollowsFrame, BufferFollowsState
  <2> QED
    BY <2>2 DEF BeatsFollowFrame
<1>2. CASE ~ResultHandshake(in)
  <2>1. /\ Len(Buffered) = Held /\ (~out_valid_q => Held = 0)
        /\ skid_valid_q \in BOOLEAN /\ out_valid_q \in BOOLEAN /\ in.m_ready \in BOOLEAN
        /\ skid_valid_q => out_valid_q
        /\ BufferFollowsState /\ output_buffer!BufferTypeOK
        /\ sent \in Nat /\ pos \in Nat
    BY BufferedLength
    DEF ControlInv, TypeOK, FilterTypeOK, output_buffer!BufferTypeOK, BufferFollowsState, Input
  <2>2. Held = (IF out_valid_q THEN 1 ELSE 0) + (IF skid_valid_q THEN 1 ELSE 0)
    BY DEF Held
  <2>3. sent + Held = IF pos = 0 THEN 0 ELSE Forwarded(frame, pos, cfg0)
    BY PassedOn
  <2>4. ASSUME NEW n \in Nat, n > sent, n <= sent + Held
        PROVE  BeatAt(n)' = BeatAt(n)
    BY <1>2, <2>1, <2>4, BeatsKept
  <2>5. ASSUME NEW n, n = sent + Held + 1, Writes(in)
        PROVE  BufferBeat(in) = BeatAt(n)'
    <3>1. input_handshake(in) /\ state \in PayloadStates
      BY <2>5 DEF Writes, buffer_s_valid, input_handshake, s_axis_tready, PayloadStates
    <3>2. NextByte(in) /\ open' = IF in.tlast THEN 1 ELSE 0
      BY <3>1, ByteIsNext, ByteArrives
    <3>3. Forwarded(frame', pos', cfg0') = sent + Held + 1
      BY <2>3, <2>5, <3>1, <3>2, ForwardedStep
    <3>4. Arrived(frame', pos') = pos' - 42 /\ pos' = pos + 1
      BY <3>1, <3>2, PayloadBegun DEF FrameFollowed, NextByte
    <3>5. n = pos - 41
      BY <2>1, <2>2, <2>5, <3>3, <3>4 DEF Forwarded
    <3> QED
      BY <2>5, <3>2, <3>5, BeatWritten
  <2>6. sent' = IF out_valid_q /\ in.m_ready THEN sent + 1 ELSE sent
    BY <1>2 DEF Step, Follow, OutputHandshake, output_buffer!m_valid
  <2>7. output_buffer!drained(in.m_ready) <=> ~skid_valid_q /\ (~out_valid_q \/ in.m_ready)
    BY DEF output_buffer!drained, output_buffer!out_free
  <2>8. output_buffer!Edge(buffer_s_valid(in), BufferBeat(in), in.m_ready)
    BY DEF Step, Clock
  <2>9. /\ out_valid_q => out_q = BeatAt(sent + 1)
        /\ skid_valid_q => skid_q = BeatAt(sent + 2)
    BY DEF BeatsFollowFrame
  <2> DEFINE isBeat(beat, k) == \E n : n = k /\ beat = BeatAt(n)'
  <2>10. out_valid_q => isBeat(out_q, sent + 1)
    BY <2>1, <2>2, <2>4, <2>9
  <2>11. skid_valid_q => isBeat(skid_q, sent + 2)
    BY <2>1, <2>2, <2>4, <2>9
  <2>12. Writes(in) => isBeat(BufferBeat(in), sent + Held + 1)
    BY <2>5
  <2> HIDE DEF isBeat
  <2>13. \/ /\ ~Writes(in) /\ skid_valid_q /\ out_valid_q /\ in.m_ready
            /\ out_q' = skid_q /\ ~skid_valid_q'
         \/ /\ Writes(in) /\ ~skid_valid_q /\ (~out_valid_q \/ in.m_ready)
            /\ out_q' = BufferBeat(in) /\ ~skid_valid_q'
         \/ ~out_valid_q' /\ ~skid_valid_q'
         \/ /\ Writes(in) /\ out_valid_q /\ ~in.m_ready /\ ~skid_valid_q
            /\ skid_q' = BufferBeat(in) /\ out_q' = out_q
         \/ /\ ~Writes(in) /\ out_valid_q /\ ~in.m_ready /\ skid_valid_q' = skid_valid_q
            /\ out_q' = out_q /\ skid_q' = skid_q
    BY <2>1, <2>7, <2>8, BufferEdges DEF Writes, output_buffer!s_ready
  <2>14. \/ out_q' = skid_q /\ sent' + 1 = sent + 2 /\ skid_valid_q /\ ~skid_valid_q'
         \/ out_q' = BufferBeat(in) /\ sent' + 1 = sent + Held + 1 /\ Writes(in) /\ ~skid_valid_q'
         \/ ~out_valid_q' /\ ~skid_valid_q'
         \/ /\ out_q' = out_q /\ out_valid_q /\ sent' + 1 = sent + 1
            /\ skid_q' = BufferBeat(in) /\ sent' + 2 = sent + Held + 1 /\ Writes(in)
         \/ /\ out_q' = out_q /\ out_valid_q /\ sent' + 1 = sent + 1
            /\ skid_q' = skid_q /\ skid_valid_q' = skid_valid_q /\ sent' + 2 = sent + 2
    BY <2>1, <2>2, <2>6, <2>13
  <2>15. /\ out_valid_q' => isBeat(out_q', sent' + 1)
         /\ skid_valid_q' => isBeat(skid_q', sent' + 2)
    <3>1. CASE out_q' = skid_q /\ sent' + 1 = sent + 2 /\ skid_valid_q /\ ~skid_valid_q'
      BY <2>11, <3>1, Zenon
    <3>2. CASE /\ out_q' = BufferBeat(in) /\ sent' + 1 = sent + Held + 1 /\ Writes(in)
               /\ ~skid_valid_q'
      BY <2>12, <3>2, Zenon
    <3>3. CASE /\ out_q' = out_q /\ out_valid_q /\ sent' + 1 = sent + 1
               /\ skid_q' = BufferBeat(in) /\ sent' + 2 = sent + Held + 1 /\ Writes(in)
      BY <2>10, <2>12, <3>3, Zenon
    <3>4. CASE /\ out_q' = out_q /\ out_valid_q /\ sent' + 1 = sent + 1
               /\ skid_q' = skid_q /\ skid_valid_q' = skid_valid_q /\ sent' + 2 = sent + 2
      BY <2>10, <2>11, <3>4, Zenon
    <3> QED
      BY <2>14, <3>1, <3>2, <3>3, <3>4, Zenon
  <2>16. /\ out_valid_q' => out_q' = BeatAt(sent + 1)'
         /\ skid_valid_q' => skid_q' = BeatAt(sent + 2)'
    BY <2>15 DEF isBeat, BeatAt
  <2> QED
    BY <2>16 DEF BeatsFollowFrame
<1> QED
  BY <1>1, <1>2

-----------------------------------------------------------------------------
(* The invariant and what follows from it.                                 *)

\* Where no frame is in progress the registers say nothing of one.
LEMMA NothingToFollow ==
  ASSUME pos = 0, state = "IDLE", started = 0, sequence_counter = 0,
         out_valid_q = FALSE, skid_valid_q = FALSE
  PROVE  DataInv
<1>1. 0 % SEQUENCE_MODULUS = 0
  BY SequenceAssumption
<1> QED
  BY <1>1
  DEF DataInv, SequenceFollowsFrames, HeaderFollowsFrame, PayloadFollowsFrame, DrainFollowsFrame,
      ResultFollowsFrame, PayloadIsCutThrough, BeatsFollowFrame, HeaderStates, PayloadStates,
      ClosedStates

\* DataInv holds at power-up,
LEMMA DataInit == Init => DataInv
BY NothingToFollow DEF Init, FilterInit, output_buffer!BufferInit

\* after a reset at any point,
LEMMA DataReset ==
  ASSUME Reset
  PROVE  DataInv'
<1>1. /\ pos' = 0 /\ state' = "IDLE" /\ started' = 0 /\ sequence_counter' = 0
      /\ out_valid_q' = FALSE /\ skid_valid_q' = FALSE
  BY DEF Reset, ResetEdge, output_buffer!ClearEdge
<1>2. 0 % SEQUENCE_MODULUS = 0
  BY SequenceAssumption
<1> QED
  BY <1>1, <1>2
  DEF DataInv, SequenceFollowsFrames, HeaderFollowsFrame, PayloadFollowsFrame, DrainFollowsFrame,
      ResultFollowsFrame, PayloadIsCutThrough, BeatsFollowFrame, HeaderStates, PayloadStates,
      ClosedStates

\* after every other edge,
LEMMA DataTick ==
  ASSUME IInv, ControlInv', Tick
  PROVE  DataInv'
<1>1. PICK source \in Streams, in \in Input : Step(source, in) /\ source \in Sources
  BY TickIsStep DEF IInv
<1>2. SequenceFollowsFrames /\ FrameFollowed /\ PayloadIsCutThrough /\ BeatsFollowFrame
  BY DEF IInv, DataInv, FrameFollowed
<1>3. SequenceFollowsFrames'
  BY <1>1, <1>2, SequenceStep DEF IInv
<1>4. FrameFollowed'
  BY <1>1, <1>2, FrameFollowedStep DEF IInv
<1>5. PayloadIsCutThrough' /\ BeatsFollowFrame'
  BY <1>1, <1>2, PayloadIsCutThroughStep, BeatsFollowFrameStep DEF IInv
<1> QED
  BY <1>3, <1>4, <1>5 DEF DataInv, FrameFollowed

\* and while nothing changes.
LEMMA DataStutter ==
  ASSUME DataInv, UNCHANGED vars
  PROVE  DataInv'
<1>1. /\ UNCHANGED parserVars /\ UNCHANGED <<out_q, skid_q, out_valid_q, skid_valid_q>>
      /\ UNCHANGED <<frame, pos, cfg0, open, sent, ended, started>>
  BY DEF vars, filterVars, ghostVars, output_buffer!bufferVars
<1>2. FrameFollowed'
  BY <1>1, WaitingFollows DEF DataInv, FrameFollowed
<1>3. SequenceFollowsFrames'
  BY <1>1 DEF DataInv, SequenceFollowsFrames, parserVars
<1>4. PayloadIsCutThrough'
  BY <1>1 DEF DataInv, PayloadIsCutThrough, Buffered, output_buffer!Contents, Expected
<1>5. BeatsFollowFrame'
  BY <1>1 DEF DataInv, BeatsFollowFrame, BeatAt
<1> QED
  BY <1>2, <1>3, <1>4, <1>5 DEF DataInv, FrameFollowed

\* The whole inductive invariant holds of every behaviour.
THEOREM InvariantHolds == Spec => []IInv
<1>1. Init => IInv
  BY InvariantInit, DataInit DEF IInv
<1>2. IInv /\ [Next]_vars => IInv'
  <2>1. IInv /\ Reset => IInv'
    BY InvariantReset, DataReset DEF IInv
  <2>2. IInv /\ Tick => IInv'
    <3> SUFFICES ASSUME IInv, Tick PROVE IInv'
      OBVIOUS
    <3>1. ControlInv'
      BY InvariantTick DEF IInv
    <3> QED
      BY <3>1, DataTick DEF IInv
  <2>3. IInv /\ UNCHANGED vars => IInv'
    BY InvariantStutter, DataStutter DEF IInv
  <2> QED
    BY <2>1, <2>2, <2>3 DEF Next
<1> QED
  BY <1>1, <1>2, PTL DEF Spec

\* The record on the port is the one that sim/reference_model.py computes from
\* the whole frame and the configuration that came with its first byte, for
\* frames of every length that end on any byte, one after the other.
THEOREM RecordsMatchReference == Spec => []RecordMatchesReference
<1>1. IInv => RecordMatchesReference
  BY DEF IInv, ControlInv, DataInv, StateFollowsFrame, ResultFollowsFrame, RecordMatchesReference
<1> QED
  BY <1>1, InvariantHolds, PTL

\* At every moment as much payload has been passed on as the reference model
\* forwards of the bytes received so far (cut-through, spec.md:123-134).
THEOREM PayloadsCutThrough == Spec => []PayloadIsCutThrough
<1>1. IInv => PayloadIsCutThrough
  BY DEF IInv, DataInv
<1> QED
  BY <1>1, InvariantHolds, PTL

\* While payload is buffered the record to come has the declared length.
LEMMA DeclaredLength ==
  ASSUME IInv, out_valid_q
  PROVE  Expected.record.payload_len = Declared(frame)
<1>1. pos \in Nat /\ pos > 0 /\ frame \in Streams /\ pos <= Len(frame) /\ sent \in Nat
  BY DEF IInv, ControlInv, TypeOK, StateFollowsFrame, BufferFollowsState
<1>2. Len(Buffered) = Held /\ Held > 0
  <2>1. out_valid_q \in BOOLEAN /\ skid_valid_q \in BOOLEAN
    BY DEF IInv, ControlInv, TypeOK, FilterTypeOK, output_buffer!BufferTypeOK
  <2> QED
    BY <2>1, BufferedLength DEF IInv, Held
<1>3. Forwarded(frame, pos, cfg0) = sent + Held
  BY <1>1, <1>2, ModelForwards DEF IInv, DataInv, PayloadIsCutThrough
<1>4. pos >= 42 /\ ~HeaderFails(frame, pos)
  BY <1>1, <1>2, <1>3, BufferedLength DEF Forwarded, IInv
<1>5. Model!U16(frame, 16) \in Int /\ Model!U16(frame, 38) \in Int
  BY <1>1, <1>4, FieldsReached
<1>6. Gives(frame, pos, cfg0, started - 1, GoodReason(frame, pos, cfg0),
            GoodMetadata(frame, pos), Forwarded(frame, pos, cfg0))
  BY <1>1, <1>4, <1>5, GoodFrame
<1>7. MetadataOf(Expected.record) = MetadataOf(GoodMetadata(frame, pos))
  BY <1>6, RecordMetadata DEF Gives, Expected
<1>8. GoodMetadata(frame, pos).payload_len = Declared(frame)
  BY DEF GoodMetadata, Model!Metadata
<1> QED
  BY <1>7, <1>8 DEF MetadataOf

\* Every beat in the buffer carries the payload byte of its place, ends the
\* payload where the frame declares its end or breaks off, and marks only the
\* latter as an error.
THEOREM BeatsMatch == Spec => []BeatsMatchReference
<1>1. ASSUME IInv
      PROVE  BeatsMatchReference
  <2>1. /\ skid_valid_q \in BOOLEAN /\ out_valid_q \in BOOLEAN
        /\ skid_valid_q => out_valid_q
        /\ sent \in Nat
    BY <1>1
    DEF IInv, ControlInv, TypeOK, FilterTypeOK, output_buffer!BufferTypeOK, BufferFollowsState
  <2>2. Len(Buffered) = Held
    BY <1>1, BufferedLength DEF IInv
  <2>3. SUFFICES ASSUME NEW k \in 1 .. Len(Buffered), NEW n, n = sent + k
                 PROVE  LET cut == open = 1 /\ pos = Model!PAYLOAD_OFFSET + n
                            final == n = Expected.record.payload_len
                        IN Buffered[k] = [data  |-> Model!At(frame, Model!PAYLOAD_OFFSET + n - 1),
                                          last  |-> final \/ cut,
                                          error |-> cut /\ ~final]
    BY Zenon DEF BeatsMatchReference
  <2>4. out_valid_q /\ (k = 1 \/ (k = 2 /\ skid_valid_q))
    BY <2>1, <2>2 DEF Held
  <2>5. Buffered[1] = out_q /\ (skid_valid_q => Buffered[2] = skid_q)
    BY <2>1, <2>4 DEF Buffered, output_buffer!Contents
  <2>6. Buffered[k] = BeatAt(n)
    BY <1>1, <2>3, <2>4, <2>5 DEF IInv, DataInv, BeatsFollowFrame
  <2>7. Expected.record.payload_len = Declared(frame)
    BY <1>1, <2>4, DeclaredLength
  <2>8. Model!PAYLOAD_OFFSET = 42 /\ 42 + n - 1 = 41 + n
    BY <2>1, <2>3, SameReasons
  <2> QED
    BY <2>6, <2>7, <2>8, Zenon DEF BeatAt
<1> QED
  BY <1>1, InvariantHolds, PTL

-----------------------------------------------------------------------------
(* The timing of the payload and of the gap between frames, with consumers *)
(* that are always ready.                                                  *)

\* FilterRate only adds a ghost, so everything proved of Spec holds there.
LEMMA RateImplementsSpec == RateSpec => Spec
<1>1. RateInit => Init
  BY DEF RateInit
<1>2. [RateNext]_rateVars => [Next]_vars
  BY DEF RateNext, rateVars, Next
<1> QED
  BY <1>1, <1>2, PTL DEF RateSpec, Spec

\* What the closed states say of the cycles since the last byte, with a payload
\* consumer that is always ready: the skid register stays empty, and only the
\* beat of a forwarded last byte delays the record, by one cycle.
RateInv ==
  /\ ~skid_valid_q
  /\ state = "WAIT_OUTPUT" => unready = 0 /\ LastByteForwarded
  /\ state = "RESULT_HOLD" => unready = IF LastByteForwarded THEN 1 ELSE 0

\* With nothing in the skid register the input is closed between frames only.
LEMMA OpenInput ==
  ASSUME state \in States, ~skid_valid_q
  PROVE  s_axis_tready <=> state \notin ClosedStates
BY DEF States, ClosedStates, s_axis_tready, output_buffer!s_ready

\* A beat leaves as soon as it is there, so the next one finds its register free.
LEMMA OutputReady ==
  ASSUME IInv, ~skid_valid_q, NEW source, NEW in \in Input, Step(source, in), in.m_ready
  PROVE  ~skid_valid_q' /\ (out_valid_q' <=> Writes(in)) /\ output_buffer!drained(in.m_ready)
<1>1. BufferFollowsState /\ output_buffer!BufferTypeOK /\ out_valid_q' \in BOOLEAN
  <2>1. BufferFollowsState /\ output_buffer!BufferTypeOK
    BY DEF IInv, ControlInv, TypeOK, FilterTypeOK
  <2>2. out_valid_q' \in BOOLEAN
    <3>1. output_buffer!Edge(buffer_s_valid(in), BufferBeat(in), in.m_ready)
      BY DEF Step, Clock
    <3>2. out_valid_q \in BOOLEAN /\ buffer_s_valid(in) \in BOOLEAN
      BY DEF IInv, ControlInv, TypeOK, FilterTypeOK, output_buffer!BufferTypeOK,
             buffer_s_valid, Input
    <3> QED
      BY <3>1, <3>2
      DEF output_buffer!Edge, output_buffer!RefillFromSkid, output_buffer!PassThrough,
          output_buffer!Skid, output_buffer!Stall, output_buffer!bufferVars
  <2> QED
    BY <2>1, <2>2
<1>2. output_buffer!drained(in.m_ready)
  BY DEF output_buffer!drained, output_buffer!out_free
<1>3. output_buffer!Edge(buffer_s_valid(in), BufferBeat(in), in.m_ready)
  BY DEF Step, Clock
<1> QED
  BY <1>1, <1>2, <1>3, BufferEdges
\* What the reference model forwards came with the bytes after the header.
LEMMA ForwardedBound ==
  ASSUME NEW f, NEW n \in Nat, NEW cfg, n >= 40 => Model!U16(f, 38) \in Int
  PROVE  /\ Forwarded(f, n, cfg) \in Nat
         /\ Forwarded(f, n, cfg) > 0 => Forwarded(f, n, cfg) <= n - 42
<1>1. CASE n >= 42 /\ ~HeaderFails(f, n) /\ Wanted(f, cfg)
  <2>1. Forwarded(f, n, cfg) = Arrived(f, n)
    BY <1>1 DEF Forwarded
  <2>2. Arrived(f, n) \in Int /\ Arrived(f, n) >= 0 /\ Arrived(f, n) <= n - 42
    BY <1>1, PayloadArrives
  <2> QED
    BY <2>1, <2>2
<1>2. CASE ~(n >= 42 /\ ~HeaderFails(f, n) /\ Wanted(f, cfg))
  <2>1. Forwarded(f, n, cfg) = 0
    BY <1>2 DEF Forwarded
  <2> QED
    BY <2>1
<1> QED
  BY <1>1, <1>2

\* The byte just accepted is the last one forwarded exactly if it was written.
LEMMA LastByteStep ==
  ASSUME IInv, IInv', NEW source \in Streams, NEW in \in Input, Step(source, in),
         source \in Sources, input_handshake(in)
  PROVE  LastByteForwarded' <=> Writes(in)
<1>1. NextByte(in) /\ FrameFollowed
  BY ByteIsNext DEF IInv, DataInv, FrameFollowed
<1>2. pos \in Nat /\ pos' = pos + 1 /\ pos' \in Nat /\ pos' > 0
  BY <1>1 DEF NextByte
<1>3. Expected'.forwarded = Forwarded(frame', pos', cfg0')
  <2>1. (ControlInv /\ pos > 0 => Expected.forwarded = Forwarded(frame, pos, cfg0))'
    BY ModelForwards, PTL
  <2> QED
    BY <1>2, <2>1 DEF IInv
<1>4. Forwarded(frame', pos', cfg0') =
        (IF pos = 0 THEN 0 ELSE Forwarded(frame, pos, cfg0)) + (IF Writes(in) THEN 1 ELSE 0)
  BY <1>1, ForwardedStep DEF IInv
<1>5. pos > 0 => frame' = frame /\ cfg0' = cfg0
  BY <1>1 DEF NextByte
<1>6. LastByteForwarded' <=>
        Expected'.forwarded > 0 /\ pos' = 42 + Expected'.forwarded
  BY SameReasons DEF LastByteForwarded, Model!PAYLOAD_OFFSET
<1>7. pos > 0 => /\ Forwarded(frame, pos, cfg0) \in Nat
                 /\ Forwarded(frame, pos, cfg0) > 0 => Forwarded(frame, pos, cfg0) <= pos - 42
  <2>1. pos' >= 40 => Model!U16(frame', 38) \in Int
    BY <1>1 DEF NextByte
  <2>2. pos > 0 => (pos >= 40 => Model!U16(frame, 38) \in Int)
    BY <1>2, <1>5, <2>1
  <2> QED
    BY <1>2, <2>2, ForwardedBound
<1>8. CASE Writes(in)
  <2>1. state \in PayloadStates
    BY <1>8 DEF Writes, buffer_s_valid, PayloadStates
  <2>2. pos >= 42 /\ pos > 0 /\ Arrived(frame, pos') = pos' - 42
    BY <1>1, <2>1, PayloadBegun DEF IInv, FrameFollowed
  <2>3. Forwarded(frame', pos', cfg0') \in {0, Arrived(frame', pos')}
    BY DEF Forwarded
  <2>4. Forwarded(frame', pos', cfg0') > 0
    BY <1>2, <1>4, <1>7, <1>8, <2>2
  <2> QED
    BY <1>2, <1>3, <1>5, <1>6, <1>8, <2>2, <2>3, <2>4
<1>9. CASE ~Writes(in)
  BY <1>2, <1>3, <1>4, <1>6, <1>7, <1>9
<1> QED
  BY <1>8, <1>9

\* Consumers that are always ready keep what RateInv says.
LEMMA RateStep ==
  ASSUME OutReady = {TRUE}, ResultReady = {TRUE}, IInv, IInv', RateInv, RateNext
  PROVE  RateInv'
<1>1. CASE Reset /\ unready' = 0
  BY <1>1 DEF Reset, ResetEdge, output_buffer!ClearEdge, RateInv
<1>2. CASE Tick /\ unready' = IF s_axis_tready THEN 0 ELSE unready + 1
  <2>1. PICK source \in Streams, in \in Input :
               Step(source, in) /\ source \in Sources /\ in.m_ready /\ in.result_ready
    <3>1. \E source \in Streams, in \in Input :
            /\ Step(source, in) /\ source \in Sources /\ in.cfg \in Configs
            /\ in.m_ready \in OutReady /\ in.result_ready \in ResultReady
      BY <1>2, TickIsStep DEF IInv
    <3> QED
      BY <3>1
  <2>2. /\ ~skid_valid_q' /\ output_buffer!drained(in.m_ready)
        /\ Moves(in) /\ BufferMoves(in)
        /\ state \in States /\ state' \in States
    <3>1. Moves(in) /\ BufferMoves(in)
      BY <2>1, StepMoves, ParserMovesBuffer DEF IInv, Step, Clock
    <3> QED
      BY <2>1, <3>1, OutputReady DEF RateInv, IInv, ControlInv, TypeOK, FilterTypeOK
  <2>3. s_axis_tready <=> state \notin ClosedStates
    BY <2>2, OpenInput DEF RateInv
  <2>4. CASE input_handshake(in)
    <3>1. unready' = 0
      BY <1>2, <2>4 DEF input_handshake
    <3>2. LastByteForwarded' <=> Writes(in)
      BY <2>1, <2>4, LastByteStep
    <3>3. state' = "WAIT_OUTPUT" => Writes(in)
      BY <2>2, <2>4, NoInputWhenClosed DEF BufferMoves, Moves, States, HeaderStates, PayloadStates, ClosedStates
    <3>4. state' = "RESULT_HOLD" => ~Writes(in)
      BY <2>2 DEF BufferMoves
    <3> QED
      BY <2>2, <3>1, <3>2, <3>3, <3>4 DEF RateInv
  <2>5. CASE ~input_handshake(in)
    <3>1. CASE state \notin ClosedStates
      BY <2>2, <2>5, <3>1 DEF Moves, RateInv, ClosedStates
    <3>2. CASE state = "WAIT_OUTPUT"
      <4>1. state' = "RESULT_HOLD" /\ unready' = 1
        BY <1>2, <2>2, <2>3, <3>2 DEF Moves, RateInv, ClosedStates
      <4>2. LastByteForwarded' = LastByteForwarded
        <5>1. ~ResultHandshake(in)
          BY <3>2 DEF ResultHandshake, IInv, ControlInv, StateFollowsFrame
        <5>2. UNCHANGED <<frame, pos, cfg0, started>>
          BY <2>1, <2>5, <5>1, NoByteArrives DEF IInv
        <5> QED
          BY <5>2 DEF LastByteForwarded, Expected
      <4> QED
        BY <2>2, <3>2, <4>1, <4>2 DEF RateInv
    <3>3. CASE state = "RESULT_HOLD"
      <4>1. ResultHandshake(in)
        BY <2>1, <3>3 DEF ResultHandshake, IInv, ControlInv, StateFollowsFrame
      <4> QED
        BY <2>2, <3>3, <4>1 DEF Moves, RateInv
    <3> QED
      BY <3>1, <3>2, <3>3 DEF ClosedStates
  <2> QED
    BY <2>4, <2>5
<1> QED
  BY <1>1, <1>2 DEF RateNext

\* RateInv holds as long as both consumers are always ready.
LEMMA RateInvHolds ==
  ASSUME OutReady = {TRUE}, ResultReady = {TRUE}
  PROVE  RateSpec => [](IInv /\ RateInv)
<1>1. RateInit => RateInv
  BY DEF RateInit, Init, FilterInit, output_buffer!BufferInit, RateInv
<1>2. IInv /\ IInv' /\ RateInv /\ [RateNext]_rateVars => RateInv'
  <2>1. ASSUME RateInv, UNCHANGED rateVars
        PROVE  RateInv'
    BY <2>1
    DEF RateInv, rateVars, vars, filterVars, parserVars, ghostVars, LastByteForwarded, Expected
  <2>2. ASSUME IInv, IInv', RateInv, RateNext
        PROVE  RateInv'
    BY <2>2, RateStep
  <2> QED
    BY <2>1, <2>2
<1>3. RateSpec => []IInv
  BY RateImplementsSpec, InvariantHolds, PTL
<1> QED
  BY <1>1, <1>2, <1>3, PTL DEF RateSpec

\* With consumers that are always ready the input is never closed in the middle
\* of a frame (spec.md:204-205).
THEOREM NoStallWithinFrames ==
  ASSUME OutReady = {TRUE}, ResultReady = {TRUE}
  PROVE  RateSpec => []NoStallWithinFrame
<1>1. IInv /\ RateInv => NoStallWithinFrame
  BY OpenInput
  DEF IInv, ControlInv, TypeOK, FilterTypeOK, StateFollowsFrame, RateInv, NoStallWithinFrame
<1> QED
  BY <1>1, RateInvHolds, PTL

\* Then the gap between two frames is one cycle, and two after a frame whose
\* last byte was forwarded (spec.md:208-210).
THEOREM GapsBetweenFrames ==
  ASSUME OutReady = {TRUE}, ResultReady = {TRUE}
  PROVE  RateSpec => GapBetweenFrames
<1>1. ASSUME IInv, IInv', RateInv, RateInv', RateNext, ~s_axis_tready, s_axis_tready', ~Reset
      PROVE  unready + 1 = IF LastByteForwarded THEN 2 ELSE 1
  <2>1. state \in ClosedStates /\ state' \notin ClosedStates
    <3>1. state \in States /\ state' \in States
      BY <1>1 DEF IInv, ControlInv, TypeOK, FilterTypeOK
    <3>2. s_axis_tready <=> state \notin ClosedStates
      BY <1>1, <3>1, OpenInput DEF RateInv
    <3> QED
      BY <1>1, <3>2 DEF s_axis_tready, ClosedStates
  <2>2. PICK source \in Streams, in \in Input : Step(source, in)
    BY <1>1, TickIsStep DEF RateNext, IInv
  <2>3. state = "RESULT_HOLD"
    BY <1>1, <2>1, <2>2, StepMoves DEF Moves, ClosedStates, IInv
  <2> QED
    BY <1>1, <2>3 DEF RateInv
<1>2. IInv /\ IInv' /\ RateInv /\ RateInv' /\ [RateNext]_rateVars
        => [~s_axis_tready /\ s_axis_tready' =>
              Reset \/ unready + 1 = IF LastByteForwarded THEN 2 ELSE 1]_rateVars
  BY <1>1
<1> QED
  BY <1>2, RateInvHolds, PTL DEF RateSpec, GapBetweenFrames

\* Then a payload byte is on the output in the cycle after the one that accepts
\* it, behind all the payload before it (spec.md:206).
THEOREM PayloadsWaitOneCycle ==
  ASSUME OutReady = {TRUE}, ResultReady = {TRUE}
  PROVE  RateSpec => PayloadLatencyIsOne
<1>1. ASSUME IInv, IInv', RateInv, RateInv', RateNext, pos > 0, pos' = pos + 1,
             Expected'.forwarded > Expected.forwarded
      PROVE  out_valid_q' /\ sent' + 1 = Expected'.forwarded
  <2>1. pos \in Nat /\ pos' > 0 /\ sent \in Nat /\ sent' \in Nat
    BY <1>1 DEF IInv, ControlInv, TypeOK
  <2>2. ~Reset
    BY <2>1 DEF Reset
  <2>3. PICK source \in Streams, in \in Input : Step(source, in) /\ in.m_ready
    <3>1. \E source \in Streams, in \in Input :
            /\ Step(source, in) /\ source \in Sources /\ in.cfg \in Configs
            /\ in.m_ready \in OutReady /\ in.result_ready \in ResultReady
      BY <1>1, <2>2, TickIsStep DEF RateNext, IInv
    <3> QED
      BY <3>1
  <2>4. sent + Len(Buffered) = Expected.forwarded /\ sent' + Len(Buffered') = Expected'.forwarded
    BY <1>1, <2>1 DEF IInv, DataInv, PayloadIsCutThrough
  <2>5. Len(Buffered) = Held /\ Len(Buffered') = Held'
    <3>1. (ControlInv => Len(Buffered) = Held /\ Held \in 0 .. 2 /\ (~out_valid_q => Held = 0))'
      BY BufferedLength, PTL
    <3> QED
      BY <1>1, <3>1, BufferedLength DEF IInv
  <2>6. ~skid_valid_q /\ ~skid_valid_q' /\ out_valid_q \in BOOLEAN /\ out_valid_q' \in BOOLEAN
    BY <1>1 DEF RateInv, IInv, ControlInv, TypeOK, FilterTypeOK, output_buffer!BufferTypeOK
  <2>7. sent' = IF out_valid_q THEN sent + 1 ELSE sent
    <3>1. ~ResultHandshake(in)
      BY <2>1, <2>3 DEF Step, Follow
    <3> QED
      BY <2>3, <3>1 DEF Step, Follow, OutputHandshake, output_buffer!m_valid
  <2> QED
    BY <1>1, <2>1, <2>4, <2>5, <2>6, <2>7 DEF Held
<1>2. IInv /\ IInv' /\ RateInv /\ RateInv' /\ [RateNext]_rateVars
        => [pos > 0 /\ pos' = pos + 1 /\ Expected'.forwarded > Expected.forwarded
              => out_valid_q' /\ sent' + 1 = Expected'.forwarded]_rateVars
  BY <1>1
<1> QED
  BY <1>2, RateInvHolds, PTL DEF RateSpec, PayloadLatencyIsOne

-----------------------------------------------------------------------------
(* The testbench.                                                          *)

\* A run of the testbench is a behaviour of the filter in its environment.
LEMMA TestImplementsSpec == TestSpec => Spec
<1>1. TestInit => Init
  BY DEF TestInit
<1>2. [TestNext]_testVars => [Next]_vars
  <2>1. run_frame => Tick
    BY DEF run_frame, Tick
  <2> QED
    BY <2>1 DEF TestNext, reset_dut, Next, testVars
<1> QED
  BY <1>1, <1>2, PTL DEF TestSpec, Spec

\* The monitor's memory is right: the parser counters moved with a byte only,
\* what a consumer did not take is still there, and the beats taken are those
\* of the payload bytes sent.
MonitorInv ==
  /\ Counters # prior_counters => prior_input_handshake
  /\ prior_output_stall # Nothing => out_valid_q /\ <<out_q>> = prior_output_stall
  /\ prior_result_stall # Nothing => result_valid_q /\ <<result>> = prior_result_stall
  /\ output_beats \in Seq(output_buffer!Beat) /\ Len(output_beats) = sent
  /\ \A k \in 1 .. sent : output_beats[k] = BeatAt(k)

\* No check in the middle of a cycle fails.
LEMMA ChecksHold ==
  ASSUME IInv, MonitorInv, NEW tvalid, NEW result_ready
  PROVE  Checks(tvalid, result_ready)
<1>1. open = 1 => ~s_axis_tready
  BY DEF IInv, ControlInv, StateFollowsFrame, ClosedStates, s_axis_tready
<1>2. result_valid_q => ~out_valid_q /\ (result.accept <=> result.reason = REASON_ACCEPT)
  BY DEF IInv, ControlInv, StateFollowsFrame, BufferFollowsState, AcceptIsReason
<1> QED
  BY <1>1, <1>2 DEF Checks, MonitorInv

\* The last of the beats of a frame is marked as an error exactly if declared
\* payload is missing.
LEMMA TerminalError ==
  ASSUME NEW f, NEW n \in Nat, NEW cfg, NEW seq, n >= 40 => Model!U16(f, 38) \in Int,
         n >= 18 => Model!U16(f, 16) \in Int, Forwarded(f, n, cfg) > 0
  PROVE  Model!classify_frame(f, n, cfg, seq).terminal_error <=> n - 42 < Declared(f)
<1>1. n >= 42 /\ ~HeaderFails(f, n) /\ Wanted(f, cfg) /\ Arrived(f, n) > 0
  BY DEF Forwarded
<1>2. /\ Model!classify_frame(f, n, cfg, seq) = Model!ClassifyDatagram(f, n, cfg, seq)
      /\ Model!Available(f, n) = Arrived(f, n)
  BY <1>1, GoodHeaderPasses
<1>3. Model!PortMatches(f, cfg) /\ Model!MessageMatches(f, n, cfg)
  BY <1>1, <1>2, SameReasons DEF Wanted, Model!MessageMatches
<1>4. Arrived(f, n) < Declared(f) <=> n - 42 < Declared(f)
  BY <1>1 DEF Arrived, Declared
<1>5. Model!ClassifyDatagram(f, n, cfg, seq).terminal_error <=> Arrived(f, n) < Declared(f)
  BY <1>1, <1>2, <1>3 DEF Model!ClassifyDatagram, Model!Expect, Declared
<1> QED
  BY <1>2, <1>4, <1>5
\* The checks on a whole frame hold when its record is taken.
LEMMA FrameChecksHold ==
  ASSUME IInv, MonitorInv, result_valid_q
  PROVE  FrameChecks(output_beats)
<1>1. /\ state = "RESULT_HOLD" /\ open = 1 /\ ~out_valid_q
      /\ pos \in Nat /\ pos > 0 /\ sent \in Nat /\ frame \in Streams /\ pos <= Len(frame)
  BY DEF IInv, ControlInv, TypeOK, StateFollowsFrame, BufferFollowsState, ClosedStates
<1>2. result = Expected.record
  BY <1>1 DEF IInv, DataInv, ResultFollowsFrame
<1>3. Expected.forwarded = sent /\ Forwarded(frame, pos, cfg0) = sent
  <2>1. Held = 0 /\ Len(Buffered) = Held
    BY <1>1, BufferedLength DEF IInv
  <2>2. Expected.forwarded = sent
    BY <1>1, <2>1 DEF IInv, DataInv, PayloadIsCutThrough
  <2> QED
    BY <1>1, <2>2, ModelForwards DEF IInv
<1>4. DOMAIN output_beats = 1 .. sent /\ Len(output_beats) = sent
  BY DEF MonitorInv
<1>5. ASSUME NEW k \in 1 .. sent
      PROVE  /\ output_beats[k].data = Model!At(frame, 41 + k)
             /\ output_beats[k].last <=> k = Declared(frame) \/ pos = 42 + k
             /\ output_beats[k].error <=> pos = 42 + k /\ k # Declared(frame)
  <2>1. output_beats[k] = BeatAt(k)
    BY <1>5 DEF MonitorInv
  <2>2. \A beat, byte, last, error :
          beat = [data |-> byte, last |-> last, error |-> error]
            => beat.data = byte /\ beat.last = last /\ beat.error = error
    OBVIOUS
  <2>3. /\ BeatAt(k).data = Model!At(frame, 41 + k)
        /\ BeatAt(k).last = (k = Declared(frame) \/ (open = 1 /\ pos = 42 + k))
        /\ BeatAt(k).error = ((open = 1 /\ pos = 42 + k) /\ ~(k = Declared(frame)))
    BY <2>2, Zenon DEF BeatAt
  <2> QED
    BY <1>1, <2>1, <2>3, Zenon
<1>6. [k \in DOMAIN output_beats |-> output_beats[k].data] = expected_output
  <2>1. expected_output = [k \in 1 .. sent |-> frame[k + 42]]
    <3>1. \A f : SubSeq(f, 43, 42 + sent) = [k \in 1 .. sent |-> f[k + 42]]
      BY <1>1
    <3>2. Model!PAYLOAD_OFFSET + 1 = 43 /\ Model!PAYLOAD_OFFSET = 42
      BY SameReasons
    <3> QED
      BY <1>3, <3>1, <3>2, Zenon DEF expected_output
  <2>2. ASSUME NEW k \in 1 .. sent
        PROVE  output_beats[k].data = frame[k + 42]
    <3>1. output_beats[k].data = Model!At(frame, 41 + k)
      BY <1>5
    <3>2. 41 + k + 1 = k + 42
      BY <1>1
    <3> QED
      BY <3>1, <3>2 DEF Model!At
  <2> QED
    BY <1>4, <2>1, <2>2
<1>7. ASSUME NEW k \in 1 .. sent
      PROVE  /\ output_beats[k].last <=> k = sent
             /\ k = sent => (output_beats[k].error <=> Expected.terminal_error)
  <2>1. (pos >= 18 => Model!U16(frame, 16) \in Int) /\ (pos >= 40 => Model!U16(frame, 38) \in Int)
    BY <1>1, FieldsReached
  <2>2. /\ pos >= 42 /\ ~HeaderFails(frame, pos) /\ Arrived(frame, pos) = sent
    BY <1>1, <1>3, <1>7 DEF Forwarded
  <2>3. Declared(frame) \in Int
    BY <1>1, <2>1, <2>2, PayloadArrives
  <2>4. sent = IF pos - 42 < Declared(frame) THEN pos - 42 ELSE Declared(frame)
    BY <2>2 DEF Arrived
  <2>5. Expected.terminal_error <=> pos - 42 < Declared(frame)
    BY <1>1, <1>3, <1>7, <2>1, TerminalError DEF Expected
  <2>6. /\ output_beats[k].last <=> k = Declared(frame) \/ pos = 42 + k
        /\ output_beats[k].error <=> pos = 42 + k /\ k # Declared(frame)
    BY <1>5
  <2> QED
    BY <1>1, <2>3, <2>4, <2>5, <2>6
<1> QED
  BY <1>1, <1>2, <1>4, <1>6, <1>7 DEF FrameChecks

\* The monitor keeps its memory right.
LEMMA MonitorStep ==
  ASSUME IInv, IInv', MonitorInv, NEW source \in Streams, NEW in \in Input, Step(source, in),
         source \in Sources, Monitor(in.tvalid, in.m_ready, in.result_ready)
  PROVE  MonitorInv'
<1>1. CASE ResultHandshake(in)
  <2>1. StartMonitor
    BY <1>1 DEF Monitor, ResultHandshake
  <2>2. sent' = 0
    BY <1>1 DEF Step, Follow
  <2> QED
    BY <2>1, <2>2 DEF StartMonitor, MonitorInv
<1>2. CASE ~ResultHandshake(in)
  <2> DEFINE beats == IF out_valid_q /\ in.m_ready THEN Append(output_beats, out_q)
                                                   ELSE output_beats
  <2>1. Observe(in.tvalid, in.m_ready, in.result_ready, beats)
    BY <1>2 DEF Monitor, ResultHandshake
  <2>2. Counters' # prior_counters' => prior_input_handshake'
    <3>1. Parser(in)
      BY DEF Step, Clock
    <3>2. input_handshake(in) \/ UNCHANGED <<header_index, payload_left>>
      BY <3>1
      DEF Parser, Idle, EthHeader, Ipv4Header, UdpHeader, UdpBadLengths, UdpHeaderEnd,
          FirstPayload, PassPayload, Drain, WaitOutput, ResultHold, NoHandshake, payloadVars,
          parserVars
    <3> QED
      BY <2>1, <3>2 DEF Observe, Counters, input_handshake
  <2>3. prior_output_stall' # Nothing => out_valid_q' /\ <<out_q'>> = prior_output_stall'
    <3>1. out_valid_q /\ ~in.m_ready => out_valid_q' /\ out_q' = out_q
      BY BufferEdges
      DEF Step, Clock, IInv, ControlInv, TypeOK, FilterTypeOK, output_buffer!drained,
          output_buffer!out_free
    <3> QED
      BY <2>1, <3>1 DEF Observe
  <2>4. prior_result_stall' # Nothing => result_valid_q' /\ <<result'>> = prior_result_stall'
    <3>1. CASE result_valid_q
      <4>1. state = "RESULT_HOLD"
        BY <3>1 DEF IInv, ControlInv, StateFollowsFrame
      <4>2. ~input_handshake(in)
        BY <4>1, NoInputWhenClosed DEF ClosedStates
      <4>3. NoHandshake(in)
        BY <1>2, <4>1, <4>2
        DEF Step, Clock, Parser, Idle, EthHeader, Ipv4Header, UdpHeader, UdpBadLengths,
            UdpHeaderEnd, FirstPayload, PassPayload, Drain, WaitOutput, ResultHold
      <4>4. result_valid_q' /\ result' = result
        BY <3>1, <4>3 DEF NoHandshake, parserVars
      <4> QED
        BY <2>1, <4>4 DEF Observe
    <3>2. CASE ~result_valid_q
      BY <2>1, <3>2 DEF Observe
    <3> QED
      BY <3>1, <3>2
  <2>5. /\ output_beats' = beats /\ output_beats \in Seq(output_buffer!Beat)
        /\ Len(output_beats) = sent /\ sent \in Nat
        /\ out_q \in output_buffer!Beat
    BY <2>1
    DEF Observe, MonitorInv, IInv, ControlInv, TypeOK, FilterTypeOK, output_buffer!BufferTypeOK
  <2>6. sent' = IF out_valid_q /\ in.m_ready THEN sent + 1 ELSE sent
    BY <1>2 DEF Step, Follow, OutputHandshake, output_buffer!m_valid
  <2>7. ASSUME NEW n \in Nat, n > 0, n <= sent + Held
        PROVE  BeatAt(n)' = BeatAt(n)
    BY <1>2, <2>7, BeatsKept DEF IInv, DataInv
  <2>8. Held \in 0 .. 2 /\ (out_valid_q => Held > 0)
    <3>1. out_valid_q \in BOOLEAN /\ skid_valid_q \in BOOLEAN
      BY DEF IInv, ControlInv, TypeOK, FilterTypeOK, output_buffer!BufferTypeOK
    <3> QED
      BY <3>1 DEF Held
  <2>9. ASSUME NEW k \in 1 .. sent'
        PROVE  beats[k] = BeatAt(k)'
    <3>1. CASE k <= sent
      <4>1. BeatAt(k)' = BeatAt(k)
        BY <2>5, <2>6, <2>7, <2>8, <3>1
      <4>2. output_beats[k] = BeatAt(k)
        BY <2>5, <2>6, <3>1 DEF MonitorInv
      <4>3. beats[k] = output_beats[k]
        BY <2>5, <2>6, <3>1
      <4> QED
        BY <4>1, <4>2, <4>3
    <3>2. CASE k > sent
      <4>1. k = sent + 1 /\ out_valid_q /\ in.m_ready
        BY <2>5, <2>6, <3>2
      <4>2. out_q = BeatAt(k)
        BY <4>1 DEF IInv, DataInv, BeatsFollowFrame
      <4>3. BeatAt(k)' = BeatAt(k)
        BY <2>5, <2>7, <2>8, <4>1
      <4>4. beats[k] = out_q
        BY <2>5, <4>1
      <4> QED
        BY <4>2, <4>3, <4>4
    <3> QED
      BY <2>5, <2>6, <3>1, <3>2
  <2>10. output_beats' \in Seq(output_buffer!Beat) /\ Len(output_beats') = sent'
    BY <2>5, <2>6
  <2>11. \A k \in 1 .. sent' : output_beats'[k] = BeatAt(k)'
    BY <2>5, <2>9
  <2> QED
    BY <2>2, <2>3, <2>4, <2>10, <2>11, Zenon DEF MonitorInv
<1> QED
  BY <1>1, <1>2

\* A cycle of the testbench is a step of the filter that the monitor watches.
LEMMA RunIsStep ==
  ASSUME IInv, run_frame
  PROVE  \E source \in Streams, in \in Input :
           /\ Step(source, in) /\ source \in Sources
           /\ Monitor(in.tvalid, in.m_ready, in.result_ready)
<1>1. \A values, looked : LookedAt(values, looked) \subseteq values
  BY DEF LookedAt
<1>2. PICK tvalid \in BOOLEAN :
        LET taken == tvalid /\ s_axis_tready
        IN /\ tvalid /\ pos = 0 => started < FRAMES_PER_RESET
           /\ \E source \in LookedAt(Sources, taken),
                 tlast \in {b \in BOOLEAN : taken \/ b},
                 cfg \in LookedAt(Configs, taken /\ pos = 0),
                 m_ready \in LookedAt(OutReady, out_valid_q),
                 result_ready \in LookedAt(ResultReady, result_valid_q) :
                /\ Cycle(source, tvalid, tlast, cfg, m_ready, result_ready)
                /\ Monitor(tvalid, m_ready, result_ready)
  BY Zenon DEF run_frame
<1> DEFINE taken == tvalid /\ s_axis_tready
<1>3. PICK source \in LookedAt(Sources, taken), tlast \in {b \in BOOLEAN : taken \/ b},
           cfg \in LookedAt(Configs, taken /\ pos = 0),
           m_ready \in LookedAt(OutReady, out_valid_q),
           result_ready \in LookedAt(ResultReady, result_valid_q) :
             /\ Cycle(source, tvalid, tlast, cfg, m_ready, result_ready)
             /\ Monitor(tvalid, m_ready, result_ready)
  BY <1>2, Zenon
<1>4. /\ source \in Sources /\ cfg \in Configs
      /\ m_ready \in OutReady /\ result_ready \in ResultReady
  BY <1>1, <1>3, Zenon
<1>5. tlast \in BOOLEAN
  BY <1>3, Zenon
<1> DEFINE in == Driven(source, tvalid, tlast, cfg, m_ready, result_ready)
<1>6. source \in Streams /\ in \in Input /\ Step(source, in)
  BY <1>2, <1>3, <1>4, <1>5, CycleIsStep, Zenon DEF IInv
<1>7. in.tvalid = tvalid /\ in.m_ready = m_ready /\ in.result_ready = result_ready
  BY Zenon DEF Driven
<1> QED
  BY <1>3, <1>4, <1>6, <1>7, Zenon

\* No assertion of run_frame is violated by any frame, ended on any byte, with
\* any pauses and stalls, after any frames and resets before it.
THEOREM TestbenchPasses == TestSpec => []ChecksPass
<1>1. TestInit => MonitorInv /\ ~failed
  BY DEF TestInit, Init, FilterInit, MonitorInv, Counters
<1>2. IInv /\ IInv' /\ MonitorInv /\ ~failed /\ [TestNext]_testVars => MonitorInv' /\ ~failed'
  <2>1. ASSUME reset_dut, ~failed
        PROVE  MonitorInv' /\ ~failed'
    BY <2>1 DEF reset_dut, Reset, StartMonitor, MonitorInv
  <2>2. ASSUME IInv, IInv', MonitorInv, ~failed, run_frame
        PROVE  MonitorInv' /\ ~failed'
    <3>1. PICK source \in Streams, in \in Input :
            /\ Step(source, in) /\ source \in Sources
            /\ Monitor(in.tvalid, in.m_ready, in.result_ready)
      BY <2>2, RunIsStep
    <3>2. MonitorInv'
      BY <2>2, <3>1, MonitorStep
    <3>3. Checks(in.tvalid, in.result_ready)
      BY <2>2, ChecksHold
    <3>4. result_valid_q => ~out_valid_q /\ FrameChecks(output_beats)
      BY <2>2, FrameChecksHold DEF IInv, ControlInv, StateFollowsFrame, BufferFollowsState
    <3>5. ~failed'
      BY <2>2, <3>1, <3>3, <3>4 DEF Monitor
    <3> QED
      BY <3>2, <3>5
  <2>3. ASSUME MonitorInv, ~failed, UNCHANGED testVars
        PROVE  MonitorInv' /\ ~failed'
    BY <2>3
    DEF testVars, vars, monitorVars, filterVars, parserVars, ghostVars, payloadVars, MonitorInv,
        Counters, BeatAt
  <2> QED
    BY <2>1, <2>2, <2>3 DEF TestNext
<1>3. TestSpec => []IInv
  BY TestImplementsSpec, InvariantHolds, PTL
<1>4. MonitorInv /\ ~failed => ChecksPass
  BY DEF ChecksPass
<1> QED
  BY <1>1, <1>2, <1>3, <1>4, PTL DEF TestSpec
=============================================================================
