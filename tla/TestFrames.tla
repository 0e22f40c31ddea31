----------------------------- MODULE TestFrames -----------------------------
(***************************************************************************)
(* Frames for the runs: sim/packet_builder.py, frames from fields, whose   *)
(* lengths may be overridden to build frames that lie about them; and the  *)
(* directed cases of sim/frames.py, one for each way a frame can be good   *)
(* or bad, with payloads and padding of a few bytes.  The source may end   *)
(* each of them at any byte, which adds every truncated case.  Sized for   *)
(* MAX_LOGICAL_FRAME_BYTES = 48.                                           *)
(***************************************************************************)
EXTENDS Integers, Sequences

PacketFields ==
  [dst_mac |-> <<2, 0, 0, 0, 0, 1>>, src_mac |-> <<2, 0, 0, 0, 0, 2>>,
   ether_type |-> 2048, version |-> 4, ihl |-> 5, dscp_ecn |-> 0,
   identification |-> 4660, df |-> 0, mf |-> 0, fragment_offset |-> 0,
   ttl |-> 64, protocol |-> 17, ip_checksum |-> 0,
   src_ip |-> <<192, 0, 2, 1>>, dst_ip |-> <<198, 51, 100, 2>>,
   src_port |-> 4660, dst_port |-> 48879, udp_checksum |-> 0]

\* struct.pack of a 16-bit field, most significant byte first.
H(value) == <<value \div 256, value % 256>>

\* build_frame with both lengths given.
FrameWithLengths(fields, payload, padding, ip_total_length, udp_length) ==
  fields.dst_mac \o fields.src_mac \o H(fields.ether_type)
    \o <<(fields.version % 16) * 16 + (fields.ihl % 16), fields.dscp_ecn>>
    \o H(ip_total_length) \o H(fields.identification)
    \o H(fields.df * 16384 + fields.mf * 8192 + (fields.fragment_offset % 8192))
    \o <<fields.ttl, fields.protocol>> \o H(fields.ip_checksum)
    \o fields.src_ip \o fields.dst_ip
    \o H(fields.src_port) \o H(fields.dst_port)
    \o H(udp_length) \o H(fields.udp_checksum)
    \o payload \o padding

\* build_frame with the lengths computed from the payload.
build_frame(fields, payload, padding) ==
  FrameWithLengths(fields, payload, padding, 28 + Len(payload), 8 + Len(payload))

-----------------------------------------------------------------------------
PORT == 48879
MSG  == 165

With(fields) == build_frame(fields, <<MSG, 2, 3>>, << >>)
Lengths(payload, ip_total_length, udp_length) ==
  FrameWithLengths(PacketFields, payload, << >>, ip_total_length, udp_length)

Plain(payload, padding) == build_frame(PacketFields, payload, padding)
Elsewhere == [PacketFields EXCEPT !.dst_port = PORT + 1]

AcceptFrames == {
  Plain(<< >>, << >>), Plain(<< >>, <<9>>), Plain(<<MSG>>, << >>),
  Plain(<<MSG>>, <<9, 9>>), Plain(<<MSG, 2, 3>>, <<9>>),
  Plain(<<MSG, 2, 3, 4, 5, 6>>, << >>),
  With([PacketFields EXCEPT !.df = 1]) }

FilteredFrames == {
  Plain(<<0, MSG, 3>>, << >>), Plain(<<0>>, <<9>>),
  build_frame(Elsewhere, << >>, <<9>>), build_frame(Elsewhere, <<MSG, 2>>, <<9>>) }

MalformedFrames == {
  With([PacketFields EXCEPT !.ether_type = 2054]),
  With([PacketFields EXCEPT !.version = 6]),
  With([PacketFields EXCEPT !.ihl = 6]),
  With([PacketFields EXCEPT !.protocol = 6]),
  With([PacketFields EXCEPT !.mf = 1]),
  With([PacketFields EXCEPT !.fragment_offset = 256]),
  With([PacketFields EXCEPT !.protocol = 6, !.fragment_offset = 3]),
  Plain(<<MSG, 2, 3, 4, 5, 6, 7>>, << >>) }

BadLengthFrames == {
  Lengths(<< >>, 27, 7), Lengths(<< >>, 28, 7), Lengths(<<MSG>>, 29, 10),
  Lengths(<<MSG, 2>>, 30, 9), Lengths(<<MSG>>, 10, 65526) }

\* The cfg_* values: filter off, filter on, another message, another port.
Ports(dst_port, msg_type_enable, msg_type) ==
  [dst_port |-> dst_port, msg_type_enable |-> msg_type_enable, msg_type |-> msg_type]
FilterOff  == Ports(PORT, FALSE, MSG)
FilterOn   == Ports(PORT, TRUE, MSG)
OtherMsg   == Ports(PORT, TRUE, 0)
OtherPort  == Ports(4660, TRUE, MSG)
=============================================================================
