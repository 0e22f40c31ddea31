---------------------------- MODULE RandomCases ----------------------------
(***************************************************************************)
(* The generator of the randomized regression in sim/frames.py.  A random  *)
(* draw is a choice from a set, so random_case(category) is the set of all *)
(* cases the program may draw.  A case is the first "size" bytes of the    *)
(* sequence "frame".                                                       *)
(***************************************************************************)
EXTENDS TestFrames

CONSTANTS RandomFields,      \* PacketFields with the fields drawn freely
          RandomPayloads,    \* what _random_payload may return
          RandomPaddings,
          LongTotals         \* IPv4 lengths above the limit

CATEGORIES == {"accept", "non_ipv4", "bad_ipv4_header", "non_udp", "fragmented",
               "frame_too_long", "bad_length", "truncated", "port_mismatch",
               "msg_mismatch", "filter_reject_truncated"}

RandomCase(data, size, msg_enabled, truncation) ==
  [category |-> "", frame |-> data, size |-> size, msg_enabled |-> msg_enabled,
   truncation |-> truncation]
Whole(data, msg_enabled) == RandomCase(data, Len(data), msg_enabled, "none")

\* Fault: the first byte of the payload stays as it was drawn.
LeavesMessage(payload, message) == payload

with_message(payload, message) ==
  IF payload = << >> THEN << >> ELSE <<message>> \o Tail(payload)

\* A payload that passes the message filter if the filter is enabled.
Passing(msg_enabled, minimum) ==
  {IF msg_enabled THEN with_message(p, MSG) ELSE p :
     p \in {q \in RandomPayloads : Len(q) >= minimum}}

OtherMessages == {MSG - 1, 90}            \* MSG ^ 1, MSG ^ 0xFF
OtherPorts == {0, 4660, PORT - 1, 65535}  \* PORT ^ 1 is PORT - 1

\* The categories that change one field of an otherwise good frame.
Changed(fields) ==
  [non_ipv4 |-> {[fields EXCEPT !.ether_type = t] : t \in {34525, 2054, 33024}},
   bad_ipv4_header |-> {[fields EXCEPT !.version = v] : v \in {6, 0}}
                         \cup {[fields EXCEPT !.ihl = n] : n \in {4, 6, 15}},
   non_udp |-> {[fields EXCEPT !.protocol = p] : p \in {1, 6, 58}},
   fragmented |-> {[fields EXCEPT !.mf = 1]}
                    \cup {[fields EXCEPT !.fragment_offset = n] : n \in {1, 8191}},
   port_mismatch |-> {[fields EXCEPT !.dst_port = p] : p \in OtherPorts}]

BadLength(fields, payload, msg_enabled) ==
  LET udp_length == 8 + Len(payload)
  IN {Whole(FrameWithLengths(fields, payload, << >>, total, udp_length), msg_enabled) :
        total \in {20, 27} \cup {udp_length + 20 + n : n \in {1, 3}}}

\* Where a truncated frame ends, by region.
Ends(full) == [ethernet |-> {1, 13}, ipv4 |-> {14, 33}, udp |-> {34, 41},
               first_payload |-> {43}, later_payload |-> 44 .. Len(full) - 1]

Truncated(full, msg_enabled) ==
  UNION {{RandomCase(full, end, msg_enabled, region) : end \in Ends(full)[region]} :
           region \in {"ethernet", "ipv4", "udp", "first_payload", "later_payload"}}

AfterReject(full, msg_enabled) ==
  {RandomCase(full, end, msg_enabled, "after_filter_reject") : end \in 42 .. Len(full) - 1}

Drawn(category, fields, msg_enabled) ==
  CASE category = "accept" ->
         {Whole(build_frame(fields, p, padding), msg_enabled /\ p # << >>) :
            p \in Passing(msg_enabled, 0), padding \in RandomPaddings}
    [] category \in DOMAIN Changed(fields) ->
         {Whole(build_frame(bad, p, padding), msg_enabled) :
            bad \in Changed(fields)[category], p \in Passing(msg_enabled, 0),
            padding \in RandomPaddings}
    [] category = "frame_too_long" ->
         {Whole(FrameWithLengths(fields, << >>, << >>, total, total - 20), msg_enabled) :
            total \in LongTotals}
    [] category = "bad_length" ->
         UNION {BadLength(fields, p, msg_enabled) : p \in Passing(msg_enabled, 0)}
    [] category = "msg_mismatch" ->
         {Whole(build_frame(fields, with_message(p, message), padding), TRUE) :
            p \in RandomPayloads, message \in OtherMessages, padding \in RandomPaddings}
    [] category = "truncated" ->
         UNION {Truncated(build_frame(fields, p, << >>), msg_enabled) :
                  p \in Passing(msg_enabled, 3)}
    [] category = "filter_reject_truncated" ->
         UNION {AfterReject(build_frame([fields EXCEPT !.dst_port = 48656], p, << >>),
                            msg_enabled) : p \in Passing(msg_enabled, 3)}
         \cup UNION {AfterReject(build_frame(fields, with_message(p, 255), << >>), TRUE) :
                       p \in {q \in RandomPayloads : Len(q) >= 3}}

random_case(category) ==
  UNION {Drawn(category, fields, msg_enabled) :
           fields \in RandomFields, msg_enabled \in BOOLEAN}

RandomCases == UNION {{[c EXCEPT !.category = category] : c \in random_case(category)} :
                        category \in CATEGORIES}
RandomFrames == {c.frame : c \in RandomCases}
=============================================================================
