--------------------------- MODULE RtlTestbench ---------------------------
(***************************************************************************)
(* sim/rtl_testbench.py: the driver, monitor and scoreboard of run_frame   *)
(* around the filter.  FilterHarness is the driver: the test frame is what *)
(* the source has sent when it sends tlast, and its gaps, the stalls of    *)
(* both outputs and the changes of cfg_* in the middle of a frame are      *)
(* those of RunOptions and more.  This module adds the monitor, which      *)
(* looks at the ports and at two registers once per cycle, and the         *)
(* scoreboard, which compares the frame with the reference model.          *)
(***************************************************************************)
EXTENDS FilterHarness, RandomCases

VARIABLES prior_counters, prior_input_handshake,
          prior_output_stall,      \* the beat not taken in the last cycle
          prior_result_stall,      \* the record not taken in the last cycle
          output_beats,
          failed                   \* an assertion of run_frame was violated

monitorVars == <<prior_counters, prior_input_handshake, prior_output_stall,
                 prior_result_stall, output_beats>>
testVars == <<vars, monitorVars, failed>>

-----------------------------------------------------------------------------
(* The monitor in the middle of a cycle, and at the end of the frame. *)

Counters == <<header_index, payload_left>>
Nothing == << >>

Checks(tvalid, result_ready) ==
  /\ Counters # prior_counters => prior_input_handshake
  /\ prior_output_stall # Nothing => out_valid_q /\ <<out_q>> = prior_output_stall
  /\ prior_result_stall # Nothing => result_valid_q /\ <<result>> = prior_result_stall
  /\ open = 1 /\ ~(result_valid_q /\ result_ready) => ~(tvalid /\ s_axis_tready)
  /\ result_valid_q => ~out_valid_q /\ (result.accept <=> result.reason = REASON_ACCEPT)

expected_output == SubSeq(frame, Model!PAYLOAD_OFFSET + 1,
                          Model!PAYLOAD_OFFSET + Expected.forwarded)

\* What the program checks once it has the record.  One that comes before the
\* last byte of the frame is compared with the result for the whole frame.
FrameChecks(beats) ==
  /\ open = 1
  /\ [k \in DOMAIN beats |-> beats[k].data] = expected_output
  /\ \A k \in DOMAIN beats :
       /\ beats[k].last <=> k = Len(beats)
       /\ k = Len(beats) => (beats[k].error <=> Expected.terminal_error)
  /\ result = Expected.record

-----------------------------------------------------------------------------
(* The edge that follows. *)

\* run_frame begins, after reset or after the frame before.
StartMonitor ==
  /\ prior_counters' = Counters' /\ prior_input_handshake' = FALSE
  /\ prior_output_stall' = Nothing /\ prior_result_stall' = Nothing
  /\ output_beats' = << >>

Observe(tvalid, m_ready, result_ready, beats) ==
  /\ prior_counters' = Counters
  /\ prior_input_handshake' = (tvalid /\ s_axis_tready)
  /\ prior_output_stall' = IF out_valid_q /\ ~m_ready THEN <<out_q>> ELSE Nothing
  /\ prior_result_stall' = IF result_valid_q /\ ~result_ready THEN <<result>> ELSE Nothing
  /\ output_beats' = beats

Monitor(tvalid, m_ready, result_ready) ==
  LET beats == IF out_valid_q /\ m_ready THEN Append(output_beats, out_q)
                                         ELSE output_beats
      res_hs == result_valid_q /\ result_ready
  IN /\ failed' = (failed \/ ~Checks(tvalid, result_ready) \/ (res_hs /\ ~FrameChecks(beats)))
     /\ IF res_hs THEN StartMonitor ELSE Observe(tvalid, m_ready, result_ready, beats)

run_frame ==
  \E tvalid \in BOOLEAN :
    LET taken == tvalid /\ s_axis_tready
    IN /\ tvalid /\ pos = 0 => started < FRAMES_PER_RESET
       /\ \E source \in LookedAt(Sources, taken), tlast \in {b \in BOOLEAN : taken \/ b},
             cfg \in LookedAt(Configs, taken /\ pos = 0),
             m_ready \in LookedAt(OutReady, out_valid_q),
             result_ready \in LookedAt(ResultReady, result_valid_q) :
            /\ Cycle(source, tvalid, tlast, cfg, m_ready, result_ready)
            /\ Monitor(tvalid, m_ready, result_ready)

\* The reset tests: send_prefix has left the filter at any point of a frame,
\* or with its payload or its record stalled; then a clean frame follows.
reset_dut == Reset /\ StartMonitor /\ UNCHANGED failed

TestInit ==
  /\ Init
  /\ prior_counters = <<0, 0>> /\ prior_input_handshake = FALSE
  /\ prior_output_stall = Nothing /\ prior_result_stall = Nothing
  /\ output_beats = << >> /\ failed = FALSE

TestNext == reset_dut \/ run_frame

TestSpec == TestInit /\ [][TestNext]_testVars

-----------------------------------------------------------------------------

\* No assertion of run_frame is ever violated: the parser counters move only
\* behind an input handshake, what a consumer stalls is held, no byte of the
\* next frame gets in while a record is pending, the record comes after the
\* payload, and the beats and the record are those of the reference model.
ChecksPass == ~failed

\* _record_coverage: what a frame shows of the payload output.
OutputSemantic(expected) ==
  IF expected.record.accept /\ expected.record.payload_len > 0 THEN "full_good_output"
  ELSE IF expected.terminal_error THEN "partial_error_output" ELSE "no_output"

IntendedReason ==
  [accept |-> REASON_ACCEPT, non_ipv4 |-> REASON_NON_IPV4,
   bad_ipv4_header |-> REASON_BAD_IPV4_HEADER, non_udp |-> REASON_NON_UDP,
   fragmented |-> REASON_FRAGMENTED, frame_too_long |-> REASON_FRAME_TOO_LONG,
   bad_length |-> REASON_BAD_LENGTH_OR_TRUNCATED,
   truncated |-> REASON_BAD_LENGTH_OR_TRUNCATED,
   port_mismatch |-> REASON_DST_PORT_MISMATCH,
   msg_mismatch |-> REASON_MSG_TYPE_MISMATCH,
   filter_reject_truncated |-> REASON_BAD_LENGTH_OR_TRUNCATED]

\* A case drawn for a category gets the record that the category is named for,
\* whatever else was drawn for it, and only a frame cut inside its payload
\* shows a partial output: the goals of sim/coverage.py count what they say.
CasesAreWhatTheySay ==
  result_valid_q =>
    \A case \in RandomCases :
      /\ case.size = pos
      /\ cfg0 = IF case.msg_enabled THEN FilterOn ELSE FilterOff
      /\ SubSeq(case.frame, 1, pos) = SubSeq(frame, 1, pos)
      => /\ result.reason = IntendedReason[case.category]
         /\ OutputSemantic(Expected) = "partial_error_output"
              <=> case.truncation \in {"first_payload", "later_payload"}
=============================================================================
