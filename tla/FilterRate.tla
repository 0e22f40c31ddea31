----------------------------- MODULE FilterRate -----------------------------
(***************************************************************************)
(* The timing section of docs/spec.md (8) is about consumers that are      *)
(* always ready.  This module adds a ghost to FilterHarness that counts    *)
(* the cycles with s_axis_tready low since it was last high; a cfg gives   *)
(* OutReady and ResultReady the one value TRUE.                            *)
(***************************************************************************)
EXTENDS FilterHarness

VARIABLE unready

rateVars == <<vars, unready>>

RateInit == Init /\ unready = 0

RateNext ==
  \/ Reset /\ unready' = 0
  \/ Tick /\ unready' = IF s_axis_tready THEN 0 ELSE unready + 1

RateSpec == RateInit /\ [][RateNext]_rateVars

\* Within a frame a byte is accepted every cycle, payload included: the skid
\* buffer never closes the input (spec.md:204-205).
NoStallWithinFrame == open = 0 => s_axis_tready

\* Between frames the input is closed for one cycle, or two if the frame's
\* last byte was forwarded payload (spec.md:208-210).
LastByteForwarded ==
  Expected.forwarded > 0 /\ pos = Model!PAYLOAD_OFFSET + Expected.forwarded
GapBetweenFrames ==
  [][~s_axis_tready /\ s_axis_tready' =>
       Reset \/ unready + 1 = IF LastByteForwarded THEN 2 ELSE 1]_rateVars

\* A payload byte is on the output one cycle after it is accepted, and the
\* ones before it have left (spec.md:206).
PayloadLatencyIsOne ==
  [][pos > 0 /\ pos' = pos + 1 /\ Expected'.forwarded > Expected.forwarded
       => out_valid_q' /\ sent' + 1 = Expected'.forwarded]_rateVars
=============================================================================
