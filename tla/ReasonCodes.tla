---------------------------- MODULE ReasonCodes ----------------------------
(***************************************************************************)
(* The values of result_reason: udp_packet_filter_reason_codes.svh and the *)
(* Reason enumeration of sim/reference_model.py, which agree.              *)
(***************************************************************************)
REASON_ACCEPT                  == 0
REASON_NON_IPV4                == 1
REASON_BAD_IPV4_HEADER         == 2
REASON_NON_UDP                 == 3
REASON_FRAGMENTED              == 4
REASON_BAD_LENGTH_OR_TRUNCATED == 5
REASON_DST_PORT_MISMATCH       == 6
REASON_MSG_TYPE_MISMATCH       == 7
REASON_FRAME_TOO_LONG          == 8

Reasons == {REASON_ACCEPT, REASON_NON_IPV4, REASON_BAD_IPV4_HEADER,
            REASON_NON_UDP, REASON_FRAGMENTED,
            REASON_BAD_LENGTH_OR_TRUNCATED, REASON_DST_PORT_MISMATCH,
            REASON_MSG_TYPE_MISMATCH, REASON_FRAME_TOO_LONG}
=============================================================================
