-------------------------- MODULE MCRtlTestbench --------------------------
(***************************************************************************)
(* The directed and the random frames of the regression, one after each    *)
(* reset, each of them also ended early at every byte.                     *)
(***************************************************************************)
EXTENDS RtlTestbench

MCFields == {[PacketFields EXCEPT !.df = 1, !.src_port = 255]}
MCPayloads == {<< >>, <<7, 8, 9>>}
MCPaddings == {<< >>, <<9, 0>>}

MCStreams == UNION {AcceptFrames, FilteredFrames, MalformedFrames, BadLengthFrames,
                    RandomFrames}
MCConfigs == {FilterOff, FilterOn, OtherMsg, OtherPort}
=============================================================================
