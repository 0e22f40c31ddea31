---------------------------- MODULE MCFilterRate ----------------------------
(* Consumers that are always ready; two frames between resets. *)
EXTENDS FilterRate, TestFrames

MCStreams == {Plain(<<MSG, 2, 3>>, <<9, 9>>), Plain(<<MSG>>, <<9>>),
              Plain(<< >>, <<9>>), build_frame(Elsewhere, <<MSG>>, << >>)}
MCConfigs == {FilterOff, FilterOn}
=============================================================================
