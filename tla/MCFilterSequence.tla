-------------------------- MODULE MCFilterSequence --------------------------
(***************************************************************************)
(* Several frames between resets, so that each one starts with what the    *)
(* one before it left in the registers, and the record count wraps.        *)
(***************************************************************************)
EXTENDS FilterInvariant, TestFrames

MCStreams == {Plain(<<MSG, 2>>, <<9>>), Plain(<<0, 2>>, << >>),
              build_frame(Elsewhere, <<0>>, << >>),
              Lengths(<< >>, 28, 7), With([PacketFields EXCEPT !.mf = 1])}
MCConfigs == {FilterOff, FilterOn}
=============================================================================
