------------------------------ MODULE MCBuffer ------------------------------
(* BufferHarness with one data bit per beat. *)
EXTENDS BufferHarness

MCByte == {0, 1}
=============================================================================
