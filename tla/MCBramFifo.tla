----------------------------- MODULE MCBramFifo -----------------------------
(* BramFifo with four places for words of one bit. *)
EXTENDS BramFifo

MCWord == {0, 1}
=============================================================================
