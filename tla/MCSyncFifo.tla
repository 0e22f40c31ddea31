----------------------------- MODULE MCSyncFifo -----------------------------
(* SyncFifo with four places for words of one bit. *)
EXTENDS SyncFifo

MCWord == {0, 1}
=============================================================================
