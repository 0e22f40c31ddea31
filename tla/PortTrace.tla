----------------------------- MODULE PortTrace -----------------------------
(***************************************************************************)
(* What the ports of a ready/valid or FIFO interface did on one clock      *)
(* edge, as a record: was it an edge with rst_n high, what was offered and *)
(* wanted, and what was accepted and delivered, each a sequence of at most *)
(* one item.                                                               *)
(***************************************************************************)

OneIf(present, item) == IF present THEN <<item>> ELSE << >>

IdlePort == [rst_n |-> FALSE, offered |-> << >>, wanted |-> FALSE,
             accepted |-> << >>, delivered |-> << >>]
=============================================================================
