----------------------------- MODULE MCRunAll -----------------------------
(***************************************************************************)
(* Two runs after the committed one: a full run, a script by hand, or one  *)
(* that is killed, in any order.  What they find is what the other left.   *)
(***************************************************************************)
EXTENDS RunAll
=============================================================================
