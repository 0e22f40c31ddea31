--------------------------- MODULE MCHostSession ---------------------------
(***************************************************************************)
(* Three frames in two batches.  An RX FIFO of 24 bytes holds the first    *)
(* two commands; all three at once would overflow it when the first frame  *)
(* is stalled with its payload in the filter and the slice.                *)
(* The second session finds the sequence number and the registers of the   *)
(* first, or any part of one of its commands.                              *)
(***************************************************************************)
EXTENDS HostInvariant

MCConfig == [dst_port |-> 1, msg_type_enable |-> FALSE, msg_type |-> 0]
Item(frame, stall) == [frame |-> frame, cfg |-> MCConfig, stall |-> stall]

\* Bytes that look like tags and commands, no two alike.
MCPlan == <<Item(<<172, 166, 176, 1, 2, 3>>, 1), Item(<<165, 0>>, 0),
            Item(<<177, 178, 192, 4, 5, 6>>, 0)>>
=============================================================================
