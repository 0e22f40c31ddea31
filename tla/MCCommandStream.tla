-------------------------- MODULE MCCommandStream --------------------------
(***************************************************************************)
(* Three commands: resets, and frames of one, two and three bytes with     *)
(* different configurations and stall levels.  Data bytes look like tags   *)
(* and commands.                                                           *)
(***************************************************************************)
EXTENDS CommandStream

PortOne == [dst_port |-> 1, msg_type_enable |-> FALSE, msg_type |-> 0]
PortTwo == [dst_port |-> 512, msg_type_enable |-> TRUE, msg_type |-> 172]

MCCommands == {<<166>>, Protocol!frame_command(<<172>>, PortOne, 0),
               Protocol!frame_command(<<166, 192, 165>>, PortTwo, 1)}
=============================================================================
