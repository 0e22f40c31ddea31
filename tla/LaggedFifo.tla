----------------------------- MODULE LaggedFifo -----------------------------
(***************************************************************************)
(* A ByteFifo whose reader sees an item one clock edge after it came in.   *)
(* Both parts count against the depth.                                     *)
(***************************************************************************)
EXTENDS PortTrace, Naturals, Sequences

CONSTANTS Item, Depth

VARIABLES visible,      \* what the reader can see, oldest first
          arriving,     \* what came in on the last edge, at most one item
          port

AtMostOne == {<< >>} \cup {<<item>> : item \in Item}

Init == visible = << >> /\ arriving = << >> /\ port = IdlePort

Accepted(offered) ==
  IF Len(visible) + Len(arriving) < Depth THEN offered ELSE << >>
Delivered(wanted) == IF wanted /\ visible # << >> THEN <<Head(visible)>> ELSE << >>
Kept(wanted) == IF Delivered(wanted) = << >> THEN visible ELSE Tail(visible)

\* One clock edge, and the edge that clears the FIFO; and both with their trace.
Move(offered, wanted) ==
  /\ visible' = Kept(wanted) \o arriving
  /\ arriving' = Accepted(offered)
Empty == visible' = << >> /\ arriving' = << >>

Transfer(offered, wanted) ==
  /\ Move(offered, wanted)
  /\ port' = [rst_n |-> TRUE, offered |-> offered, wanted |-> wanted,
              accepted |-> Accepted(offered), delivered |-> Delivered(wanted)]

Clear == Empty /\ port' = IdlePort

Next == Clear \/ \E offered \in AtMostOne, wanted \in BOOLEAN :
                   Transfer(offered, wanted)

Spec == Init /\ [][Next]_<<visible, arriving, port>>
=============================================================================
