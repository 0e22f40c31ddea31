------------------------------ MODULE ByteFifo ------------------------------
(***************************************************************************)
(* What a synchronous FIFO with ready/valid ports promises: one clock edge *)
(* may take one item in and give one item out, in order, nothing lost and  *)
(* nothing made up.  It refuses an item only when it is full at the start  *)
(* of the cycle, and it withholds one only when it is empty.               *)
(*                                                                         *)
(* "port" shows the last clock edge (PortTrace).                           *)
(***************************************************************************)
EXTENDS PortTrace, Naturals, Sequences

CONSTANTS Item, Depth      \* Depth is the number of places, at least one

VARIABLES queue, port

AtMostOne == {<< >>} \cup {<<item>> : item \in Item}

Init == queue = << >> /\ port = IdlePort

Accepted(offered) == IF Len(queue) < Depth THEN offered ELSE << >>
Delivered(wanted) == IF wanted /\ queue # << >> THEN <<Head(queue)>> ELSE << >>
Kept(wanted) == IF Delivered(wanted) = << >> THEN queue ELSE Tail(queue)

\* One clock edge, and the edge that clears the FIFO; and both with their trace.
Move(offered, wanted) == queue' = Kept(wanted) \o Accepted(offered)
Empty == queue' = << >>

Transfer(offered, wanted) ==
  /\ Move(offered, wanted)
  /\ port' = [rst_n |-> TRUE, offered |-> offered, wanted |-> wanted,
              accepted |-> Accepted(offered), delivered |-> Delivered(wanted)]

Clear == Empty /\ port' = IdlePort

Next == Clear \/ \E offered \in AtMostOne, wanted \in BOOLEAN :
                   Transfer(offered, wanted)

Spec == Init /\ [][Next]_<<queue, port>>
=============================================================================
