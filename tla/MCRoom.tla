------------------------------- MODULE MCRoom -------------------------------
(***************************************************************************)
(* Room.tla with named connections.  a1 is a's; b1 and b2 are b's, so that *)
(* b2 can come back with b1's token; c1 is c's.                            *)
(***************************************************************************)
EXTENDS Room, TLC

CONSTANTS a, b, c, a1, b1, b2, c1

MCHolder == [s \in Session |-> CASE s = a1 -> a [] s = c1 -> c [] OTHER -> b]

\* b and c, each with one connection, are interchangeable.
Guests == {b, c, b1, c1}
MCSymmetry ==
    {[x \in Guests |-> x],
     [x \in Guests |-> CASE x = b -> c [] x = c -> b [] x = b1 -> c1 [] x = c1 -> b1]}
=============================================================================
