----------------------------- MODULE TurnOrder -----------------------------
(***************************************************************************)
(* The order of play round a table of n seats numbered 1..n, and what the  *)
(* engine's loops over that order come to.  engine.go walks the seats one  *)
(* at a time (advance, settle); here each walk is described by where it    *)
(* stops, so that a step of the game is one formula and can be proved      *)
(* about.  SeatWalk.tla runs the loops themselves and checks that they     *)
(* stop where these operators say.                                         *)
(***************************************************************************)
EXTENDS Naturals, FiniteSets

\* How many seats past `from` seat i sits, going round: 0 for `from` itself.
Waits(n, from, i) == IF i >= from THEN i - from ELSE i + n - from

\* Mutant of NextAlive: the next seat, in the game or not.
NextSeat(n, from, alive) == IF from = n THEN 1 ELSE from + 1

\* advance(): the first seat after `from` still in the game.
NextAlive(n, from, alive) ==
    CHOOSE i \in alive \ {from} :
        \A j \in alive \ {from} : Waits(n, from, i) <= Waits(n, from, j)

\* Mutant of LastAlive: the sweep stops at the first seat it comes to.
FirstAlive(n, from, alive) ==
    CHOOSE i \in alive \ {from} :
        \A j \in alive \ {from} : Waits(n, from, i) <= Waits(n, from, j)

\* settle(): eliminating the player to act over and over, from `from` on, leaves
\* the one whose turn would have come last.
LastAlive(n, from, alive) ==
    CHOOSE i \in alive : \A j \in alive : Waits(n, from, j) <= Waits(n, from, i)

\* Mutant of Place: seats that go out together share a position.
PlaceShared(n, from, out, i) == 1

\* The position seat i of the set `out` takes when the set goes out in turn order.
Place(n, from, out, i) ==
    Cardinality({j \in out : Waits(n, from, j) <= Waits(n, from, i)})
=============================================================================
