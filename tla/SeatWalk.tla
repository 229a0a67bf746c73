------------------------------ MODULE SeatWalk ------------------------------
(***************************************************************************)
(* The two loops of engine.go that walk the seats, run one iteration at a  *)
(* time: advance(), which looks for the next seat in the game, and         *)
(* settle(), which eliminates one player after another until one is left.  *)
(* A run starts in any position of any table of up to MaxSeats, either     *)
(* passing the turn on ("pass"), or losing it with the position open       *)
(* ("lose") or a dead end ("sweep"), and ends where TurnOrder says.        *)
(***************************************************************************)
EXTENDS TurnOrder, Sequences

CONSTANT MaxSeats    \* bound: the longest table tried

ASSUME MaxSeatsAssumption == MaxSeats \in Nat \ {0, 1}

VARIABLES
    n,          \* len(e.players)
    why,        \* what the walk is for
    start,      \* [turn, alive] before the walk
    alive,
    outOrder,   \* the seats eliminated during the walk
    turnIndex,
    walked,     \* iterations of advance() so far
    pc          \* "eliminate", "advance", "settle" or "done"; "idle" when no walk

walkVars == <<n, why, start, alive, outOrder, turnIndex, walked, pc>>

WalkInit ==
    /\ n \in 2 .. MaxSeats
    /\ why \in {"pass", "lose", "sweep"}
    /\ alive \in {a \in SUBSET (1 .. n) : Cardinality(a) >= 2}
    /\ turnIndex \in alive
    /\ start = [turn |-> turnIndex, alive |-> alive]
    /\ outOrder = <<>>
    /\ walked = 0
    /\ pc = IF why = "pass" THEN "advance" ELSE "eliminate"

WalkIdle ==
    /\ n = 0 /\ why = "none" /\ start = <<>> /\ alive = {} /\ outOrder = <<>>
    /\ turnIndex = 0 /\ walked = 0
    /\ pc = "idle"

\* eliminate(e.Turn()), up to its call of advance(), which its player always needs.
eliminate ==
    /\ pc = "eliminate"
    /\ alive' = alive \ {turnIndex}
    /\ outOrder' = Append(outOrder, turnIndex)
    /\ walked' = 0
    /\ pc' = "advance"
    /\ UNCHANGED <<n, why, start, turnIndex>>

\* Mutant of advance: the seat is tested before the index moves on.
advanceLate ==
    /\ pc = "advance"
    /\ walked < n
    /\ turnIndex' = IF turnIndex \in alive THEN turnIndex ELSE (turnIndex % n) + 1
    /\ walked' = walked + 1
    /\ pc' = IF turnIndex \in alive THEN "settle" ELSE "advance"
    /\ UNCHANGED <<n, why, start, alive, outOrder>>

\* One iteration of advance().
advance ==
    /\ pc = "advance"
    /\ walked < n
    /\ turnIndex' = (turnIndex % n) + 1
    /\ walked' = walked + 1
    /\ pc' = IF turnIndex' \in alive THEN "settle" ELSE "advance"
    /\ UNCHANGED <<n, why, start, alive, outOrder>>

\* The condition of settle(): at a dead end it goes on while two are left.
settle ==
    /\ pc = "settle"
    /\ pc' = IF why = "sweep" /\ Cardinality(alive) > 1 THEN "eliminate" ELSE "done"
    /\ UNCHANGED <<n, why, start, alive, outOrder, turnIndex, walked>>

WalkNext == eliminate \/ advance \/ settle

WalkSpec == WalkInit /\ [][WalkNext]_walkVars

----------------------------------------------------------------------------
\* Where the loops stop: the turn is with NextAlive of those left; a sweep leaves
\* LastAlive alone, and took the others out in the order Place says.  And they do
\* stop: advance() comes to a seat in the game before it has gone all the way
\* round, and each turn of settle() takes out a player who was still in.
StopsWhereSaid ==
    /\ pc = "advance" => walked < n
    /\ pc = "eliminate" => turnIndex \in alive
    /\ pc = "done" =>
        LET gone == start.alive \ alive
            last == LastAlive(n, start.turn, start.alive)
        IN  /\ turnIndex = NextAlive(n, start.turn, alive)
            /\ why = "pass" => gone = {}
            /\ why = "lose" => gone = {start.turn}
            /\ why = "sweep" => alive = {last}
            /\ Len(outOrder) = Cardinality(gone)
            /\ \A k \in DOMAIN outOrder :
                  /\ outOrder[k] \in gone
                  /\ Place(n, start.turn, gone, outOrder[k]) = k
=============================================================================
