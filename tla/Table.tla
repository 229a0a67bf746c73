------------------------------- MODULE Table -------------------------------
(***************************************************************************)
(* What a game promises the room that owns it, with no words in it: who is *)
(* still in, whose turn it is, how much of the turn is left, and whether   *)
(* the position is a dead end.  A player who fails a turn goes out and the *)
(* rest play on; a dead end takes everybody but the player who closed it;  *)
(* the last player in wins.                                                *)
(*                                                                         *)
(* Engine.tla implements this specification (words, spellings, scores and  *)
(* verdicts added).                                                        *)
(***************************************************************************)
EXTENDS TurnOrder, Integers, Sequences

CONSTANTS
    Player,     \* whoever can sit down
    Tables,     \* the turn orders a game can start with
    TurnLimit   \* ticks of the clock in one turn

VARIABLES
    players,    \* turn order, the eliminated ones included
    alive,      \* the seats of `players` still in the game
    turn,       \* the seat to act
    dead,       \* the player to act has no word to play
    left        \* ticks left before the deadline; -1 once it has passed

vars == <<players, alive, turn, dead, left>>

Seats == DOMAIN players

Over == \E i \in alive : alive = {i}

\* Everybody a failed turn takes out: at a dead end, all but the last in order.
Fallen ==
    IF dead THEN alive \ {LastAlive(Len(players), turn, alive)} ELSE {turn}

----------------------------------------------------------------------------
Init ==
    /\ players \in Tables
    /\ alive = Seats
    /\ turn = 1
    /\ dead = FALSE
    /\ left = TurnLimit

\* A word is accepted: the turn passes, to somebody who may or may not be stuck.
Accept ==
    /\ ~Over
    /\ ~dead
    /\ left >= 0
    /\ turn' = NextAlive(Len(players), turn, alive)
    /\ dead' \in BOOLEAN
    /\ left' = TurnLimit
    /\ UNCHANGED <<players, alive>>

\* The player to act goes out, and with them whoever faces the same dead end.
LoseTurn ==
    /\ alive' = alive \ Fallen
    /\ turn' = NextAlive(Len(players), turn, alive')
    /\ left' = IF Over' THEN left ELSE TurnLimit
    /\ UNCHANGED <<players, dead>>

Expire ==
    /\ ~Over
    /\ left < 0 \/ dead
    /\ LoseTurn

\* Somebody leaves.  From behind, nothing but their own seat changes.
Resign(i) ==
    /\ ~Over
    /\ i \in alive
    /\ IF i = turn
       THEN LoseTurn
       ELSE /\ alive' = alive \ {i}
            /\ UNCHANGED <<players, turn, dead, left>>

Tick ==
    /\ left >= 0
    /\ left' = left - 1
    /\ UNCHANGED <<players, alive, turn, dead>>

Next == Accept \/ Expire \/ Tick \/ \E i \in Seats : Resign(i)

Spec == Init /\ [][Next]_vars
=============================================================================
