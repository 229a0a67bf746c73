---------------------------- MODULE MCAlgorithms ----------------------------
(***************************************************************************)
(* The algorithms the game is built from, each run on every input of a     *)
(* small range: a behavior is one run of one of them.                      *)
(*   Walks: tables of up to MaxSeats.                                      *)
(*   Scoring: inputs on both sides of every threshold: the chain term is   *)
(* full at 15 words, rarity is spent at 32 answers, and the cap starts to  *)
(* bite at 9 syllables (rarity, speed) and at 15 (syllables).              *)
(*   Bot: every dictionary over three syllables, from every syllable that  *)
(* starts a word, with up to MaxPlayed words already played.               *)
(***************************************************************************)
EXTENDS SeatWalk, TrimLoop, BotSearch

chainLengthsTried == {1, 14, 15, 16}
syllableCountsTried == {2, 3, 9, 10, 12, 14, 15, 16, 20}
leftsTried == {-1, 0, 1, 3, 5}
optionCountsTried == {0, 1, 2, 3, 31, 32, 195}

everyPair == <<<<1, 1>>, <<1, 2>>, <<1, 3>>, <<2, 1>>, <<2, 2>>, <<2, 3>>,
               <<3, 1>>, <<3, 2>>, <<3, 3>>>>

vars == <<walkVars, trimVars, botVars>>

Init ==
    \/ WalkInit /\ TrimIdle /\ BotIdle
    \/ WalkIdle /\ TrimInit /\ BotIdle
    \/ WalkIdle /\ TrimIdle /\ BotInit

Next ==
    \/ WalkNext /\ UNCHANGED <<trimVars, botVars>>
    \/ TrimNext /\ UNCHANGED <<walkVars, botVars>>
    \/ choose /\ UNCHANGED <<walkVars, trimVars>>

Spec == Init /\ [][Next]_vars
=============================================================================
