---------------------------- MODULE EngineProofs ----------------------------
(***************************************************************************)
(* Proofs about Engine, for every dictionary, every table and every turn   *)
(* limit.  Everything rests on one inductive invariant, Inv; the placings  *)
(* and the scores have layers of their own above it.                       *)
(***************************************************************************)
EXTENDS Engine, RulesProofs, SequenceTheorems

\* The seat that played the last word of the chain.
Closer == history[Len(history)].player

\* While the game is on, the player who played the last word is the last in turn
\* order of those still in: everybody else meets the position first.  This is
\* what makes CloserIsNeverStuck inductive.
CloserIsLast ==
    (history # <<>> /\ ~over /\ Closer \in alive) =>
        \A j \in alive : Waits(Len(players), turn, j) <= Waits(Len(players), turn, Closer)

\* A seat has a reason for being out exactly when it is out.
ReasonsMatch == \A i \in Seats : outReason[i] = "None" <=> i \in alive

Inv ==
    /\ TypeOK
    /\ TurnIsAlive
    /\ ChainIsLegal
    /\ ReasonsMatch
    /\ CloserIsLast
    /\ CloserIsNeverStuck

----------------------------------------------------------------------------
(***************************************************************************)
(* Seats and sets of seats.                                                *)
(***************************************************************************)

\* The seats of a table are 1 .. n for some n of two or more.
LEMMA SeatsFacts ==
    ASSUME players \in Tables
    PROVE  /\ Len(players) \in Nat
           /\ Len(players) >= 2
           /\ Seats = 1 .. Len(players)
           /\ \A i \in Seats : players[i] \in Player
BY TablesAssumption, LenProperties, ElementOfSeq DEF Seats

\* Seats that go out take positions among those of the table.
LEMMA NewPlaceType ==
    ASSUME NEW n \in Nat, NEW from \in 1 .. n, NEW in \in SUBSET (1 .. n),
           NEW out \in SUBSET in, NEW i \in out
    PROVE  Cardinality((1 .. n) \ in) + Place(n, from, out, i) \in 0 .. n
<1>1. Place(n, from, out, i) \in 1 .. Cardinality(out)
  BY PlaceType
<1>2. IsFiniteSet(1 .. n) /\ Cardinality(1 .. n) = n
  BY FS_Interval
<1>3. IsFiniteSet((1 .. n) \ in) /\ IsFiniteSet(out)
  BY SeatSets
<1>4. /\ Cardinality(((1 .. n) \ in) \cup out)
           = Cardinality((1 .. n) \ in) + Cardinality(out) - Cardinality(((1 .. n) \ in) \cap out)
  BY <1>3, FS_Union
<1>5. ((1 .. n) \ in) \cap out = {}
  OBVIOUS
<1>6. Cardinality(((1 .. n) \ in) \cup out) <= n
  BY SeatSets
<1>7. /\ Cardinality((1 .. n) \ in) \in Nat
      /\ Cardinality(out) \in Nat
      /\ Cardinality({}) = 0
  BY <1>3, FS_CardinalityType, FS_EmptySet
<1> QED BY <1>1, <1>4, <1>5, <1>6, <1>7

----------------------------------------------------------------------------
(***************************************************************************)
(* Eliminations.                                                           *)
(***************************************************************************)

\* Whoever goes out, the turn stays with, or passes to, a seat still in, and the
\* game is over exactly when that seat is the only one.
LEMMA EliminateFacts ==
    ASSUME TypeOK, TurnIsAlive, ReasonsMatch, ~over,
           NEW out \in SUBSET alive, alive \ out # {},
           NEW why, \A i \in out : why[i] \in EndReason \ {"None"},
           Eliminate(out, why)
    PROVE  /\ players' = players
           /\ alive' = alive \ out
           /\ alive' \subseteq Seats
           /\ outAt' \in [Seats -> 0 .. Len(players)]
           /\ outReason' \in [Seats -> EndReason]
           /\ turn' \in Seats
           /\ turn' = IF turn \in out THEN NextAlive(Len(players), turn, alive') ELSE turn
           /\ over' \in BOOLEAN
           /\ winner' \in Player \cup {NoPlayer}
           /\ TurnIsAlive'
           /\ ReasonsMatch'
           /\ \A i \in Seats \ out : outReason'[i] = outReason[i]
<1> DEFINE n == Len(players)
<1>1. n \in Nat /\ Seats = 1 .. n /\ \A i \in Seats : players[i] \in Player
  BY SeatsFacts DEF TypeOK
<1>2. players' = players /\ Seats' = Seats
  BY DEF Eliminate, Seats
<1>3. alive' = alive \ out /\ alive' \subseteq Seats /\ alive \subseteq Seats
  BY DEF Eliminate, TypeOK
<1>4. turn \in alive /\ turn \in 1 .. n
  BY <1>1 DEF TypeOK, TurnIsAlive
<1>5. turn' = IF turn \in out THEN NextAlive(n, turn, alive') ELSE turn
  BY DEF Eliminate
<1>6. turn' \in alive'
  <2>1. CASE turn \in out
    <3>1. alive' \ {turn} # {} /\ alive' \in SUBSET (1 .. n)
      BY <2>1, <1>1, <1>3
    <3>2. NextAlive(n, turn, alive') \in alive'
      BY <3>1, <1>1, <1>4, NextAliveFacts
    <3> QED BY <3>2, <2>1, <1>5
  <2>2. CASE turn \notin out
    BY <2>2, <1>3, <1>4, <1>5
  <2> QED BY <2>1, <2>2
<1>7. over' \in BOOLEAN /\ (over' <=> alive' = {turn'})
  <2>1. Cardinality(alive') <= 1 <=> alive' = {turn'}
    BY <1>1, <1>3, <1>6, SeatSets
  <2>2. IF Cardinality(alive') <= 1 THEN over' = TRUE ELSE over' = over
    BY DEF Eliminate
  <2>3. over = FALSE
    BY DEF TypeOK
  <2> QED BY <2>1, <2>2, <2>3
<1>8. outAt' \in [Seats -> 0 .. n]
  <2>1. ASSUME NEW i \in Seats, i \in out
        PROVE  Cardinality(Seats \ alive) + Place(n, turn, out, i) \in 0 .. n
    BY <2>1, <1>1, <1>3, <1>4, NewPlaceType
  <2>2. outAt' = [i \in Seats |->
                    IF i \in out THEN Cardinality(Seats \ alive) + Place(n, turn, out, i)
                                 ELSE outAt[i]]
    BY DEF Eliminate
  <2>3. outAt \in [Seats -> 0 .. n]
    BY DEF TypeOK
  <2> QED BY <2>1, <2>2, <2>3
<1>9. /\ outReason' \in [Seats -> EndReason]
      /\ \A i \in Seats \ out : outReason'[i] = outReason[i]
      /\ \A i \in out : outReason'[i] = why[i]
  BY <1>3 DEF Eliminate, TypeOK
<1>10. ReasonsMatch'
  BY <1>2, <1>3, <1>9 DEF ReasonsMatch
<1>11. /\ winner' = IF over' THEN players'[turn'] ELSE NoPlayer
       /\ winner' \in Player \cup {NoPlayer}
  BY <1>1, <1>2, <1>3, <1>6 DEF Eliminate, TurnIsAlive, TypeOK
<1>12. TurnIsAlive'
  BY <1>6, <1>7, <1>11 DEF TurnIsAlive
<1> QED BY <1>1, <1>2, <1>3, <1>5, <1>6, <1>7, <1>8, <1>9, <1>10, <1>11, <1>12

\* While the game is on, somebody besides the player to act is in it.
LEMMA SomebodyElse ==
    ASSUME TypeOK, TurnIsAlive, ~over
    PROVE  alive \ {turn} # {}
BY DEF TurnIsAlive

\* The seats a lost turn takes out: the player to act is always among them, and
\* they are never all.
LostSeats ==
    IF HasLegalMove THEN {turn} ELSE alive \ {LastAlive(Len(players), turn, alive)}

\* A lost turn takes out its player, and leaves somebody in.
LEMMA LostSeatsFacts ==
    ASSUME TypeOK, TurnIsAlive, ~over
    PROVE  /\ LostSeats \in SUBSET alive
           /\ turn \in LostSeats
           /\ alive \ LostSeats # {}
           /\ ~HasLegalMove => alive \ LostSeats = {LastAlive(Len(players), turn, alive)}
<1> DEFINE last == LastAlive(Len(players), turn, alive)
<1>1. /\ Len(players) \in Nat
      /\ turn \in 1 .. Len(players)
      /\ alive \in SUBSET (1 .. Len(players))
  BY SeatsFacts DEF TypeOK
<1>2. alive \ {turn} # {} /\ turn \in alive
  BY SomebodyElse DEF TurnIsAlive
<1>3. last \in alive /\ last # turn
  BY <1>1, <1>2, LastAliveFacts, LastIsNotFirst
<1> HIDE DEF last
<1> QED BY <1>2, <1>3 DEF LostSeats, last

\* A lost turn: the turn moves on, to a seat with a word to play and a whole turn
\* to play it in unless the game is over; nobody but LostSeats is touched, and
\* only the player to act can go out for a reason other than a dead end.
LEMMA LoseTurnFacts ==
    ASSUME TypeOK, TurnIsAlive, ReasonsMatch, ~over,
           NEW reason \in EndReason \ {"None"}, LoseTurn(reason)
    PROVE  /\ players' = players
           /\ alive' = alive \ LostSeats
           /\ alive' \subseteq Seats
           /\ outAt' \in [Seats -> 0 .. Len(players)]
           /\ outReason' \in [Seats -> EndReason]
           /\ turn' \in Seats
           /\ turn' = NextAlive(Len(players), turn, alive')
           /\ over' \in BOOLEAN
           /\ winner' \in Player \cup {NoPlayer}
           /\ TurnIsAlive'
           /\ ReasonsMatch'
           /\ \A i \in Seats \ LostSeats : outReason'[i] = outReason[i]
           /\ left' = IF over' THEN left ELSE TurnLimit
           /\ ~HasLegalMove => over'
           /\ turn' # turn
<1> DEFINE why == [i \in LostSeats |-> IF i = turn THEN reason ELSE "NoLegalMove"]
<1>1. Eliminate(LostSeats, why) /\ left' = IF over' THEN left ELSE TurnLimit
  BY DEF LoseTurn, LostSeats
<1>2. \A i \in LostSeats : why[i] \in EndReason \ {"None"}
  BY DEF EndReason
<1>3. LostSeats \in SUBSET alive /\ alive \ LostSeats # {} /\ turn \in LostSeats
  BY LostSeatsFacts
<1> HIDE DEF why
<1>4. /\ players' = players
      /\ alive' = alive \ LostSeats
      /\ alive' \subseteq Seats
      /\ outAt' \in [Seats -> 0 .. Len(players)]
      /\ outReason' \in [Seats -> EndReason]
      /\ turn' \in Seats
      /\ turn' = IF turn \in LostSeats THEN NextAlive(Len(players), turn, alive') ELSE turn
      /\ over' \in BOOLEAN
      /\ winner' \in Player \cup {NoPlayer}
      /\ TurnIsAlive'
      /\ ReasonsMatch'
      /\ \A i \in Seats \ LostSeats : outReason'[i] = outReason[i]
  BY <1>1, <1>2, <1>3, EliminateFacts
<1>5. ~HasLegalMove => over'
  BY <1>4, LostSeatsFacts DEF TurnIsAlive
<1>6. turn' # turn
  BY <1>3, <1>4 DEF TurnIsAlive
<1> QED BY <1>1, <1>3, <1>4, <1>5, <1>6

----------------------------------------------------------------------------
(***************************************************************************)
(* The inductive invariant.                                                *)
(***************************************************************************)

\* A game starts in Inv.
LEMMA InitInv == Init => Inv
<1> SUFFICES ASSUME NEW order \in Tables, NEW word \in Word, New(order, word)
             PROVE  Inv
  BY DEF Init
<1>1. players = order /\ Len(players) \in Nat /\ Len(players) >= 2 /\ Seats = 1 .. Len(players)
  BY SeatsFacts DEF New
<1>2. /\ alive = Seats /\ turn = 1 /\ over = FALSE /\ winner = NoPlayer
      /\ history = <<>> /\ used = {word} /\ opening = word
      /\ current = LastSyllable[word] /\ left = TurnLimit /\ verdict = "None"
      /\ outAt = [i \in Seats |-> 0] /\ outReason = [i \in Seats |-> "None"]
      /\ scores = [i \in Seats |-> 0]
  BY DEF New, Seats
<1>3. TypeOK
  <2>1. history \in Seq([player : Seats, word : Word, points : Nat])
    BY <1>2, EmptySeq
  <2>2. current \in Syllable /\ left \in -1 .. TurnLimit
    BY <1>2, DictionaryAssumption, ClockAssumption
  <2>3. /\ outAt \in [Seats -> 0 .. Len(players)]
        /\ outReason \in [Seats -> EndReason]
        /\ scores \in [Seats -> Nat]
    BY <1>1, <1>2 DEF EndReason
  <2>4. alive \subseteq Seats /\ turn \in Seats
    BY <1>1, <1>2
  <2> QED BY <1>1, <1>2, <2>1, <2>2, <2>3, <2>4 DEF TypeOK
<1>4. TurnIsAlive
  BY <1>1, <1>2 DEF TurnIsAlive
<1>5. ChainIsLegal
  <2>1. Len(history) = 0
    BY <1>2
  <2>2. WordBefore(Len(history) + 1) = opening
    BY <2>1 DEF WordBefore
  <2> QED BY <1>2, <2>1, <2>2 DEF ChainIsLegal
<1>6. ReasonsMatch
  BY <1>2 DEF ReasonsMatch
<1>7. CloserIsLast /\ CloserIsNeverStuck
  BY <1>2 DEF CloserIsLast, CloserIsNeverStuck
<1> QED BY <1>3, <1>4, <1>5, <1>6, <1>7 DEF Inv

\* What a submission has passed when no rule refuses it.
LEMMA JudgePassed ==
    ASSUME NEW i, NEW t \in Typed, Judge(i, t) = "None"
    PROVE  /\ ~over
           /\ i = turn
           /\ ~IsExpired
           /\ Syllables[t] >= MinSyllables /\ Syllables[t] \in Nat
           /\ Resolve[t] \in Word
           /\ FirstSyllable[Resolve[t]] = current
           /\ Resolve[t] \notin used
           /\ HasLegalMove
<1>1. /\ ~over /\ i = turn /\ ~IsExpired /\ ~ (Syllables[t] < MinSyllables)
      /\ Resolve[t] # NoWord /\ FirstSyllable[Resolve[t]] = current /\ Resolve[t] \notin used
  BY DEF Judge
<1>2. Syllables[t] \in Nat /\ Resolve[t] \in Word
  BY <1>1, DictionaryAssumption
<1>3. HasLegalMove
  BY <1>1, <1>2 DEF HasLegalMove, LegalMoves, WordsStartingWith
<1> QED BY <1>1, <1>2, <1>3 DEF MinSyllables

\* A submission that comes too late is one at the turn of its player.
LEMMA JudgeLate ==
    ASSUME NEW i, NEW t \in Typed, Judge(i, t) = "Timeout"
    PROVE  ~over /\ IsExpired /\ i = turn
BY DEF Judge

\* The syllable to answer has a count of answers.
LEMMA OutDegreeType == \A s : OutDegree(s) \in Nat
<1> SUFFICES ASSUME NEW s PROVE OutDegree(s) \in Nat
  OBVIOUS
<1>1. WordsStartingWith(s) \in SUBSET Word
  BY DEF WordsStartingWith
<1>2. IsFiniteSet(WordsStartingWith(s))
  BY <1>1, DictionaryAssumption, FS_Subset
<1> QED BY <1>2, FS_CardinalityType DEF OutDegree

\* An accepted word keeps Inv.
LEMMA PlayInv ==
    ASSUME Inv, NEW i \in Seats, NEW t \in Typed, Play(i, t)
    PROVE  Inv'
<1> DEFINE word == Resolve[t]
           points == pointsFor(ChainLength, Syllables[t], left, TurnLimit, OutDegree(current))
           n == Len(players)
           move == [player |-> i, word |-> word, points |-> points]
           Moves == [player : Seats, word : Word, points : Nat]
<1>0. Judge(i, t) = "None"
  BY DEF Play
<1>1. /\ ~over /\ i = turn /\ ~IsExpired
      /\ Syllables[t] >= MinSyllables /\ Syllables[t] \in Nat
      /\ word \in Word /\ FirstSyllable[word] = current /\ word \notin used
  BY <1>0, JudgePassed
<1>2. /\ TypeOK /\ TurnIsAlive /\ ChainIsLegal /\ ReasonsMatch
      /\ CloserIsLast /\ CloserIsNeverStuck
  BY DEF Inv
<1>3. n \in Nat /\ Seats = 1 .. n /\ history \in Seq(Moves) /\ Len(history) \in Nat
  BY <1>2, SeatsFacts, LenProperties DEF TypeOK
<1>4. points \in Nat
  <2>1. ChainLength \in Nat \ {0}
    BY <1>3 DEF ChainLength
  <2>2. left \in Int /\ TurnLimit \in Nat \ {0} /\ OutDegree(current) \in Nat
    BY <1>2, ClockAssumption, OutDegreeType DEF TypeOK
  <2>3. points \in basePoints .. maxPointsPerWord
    BY <1>1, <2>1, <2>2, PointsRange
  <2> QED BY <2>3 DEF basePoints, maxPointsPerWord
<1>5. /\ players' = players /\ alive' = alive /\ outAt' = outAt /\ outReason' = outReason
      /\ over' = over /\ winner' = winner /\ opening' = opening /\ Seats' = Seats
      /\ used' = used \cup {word}
      /\ history' = Append(history, move)
      /\ scores' = [scores EXCEPT ![i] = @ + points]
      /\ current' = LastSyllable[word]
      /\ turn' = NextAlive(n, turn, alive)
      /\ left' = TurnLimit
      /\ verdict' = "None"
  BY DEF Play, Seats
<1> HIDE DEF points
<1>6. move \in Moves
  BY <1>1, <1>4
<1>7. /\ history' \in Seq(Moves)
      /\ Len(history') = Len(history) + 1
      /\ history'[Len(history')] = move
      /\ \A k \in 1 .. Len(history) : history'[k] = history[k]
  BY <1>3, <1>5, <1>6, AppendProperties
<1> HIDE DEF move
<1>8. alive \ {turn} # {} /\ turn \in alive /\ turn \in 1 .. n /\ alive \in SUBSET (1 .. n)
  BY <1>1, <1>2, <1>3, SomebodyElse DEF TypeOK, TurnIsAlive
<1>9. turn' \in alive /\ turn' # turn /\ turn' \in Seats
  BY <1>3, <1>5, <1>8, NextAliveFacts
<1>10. TypeOK'
  <2>1. current' \in Syllable /\ left' \in -1 .. TurnLimit
    BY <1>1, <1>5, DictionaryAssumption, ClockAssumption
  <2>2. scores' \in [Seats -> Nat]
    BY <1>2, <1>4, <1>5 DEF TypeOK
  <2>3. used' \subseteq Word
    BY <1>1, <1>2, <1>5 DEF TypeOK
  <2>4. history' \in Seq([player : Seats', word : Word, points : Nat])
    BY <1>5, <1>7
  <2> QED BY <1>2, <1>5, <1>9, <2>1, <2>2, <2>3, <2>4 DEF TypeOK
<1>11. TurnIsAlive'
  BY <1>1, <1>2, <1>5, <1>8, <1>9 DEF TurnIsAlive
<1>12. ChainIsLegal'
  <2> DEFINE m == Len(history)
  <2>1. move.word = word
    BY DEF move
  <2>2. \A k \in 1 .. m + 1 : WordBefore(k)' = WordBefore(k)
    BY <1>3, <1>5, <1>7 DEF WordBefore
  <2>3. WordBefore(Len(history) + 1)' = word
    BY <1>3, <1>7, <2>1 DEF WordBefore
  <2>4. /\ \A k \in 1 .. m : FirstSyllable[history[k].word] = LastSyllable[WordBefore(k)]
        /\ \A k \in 1 .. m : history[k].word # opening
        /\ \A k, l \in 1 .. m : history[k].word = history[l].word => k = l
        /\ used = {opening} \cup {history[k].word : k \in 1 .. m}
        /\ current = LastSyllable[WordBefore(m + 1)]
    BY <1>2 DEF ChainIsLegal
  <2>5. ASSUME NEW k \in 1 .. m + 1
        PROVE  /\ FirstSyllable[history'[k].word] = LastSyllable[WordBefore(k)']
               /\ history'[k].word # opening'
               /\ \A l \in 1 .. m + 1 : history'[k].word = history'[l].word => k = l
    <3>1. history'[m + 1].word = word /\ \A l \in 1 .. m : history'[l].word = history[l].word
      BY <1>7, <2>1
    <3>2. word # opening /\ \A l \in 1 .. m : history[l].word # word
      BY <1>1, <2>4
    <3>3. FirstSyllable[word] = LastSyllable[WordBefore(m + 1)]
      BY <1>1, <2>4
    <3>4. k = m + 1 \/ k \in 1 .. m
      BY <1>3
    <3>5. \A l \in 1 .. m + 1 : l = m + 1 \/ l \in 1 .. m
      BY <1>3
    <3> QED BY <1>5, <2>2, <2>4, <3>1, <3>2, <3>3, <3>4, <3>5
  <2>6. used' = {opening'} \cup {history'[k].word : k \in 1 .. m + 1}
    <3>1. history'[m + 1].word = word /\ \A l \in 1 .. m : history'[l].word = history[l].word
      BY <1>7, <2>1
    <3>2. {history'[k].word : k \in 1 .. m + 1} = {history[k].word : k \in 1 .. m} \cup {word}
      <4>1. 1 .. m + 1 = (1 .. m) \cup {m + 1}
        BY <1>3
      <4> QED BY <3>1, <4>1
    <3> QED BY <1>5, <2>4, <3>2
  <2>7. Len(history') = m + 1
    BY <1>7
  <2> QED BY <1>5, <2>3, <2>5, <2>6, <2>7 DEF ChainIsLegal
<1>13. ReasonsMatch'
  BY <1>2, <1>5 DEF ReasonsMatch
<1>14. Closer' = turn
  BY <1>1, <1>7 DEF Closer, move
<1>15. CloserIsLast'
  <2>1. \A j \in alive : Waits(n, turn', j) <= Waits(n, turn', turn)
    BY <1>3, <1>5, <1>8, PasserIsLast
  <2> QED BY <1>5, <1>14, <2>1 DEF CloserIsLast
<1>16. CloserIsNeverStuck'
  <2>1. outReason[turn] = "None"
    BY <1>2, <1>8 DEF ReasonsMatch, TypeOK
  <2> QED BY <1>5, <1>14, <2>1 DEF CloserIsNeverStuck, Closer
<1> QED BY <1>10, <1>11, <1>12, <1>13, <1>15, <1>16 DEF Inv

\* A chain that is left alone stays as it is.
LEMMA SameWords ==
    ASSUME ChainIsLegal, UNCHANGED words
    PROVE  /\ ChainIsLegal'
           /\ HasLegalMove' <=> HasLegalMove
           /\ Closer' = Closer
BY DEF ChainIsLegal, WordBefore, words, HasLegalMove, LegalMoves, WordsStartingWith, Closer

\* The player of the last word has a seat.
LEMMA CloserIsSeat ==
    ASSUME TypeOK, history # <<>>
    PROVE  Closer \in Seats
<1> DEFINE Moves == [player : Seats, word : Word, points : Nat]
<1>1. history \in Seq(Moves)
  BY DEF TypeOK
<1>2. \A m \in Moves : m.player \in Seats
  OBVIOUS
<1> HIDE DEF Moves
<1>3. Len(history) \in 1 .. Len(history)
  BY <1>1, EmptySeq
<1>4. history[Len(history)] \in Moves
  BY <1>1, <1>3, ElementOfSeq
<1> QED BY <1>2, <1>4 DEF Closer

\* A lost turn keeps Inv, provided a player with a word to play is not said to
\* have had none.
LEMMA LoseTurnInv ==
    ASSUME Inv, ~over, NEW reason \in EndReason \ {"None"}, LoseTurn(reason),
           HasLegalMove => reason # "NoLegalMove",
           UNCHANGED words, verdict' \in RejectReason \cup {"None"}
    PROVE  Inv'
<1> DEFINE n == Len(players)
<1>1. /\ TypeOK /\ TurnIsAlive /\ ChainIsLegal /\ ReasonsMatch
      /\ CloserIsLast /\ CloserIsNeverStuck
  BY DEF Inv
<1>2. /\ players' = players
      /\ alive' = alive \ LostSeats
      /\ alive' \subseteq Seats
      /\ outAt' \in [Seats -> 0 .. n]
      /\ outReason' \in [Seats -> EndReason]
      /\ turn' \in Seats
      /\ turn' = NextAlive(n, turn, alive')
      /\ over' \in BOOLEAN
      /\ winner' \in Player \cup {NoPlayer}
      /\ TurnIsAlive'
      /\ ReasonsMatch'
      /\ \A i \in Seats \ LostSeats : outReason'[i] = outReason[i]
      /\ left' = IF over' THEN left ELSE TurnLimit
      /\ ~HasLegalMove => over'
  BY <1>1, LoseTurnFacts
<1>3. /\ LostSeats \in SUBSET alive
      /\ turn \in LostSeats
      /\ alive \ LostSeats # {}
      /\ ~HasLegalMove => alive \ LostSeats = {LastAlive(n, turn, alive)}
  BY <1>1, LostSeatsFacts
<1>4. n \in Nat /\ Seats = 1 .. n /\ turn \in 1 .. n /\ alive \in SUBSET (1 .. n)
  BY <1>1, SeatsFacts DEF TypeOK
<1>5. Seats' = Seats /\ Len(players') = n
  BY <1>2 DEF Seats
<1>6. /\ opening' = opening /\ used' = used /\ current' = current
      /\ history' = history /\ scores' = scores
  BY DEF words
<1>7. TypeOK'
  <2>1. left' \in -1 .. TurnLimit
    BY <1>1, <1>2, ClockAssumption DEF TypeOK
  <2> QED BY <1>1, <1>2, <1>5, <1>6, <2>1 DEF TypeOK
<1>8. ChainIsLegal' /\ Closer' = Closer
  BY <1>1, SameWords
<1>9. CloserIsLast'
  <2> SUFFICES ASSUME history # <<>>, ~over', Closer \in alive'
               PROVE  \A j \in alive' : Waits(n, turn', j) <= Waits(n, turn', Closer)
    BY <1>5, <1>6, <1>8, <1>2 DEF CloserIsLast
  <2>1. Closer \in alive
    BY <1>2
  <2>2. \A j \in alive : Waits(n, turn, j) <= Waits(n, turn, Closer)
    BY <1>1, <2>1 DEF CloserIsLast
  <2>3. alive' \in SUBSET (alive \ {turn})
    BY <1>2, <1>3
  <2> QED BY <1>2, <1>4, <2>2, <2>3, LastStaysLast
<1>10. CloserIsNeverStuck'
  <2> SUFFICES ASSUME history # <<>>
               PROVE  outReason'[Closer] # "NoLegalMove"
    BY <1>6, <1>8 DEF CloserIsNeverStuck, Closer
  <2>1. outReason[Closer] # "NoLegalMove"
    BY <1>1 DEF CloserIsNeverStuck, Closer
  <2>2. Closer \in Seats
    BY <1>1, CloserIsSeat
  <2>3. CASE Closer \notin LostSeats
    BY <1>2, <2>1, <2>2, <2>3
  <2>4. CASE Closer \in LostSeats /\ HasLegalMove
    <3>1. Closer = turn /\ LostSeats = {turn}
      BY <2>4 DEF LostSeats
    <3>2. outReason'[turn] = reason
      BY <2>2, <2>4, <3>1 DEF LoseTurn, Eliminate
    <3> QED BY <2>4, <3>1, <3>2
  <2>5. CASE Closer \in LostSeats /\ ~HasLegalMove
    <3> DEFINE last == LastAlive(n, turn, alive)
    <3>1. Closer \in alive /\ last \in alive /\ Closer # last
      BY <1>3, <2>5
    <3>2. Waits(n, turn, last) <= Waits(n, turn, Closer)
      BY <1>1, <3>1 DEF CloserIsLast
    <3>3. Waits(n, turn, Closer) <= Waits(n, turn, last)
      BY <1>4, <3>1, LastAliveFacts
    <3>4. Waits(n, turn, last) \in Int /\ Waits(n, turn, Closer) \in Int
      <4>1. \A k \in 1 .. n : Waits(n, turn, k) \in 0 .. n - 1
        BY <1>4, WaitsFacts
      <4> HIDE DEF last
      <4> QED BY <1>4, <3>1, <4>1
    <3> HIDE DEF last
    <3>5. Waits(n, turn, last) = Waits(n, turn, Closer)
      BY <3>2, <3>3, <3>4
    <3> QED BY <1>4, <3>1, <3>5, WaitsFacts
  <2> QED BY <2>3, <2>4, <2>5
<1> QED BY <1>2, <1>7, <1>8, <1>9, <1>10 DEF Inv

\* A turn that expires keeps Inv, whoever calls for it.
LEMMA ExpireInv ==
    ASSUME Inv, ~over, expire, verdict' \in RejectReason \cup {"None"}
    PROVE  Inv'
<1> DEFINE reason == IF HasLegalMove THEN "Timeout" ELSE "NoLegalMove"
<1>1. reason \in EndReason \ {"None"} /\ (HasLegalMove => reason # "NoLegalMove")
  BY DEF EndReason
<1>2. LoseTurn(reason) /\ UNCHANGED words
  BY DEF expire
<1> HIDE DEF reason
<1> QED BY <1>1, <1>2, LoseTurnInv

\* So does somebody leaving, at their turn or from behind.
LEMMA ResignInv ==
    ASSUME Inv, NEW i \in Seats, Resign(i)
    PROVE  Inv'
<1>1. ~over /\ i \in alive /\ verdict' = "None" /\ UNCHANGED words
  BY DEF Resign
<1>2. CASE i = turn
  <2>1. LoseTurn("Resigned")
    BY <1>2 DEF Resign
  <2> QED BY <1>1, <2>1, LoseTurnInv DEF EndReason
<1>3. CASE i # turn
  <2> DEFINE why == [j \in {i} |-> "Resigned"]
  <2>1. Eliminate({i}, why) /\ left' = left
    BY <1>3 DEF Resign
  <2>2. /\ TypeOK /\ TurnIsAlive /\ ChainIsLegal /\ ReasonsMatch
        /\ CloserIsLast /\ CloserIsNeverStuck
    BY DEF Inv
  <2>3. {i} \in SUBSET alive /\ alive \ {i} # {}
    BY <1>1, <1>3, <2>2 DEF TurnIsAlive
  <2>4. \A j \in {i} : why[j] \in EndReason \ {"None"}
    BY DEF EndReason
  <2>5. outReason'[i] = "Resigned"
    BY <2>1 DEF Eliminate
  <2> HIDE DEF why
  <2>6. /\ players' = players
        /\ alive' = alive \ {i}
        /\ alive' \subseteq Seats
        /\ outAt' \in [Seats -> 0 .. Len(players)]
        /\ outReason' \in [Seats -> EndReason]
        /\ turn' \in Seats
        /\ turn' = IF turn \in {i} THEN NextAlive(Len(players), turn, alive') ELSE turn
        /\ over' \in BOOLEAN
        /\ winner' \in Player \cup {NoPlayer}
        /\ TurnIsAlive'
        /\ ReasonsMatch'
        /\ \A j \in Seats \ {i} : outReason'[j] = outReason[j]
    BY <1>1, <2>1, <2>2, <2>3, <2>4, EliminateFacts
  <2>7. turn' = turn /\ Seats' = Seats
    BY <1>3, <2>6 DEF Seats
  <2>8. /\ opening' = opening /\ used' = used /\ current' = current
        /\ history' = history /\ scores' = scores
    BY <1>1 DEF words
  <2>9. TypeOK'
    BY <1>1, <2>1, <2>2, <2>6, <2>7, <2>8 DEF TypeOK
  <2>10. ChainIsLegal' /\ Closer' = Closer
    BY <1>1, <2>2, SameWords
  <2>11. CloserIsLast'
    BY <1>1, <2>2, <2>6, <2>7, <2>8, <2>10 DEF CloserIsLast
  <2>12. CloserIsNeverStuck'
    <3>1. history # <<>> => Closer \in Seats
      BY <2>2, CloserIsSeat
    <3> QED BY <2>2, <2>5, <2>6, <2>8, <2>10, <3>1 DEF CloserIsNeverStuck, Closer
  <2> QED BY <2>6, <2>9, <2>10, <2>11, <2>12 DEF Inv
<1> QED BY <1>2, <1>3

\* A step that leaves the table and the words alone keeps Inv.
LEMMA QuietInv ==
    ASSUME Inv, UNCHANGED <<table, words>>, left' \in -1 .. TurnLimit,
           verdict' \in RejectReason \cup {"None"}
    PROVE  Inv'
<1>1. /\ players' = players /\ alive' = alive /\ outAt' = outAt /\ outReason' = outReason
      /\ turn' = turn /\ over' = over /\ winner' = winner /\ history' = history
      /\ opening' = opening /\ used' = used /\ current' = current /\ scores' = scores
  BY DEF table, words
<1>2. TypeOK' /\ TurnIsAlive' /\ ReasonsMatch'
  BY <1>1 DEF Inv, TypeOK, TurnIsAlive, ReasonsMatch, Seats
<1>3. ChainIsLegal' /\ Closer' = Closer
  BY SameWords DEF Inv
<1>4. CloserIsLast' /\ CloserIsNeverStuck'
  BY <1>1, <1>3 DEF Inv, CloserIsLast, CloserIsNeverStuck, Closer
<1> QED BY <1>2, <1>3, <1>4 DEF Inv

\* Every step keeps Inv.
LEMMA NextInv == Inv /\ [Next]_vars => Inv'
<1> SUFFICES ASSUME Inv, [Next]_vars
             PROVE  Inv'
  OBVIOUS
<1>0. left \in -1 .. TurnLimit /\ verdict \in RejectReason \cup {"None"} /\ TurnLimit \in Nat
  BY ClockAssumption DEF Inv, TypeOK
<1>1. ASSUME NEW i \in Seats, NEW t \in Typed, Play(i, t)
      PROVE  Inv'
  BY <1>1, PlayInv
<1>2. ASSUME NEW i \in Seats, NEW t \in Typed, PlayLate(i, t)
      PROVE  Inv'
  <2>1. ~over /\ expire /\ verdict' = "Timeout"
    BY <1>2, JudgeLate DEF PlayLate
  <2> QED BY <2>1, ExpireInv DEF RejectReason
<1>3. ASSUME NEW i \in Seats, NEW t \in Typed, Refuse(i, t)
      PROVE  Inv'
  <2>1. verdict' \in RejectReason \cup {"None"}
    BY <1>3 DEF Refuse, Judge, RejectReason
  <2>2. UNCHANGED <<table, words>> /\ left' = left
    BY <1>3 DEF Refuse
  <2> QED BY <1>0, <2>1, <2>2, QuietInv
<1>4. CASE Timeout
  BY <1>4, ExpireInv DEF Timeout
<1>5. CASE NoMove
  BY <1>5, ExpireInv DEF NoMove
<1>6. ASSUME NEW i \in Seats, Resign(i)
      PROVE  Inv'
  BY <1>6, ResignInv
<1>7. CASE Tick
  <2>1. left' \in -1 .. TurnLimit /\ UNCHANGED <<table, words>> /\ verdict' = verdict
    BY <1>0, <1>7 DEF Tick
  <2> QED BY <1>0, <2>1, QuietInv
<1>8. CASE UNCHANGED vars
  <2>1. UNCHANGED <<table, words>> /\ left' = left /\ verdict' = verdict
    BY <1>8 DEF vars
  <2> QED BY <1>0, <2>1, QuietInv
<1> QED BY <1>1, <1>2, <1>3, <1>4, <1>5, <1>6, <1>7, <1>8 DEF Next, Submit

----------------------------------------------------------------------------
(***************************************************************************)
(* Theorems.                                                               *)
(***************************************************************************)

\* Every reachable state of the engine satisfies Inv.
THEOREM EngineInvariant == Spec => []Inv
<1> QED BY InitInv, NextInv, PTL DEF Spec

\* The fields of the engine keep their types.
THEOREM EngineTypeOK == Spec => []TypeOK
<1>1. Inv => TypeOK
  BY DEF Inv
<1> QED BY <1>1, EngineInvariant, PTL

\* The turn is always with somebody still in the game, the game is over exactly
\* when one player is left, and that player, whose turn it is, is the winner.
THEOREM EngineTurnIsAlive == Spec => []TurnIsAlive
<1>1. Inv => TurnIsAlive
  BY DEF Inv
<1> QED BY <1>1, EngineInvariant, PTL

\* The words played are one chain from the opening, none of them played twice.
THEOREM EngineChainIsLegal == Spec => []ChainIsLegal
<1>1. Inv => ChainIsLegal
  BY DEF Inv
<1> QED BY <1>1, EngineInvariant, PTL

\* Nobody goes out for want of a word at a position they closed themselves.
THEOREM EngineCloserIsNeverStuck == Spec => []CloserIsNeverStuck
<1>1. Inv => CloserIsNeverStuck
  BY DEF Inv
<1> QED BY <1>1, EngineInvariant, PTL

\* An elimination that moves the turn hands it to a player with a word to play and
\* a whole turn to play it in.
THEOREM EngineFreshTurnIsPlayable == Spec => FreshTurnIsPlayable
<1> DEFINE A == (turn' # turn /\ alive' # alive /\ ~over') =>
                    (HasLegalMove' /\ left' = TurnLimit)
<1>1. ASSUME Inv, [Next]_vars
      PROVE  A
  <2>0. TypeOK /\ TurnIsAlive /\ ReasonsMatch /\ ChainIsLegal
    BY <1>1 DEF Inv
  <2>1. ASSUME ~over, NEW reason \in EndReason \ {"None"}, LoseTurn(reason), UNCHANGED words
        PROVE  A
    <3>1. (~HasLegalMove => over') /\ left' = IF over' THEN left ELSE TurnLimit
      BY <2>0, <2>1, LoseTurnFacts
    <3>2. HasLegalMove' <=> HasLegalMove
      BY <2>0, <2>1, SameWords
    <3> QED BY <3>1, <3>2
  <2>2. ASSUME ~over, expire
        PROVE  A
    <3> DEFINE reason == IF HasLegalMove THEN "Timeout" ELSE "NoLegalMove"
    <3>1. reason \in EndReason \ {"None"} /\ LoseTurn(reason) /\ UNCHANGED words
      BY <2>2 DEF EndReason, expire
    <3> HIDE DEF reason
    <3> QED BY <2>1, <2>2, <3>1
  <2>3. ASSUME NEW i \in Seats, NEW t \in Typed, Submit(i, t)
        PROVE  A
    <3>1. CASE Play(i, t)
      BY <3>1 DEF Play
    <3>2. CASE PlayLate(i, t)
      BY <3>2, <2>2, JudgeLate DEF PlayLate
    <3>3. CASE Refuse(i, t)
      BY <3>3 DEF Refuse, table
    <3> QED BY <2>3, <3>1, <3>2, <3>3 DEF Submit
  <2>4. CASE Timeout
    BY <2>2, <2>4 DEF Timeout
  <2>5. CASE NoMove
    BY <2>2, <2>5 DEF NoMove
  <2>6. ASSUME NEW i \in Seats, Resign(i)
        PROVE  A
    <3>1. CASE i = turn
      BY <2>1, <2>6, <3>1 DEF Resign, EndReason
    <3>2. CASE i # turn
      <4>1. turn' = turn
        BY <2>6, <3>2 DEF Resign, Eliminate
      <4> QED BY <4>1
    <3> QED BY <3>1, <3>2
  <2>7. CASE Tick
    BY <2>7 DEF Tick, table
  <2>8. CASE UNCHANGED vars
    BY <2>8 DEF vars, table
  <2> QED BY <1>1, <2>3, <2>4, <2>5, <2>6, <2>7, <2>8 DEF Next
<1>2. [][A]_vars <=> FreshTurnIsPlayable
  BY DEF FreshTurnIsPlayable
<1> HIDE DEF A
<1>3. Inv /\ [Next]_vars => [A]_vars
  BY <1>1
<1> QED BY <1>2, <1>3, EngineInvariant, PTL DEF Spec

\* The clock goes up only for a new player to act.
THEOREM EngineClockIsNotExtended == Spec => ClockIsNotExtended
<1> DEFINE A == left' > left => turn' # turn
<1>1. ASSUME Inv, [Next]_vars
      PROVE  A
  <2>0. /\ TypeOK /\ TurnIsAlive /\ ReasonsMatch /\ ChainIsLegal
        /\ left \in Int
    BY <1>1 DEF Inv, TypeOK
  <2>1. ASSUME ~over, NEW reason \in EndReason \ {"None"}, LoseTurn(reason)
        PROVE  A
    <3>1. turn' # turn
      BY <2>0, <2>1, LoseTurnFacts
    <3> QED BY <3>1
  <2>2. ASSUME ~over, expire
        PROVE  A
    <3> DEFINE reason == IF HasLegalMove THEN "Timeout" ELSE "NoLegalMove"
    <3>1. reason \in EndReason \ {"None"} /\ LoseTurn(reason)
      BY <2>2 DEF EndReason, expire
    <3> HIDE DEF reason
    <3> QED BY <2>1, <2>2, <3>1
  <2>3. ASSUME left' = left
        PROVE  A
    BY <2>0, <2>3
  <2>4. ASSUME NEW i \in Seats, NEW t \in Typed, Submit(i, t)
        PROVE  A
    <3>1. CASE Play(i, t)
      <4>1. Judge(i, t) = "None" /\ turn' = NextAlive(Len(players), turn, alive)
        BY <3>1 DEF Play
      <4>2. alive \ {turn} # {}
        BY <2>0, <4>1, JudgePassed, SomebodyElse
      <4>3. /\ Len(players) \in Nat /\ turn \in 1 .. Len(players)
            /\ alive \in SUBSET (1 .. Len(players))
        BY <2>0, SeatsFacts DEF TypeOK
      <4>4. turn' # turn
        BY <4>1, <4>2, <4>3, NextAliveFacts
      <4> QED BY <4>4
    <3>2. CASE PlayLate(i, t)
      BY <3>2, <2>2, JudgeLate DEF PlayLate
    <3>3. CASE Refuse(i, t)
      BY <3>3, <2>3 DEF Refuse
    <3> QED BY <2>4, <3>1, <3>2, <3>3 DEF Submit
  <2>5. CASE Timeout
    BY <2>2, <2>5 DEF Timeout
  <2>6. CASE NoMove
    BY <2>2, <2>6 DEF NoMove
  <2>7. ASSUME NEW i \in Seats, Resign(i)
        PROVE  A
    <3>1. CASE i = turn
      BY <2>1, <2>7, <3>1 DEF Resign, EndReason
    <3>2. CASE i # turn
      BY <2>3, <2>7, <3>2 DEF Resign
    <3> QED BY <3>1, <3>2
  <2>8. CASE Tick
    BY <2>0, <2>8 DEF Tick
  <2>9. CASE UNCHANGED vars
    BY <2>3, <2>9 DEF vars
  <2> QED BY <1>1, <2>4, <2>5, <2>6, <2>7, <2>8, <2>9 DEF Next
<1>2. [][A]_vars <=> ClockIsNotExtended
  BY DEF ClockIsNotExtended
<1> HIDE DEF A
<1>3. Inv /\ [Next]_vars => [A]_vars
  BY <1>1
<1> QED BY <1>2, <1>3, EngineInvariant, PTL DEF Spec

----------------------------------------------------------------------------
(***************************************************************************)
(* The order of going out.  Every step either leaves who is out, and where *)
(* they stand, alone, or is one elimination; and the seats an elimination  *)
(* takes out fill the positions just above those already given.            *)
(***************************************************************************)
Standing == <<players, alive, outAt, outReason>>

\* Going out is final, and above everybody who went before.
Final ==
    \A i \in Seats \ alive :
        /\ outAt'[i] = outAt[i]
        /\ outReason'[i] = outReason[i]
        /\ \A j \in alive \ alive' : outAt'[j] > outAt[i]

\* A step of the engine is an elimination of seats in the game, or none.
LEMMA StepEliminates ==
    ASSUME Inv, [Next]_vars
    PROVE  UNCHANGED Standing \/ \E out \in SUBSET alive : \E why : Eliminate(out, why)
<1>0. TypeOK /\ TurnIsAlive
  BY DEF Inv
<1>1. ASSUME ~over, NEW reason, LoseTurn(reason)
      PROVE  \E out \in SUBSET alive : \E why : Eliminate(out, why)
  <2>1. LostSeats \in SUBSET alive
    BY <1>0, <1>1, LostSeatsFacts
  <2>2. Eliminate(LostSeats, [i \in LostSeats |-> IF i = turn THEN reason ELSE "NoLegalMove"])
    BY <1>1 DEF LoseTurn, LostSeats
  <2> QED BY <2>1, <2>2
<1>2. ASSUME ~over, expire
      PROVE  \E out \in SUBSET alive : \E why : Eliminate(out, why)
  BY <1>1, <1>2 DEF expire
<1>3. ASSUME NEW i \in Seats, NEW t \in Typed, Play(i, t)
      PROVE  UNCHANGED Standing
  BY <1>3 DEF Play, Standing
<1>4. ASSUME NEW i \in Seats, NEW t \in Typed, PlayLate(i, t)
      PROVE  \E out \in SUBSET alive : \E why : Eliminate(out, why)
  BY <1>2, <1>4, JudgeLate DEF PlayLate
<1>5. ASSUME NEW i \in Seats, NEW t \in Typed, Refuse(i, t)
      PROVE  UNCHANGED Standing
  BY <1>5 DEF Refuse, table, Standing
<1>6. CASE Timeout
  BY <1>2, <1>6 DEF Timeout
<1>7. CASE NoMove
  BY <1>2, <1>7 DEF NoMove
<1>8. ASSUME NEW i \in Seats, Resign(i)
      PROVE  \E out \in SUBSET alive : \E why : Eliminate(out, why)
  <2>1. ~over /\ i \in alive
    BY <1>8 DEF Resign
  <2>2. CASE i = turn
    BY <1>1, <1>8, <2>1, <2>2 DEF Resign
  <2>3. CASE i # turn
    <3>1. Eliminate({i}, [j \in {i} |-> "Resigned"])
      BY <1>8, <2>3 DEF Resign
    <3> QED BY <2>1, <3>1
  <2> QED BY <2>2, <2>3
<1>9. CASE Tick
  BY <1>9 DEF Tick, table, Standing
<1>10. CASE UNCHANGED vars
  BY <1>10 DEF vars, table, Standing
<1> QED BY <1>3, <1>4, <1>5, <1>6, <1>7, <1>8, <1>9, <1>10 DEF Next, Submit

\* An elimination fills the next positions, all of them, and moves nobody who has one.
LEMMA EliminatePlaces ==
    ASSUME TypeOK, TurnIsAlive, PlacingsAreComplete, ReasonsMatch',
           NEW out \in SUBSET alive, NEW why, Eliminate(out, why)
    PROVE  PlacingsAreComplete' /\ Final
<1> DEFINE n == Len(players)
           gone == Seats \ alive
           k == Cardinality(gone)
           m == Cardinality(out)
           P(i) == Place(n, turn, out, i)
<1>1. n \in Nat /\ Seats = 1 .. n /\ alive \in SUBSET (1 .. n) /\ turn \in 1 .. n
  BY SeatsFacts DEF TypeOK
<1>2. /\ IsFiniteSet(gone) /\ k \in Nat
      /\ IsFiniteSet(out) /\ m \in Nat
  BY <1>1, SeatSets
<1>3. /\ Seats' = Seats /\ alive' = alive \ out
      /\ outAt' = [i \in Seats |-> IF i \in out THEN k + P(i) ELSE outAt[i]]
      /\ outReason' = [i \in Seats |-> IF i \in out THEN why[i] ELSE outReason[i]]
  BY DEF Eliminate, Seats
<1>4. {P(i) : i \in out} = 1 .. m
  BY <1>1, PlacesFillUp
<1>5. {outAt[i] : i \in gone} = 1 .. k /\ \A i \in alive : outAt[i] = 0
  BY DEF PlacingsAreComplete
<1>6. Seats' \ alive' = gone \cup out /\ gone \cap out = {}
  BY <1>1, <1>3
<1>7. Cardinality(gone \cup out) = k + m
  <2>1. Cardinality(gone \cup out) = k + m - Cardinality({})
    BY <1>2, <1>6, FS_Union
  <2>2. Cardinality({}) = 0
    BY FS_EmptySet
  <2> QED BY <1>2, <2>1, <2>2
<1> HIDE DEF n, k, m, P
<1>8. \A i \in gone : outAt'[i] = outAt[i] /\ outAt[i] \in 1 .. k
  <2>1. \A i \in gone : i \in Seats /\ i \notin out
    BY <1>6
  <2> QED BY <1>3, <1>5, <2>1
<1>9. \A i \in out : outAt'[i] = k + P(i) /\ P(i) \in 1 .. m
  BY <1>1, <1>3, <1>4
<1>10. {outAt'[i] : i \in gone \cup out} = 1 .. k + m
  <2>1. ASSUME NEW i \in gone \cup out
        PROVE  outAt'[i] \in 1 .. k + m
    <3>1. CASE i \in gone
      BY <1>2, <1>8, <3>1
    <3>2. CASE i \in out
      BY <1>2, <1>9, <3>2
    <3> QED BY <2>1, <3>1, <3>2
  <2>2. ASSUME NEW p \in 1 .. k + m
        PROVE  \E i \in gone \cup out : outAt'[i] = p
    <3>1. CASE p <= k
      <4>1. p \in 1 .. k
        BY <1>2, <3>1
      <4>2. p \in {outAt[i] : i \in gone}
        BY <1>5, <4>1
      <4>3. PICK i \in gone : outAt[i] = p
        BY <4>2
      <4> QED BY <1>8, <4>3
    <3>2. CASE p > k
      <4>1. p - k \in 1 .. m
        BY <1>2, <3>2
      <4>2. PICK i \in out : P(i) = p - k
        BY <1>4, <4>1
      <4>3. outAt'[i] = p
        BY <1>2, <1>9, <4>2
      <4> QED BY <4>3
    <3> QED BY <1>2, <3>1, <3>2
  <2> QED BY <2>1, <2>2
<1>11. \A i \in alive' : outAt'[i] = 0
  BY <1>1, <1>3, <1>5
<1>12. PlacingsAreComplete'
  BY <1>6, <1>7, <1>10, <1>11 DEF PlacingsAreComplete, ReasonsMatch
<1>13. Final
  <2> SUFFICES ASSUME NEW i \in gone
               PROVE  /\ outAt'[i] = outAt[i]
                      /\ outReason'[i] = outReason[i]
                      /\ \A j \in alive \ alive' : outAt'[j] > outAt[i]
    BY DEF Final
  <2>1. i \in Seats /\ i \notin out
    BY <1>6
  <2>2. outAt'[i] = outAt[i] /\ outReason'[i] = outReason[i]
    BY <1>3, <2>1
  <2>3. ASSUME NEW j \in alive \ alive'
        PROVE  outAt'[j] > outAt[i]
    <3>1. j \in out
      BY <1>3
    <3>2. outAt'[j] = k + P(j) /\ P(j) \in 1 .. m /\ outAt[i] \in 1 .. k
      BY <1>8, <1>9, <3>1
    <3> QED BY <1>2, <3>2
  <2> QED BY <2>2, <2>3
<1> QED BY <1>12, <1>13

\* A step keeps the placings complete, and those given as they are.
LEMMA PlacingsKeep ==
    ASSUME Inv, Inv', PlacingsAreComplete, [Next]_vars
    PROVE  PlacingsAreComplete' /\ Final
<1>1. CASE UNCHANGED Standing
  BY <1>1 DEF Standing, PlacingsAreComplete, Final, Seats
<1>2. ASSUME NEW out \in SUBSET alive, NEW why, Eliminate(out, why)
      PROVE  PlacingsAreComplete' /\ Final
  BY <1>2, EliminatePlaces DEF Inv
<1> QED BY <1>1, <1>2, StepEliminates

\* At any time the seats that are out, and no others, hold the positions from one on,
\* each one once, whoever went out with whom and in which order.
THEOREM EnginePlacingsAreComplete == Spec => []PlacingsAreComplete
<1>1. Init => PlacingsAreComplete
  <2> SUFFICES ASSUME NEW order \in Tables, NEW word \in Word, New(order, word)
               PROVE  PlacingsAreComplete
    BY DEF Init
  <2>1. /\ alive = Seats
        /\ outAt = [i \in Seats |-> 0]
        /\ outReason = [i \in Seats |-> "None"]
    BY DEF New, Seats
  <2>2. Seats \ alive = {} /\ Cardinality({}) = 0
    BY <2>1, FS_EmptySet
  <2>3. {outAt[i] : i \in Seats \ alive} = 1 .. Cardinality(Seats \ alive)
    BY <2>2
  <2> QED BY <2>1, <2>3 DEF PlacingsAreComplete
<1>2. PlacingsAreComplete /\ Inv /\ Inv' /\ [Next]_vars => PlacingsAreComplete'
  BY PlacingsKeep
<1> QED BY <1>1, <1>2, EngineInvariant, PTL DEF Spec

\* Whoever goes out later stands higher, and nobody's place or reason is ever changed.
THEOREM EngineLaterOutStandsHigher == Spec => LaterOutStandsHigher
<1>1. Inv /\ Inv' /\ PlacingsAreComplete /\ [Next]_vars => [Final]_vars
  BY PlacingsKeep
<1>2. [][Final]_vars <=> LaterOutStandsHigher
  BY DEF LaterOutStandsHigher, Final
<1> HIDE DEF Final
<1> QED BY <1>1, <1>2, EngineInvariant, EnginePlacingsAreComplete, PTL DEF Spec

----------------------------------------------------------------------------
(***************************************************************************)
(* Sums over finite sets.  The sum of the community modules adds whatever  *)
(* member CHOOSE takes first, by a function on all subsets; that there is  *)
(* such a function, and that the order does not matter, is shown by the    *)
(* least size of a subset for which it would not be so.                    *)
(***************************************************************************)
\* The member of a set that comes first in a sum over it.
First(s) == CHOOSE x \in s : TRUE

\* F gives each subset of D the sum of g over it.
IsSum(F, g, D) ==
    F = [s \in SUBSET D |-> IF s = {} THEN 0 ELSE g[First(s)] + F[s \ {First(s)}]]

Sum(g, D) == (CHOOSE F : IsSum(F, g, D))[D]

\* One member less.
LEMMA FirstLeaves ==
    ASSUME NEW D, IsFiniteSet(D), NEW s \in SUBSET D, NEW x \in s
    PROVE  /\ s \ {x} \in SUBSET D
           /\ Cardinality(s) \in Nat \ {0}
           /\ Cardinality(s \ {x}) = Cardinality(s) - 1
           /\ First(s) \in s
<1>1. IsFiniteSet(s)
  BY FS_Subset
<1>2. Cardinality(s) \in Nat /\ Cardinality(s \ {x}) \in Nat /\ Cardinality(s \ {x}) = Cardinality(s) - 1
  BY <1>1, FS_RemoveElement, FS_CardinalityType
<1> QED BY <1>2 DEF First

\* There is such a function, built up by the size of the subsets.
LEMMA SumExists ==
    ASSUME NEW D, IsFiniteSet(D), NEW g \in [D -> Nat]
    PROVE  \E F \in [SUBSET D -> Nat] : IsSum(F, g, D)
<1> DEFINE Small(n) == {s \in SUBSET D : Cardinality(s) <= n}
           Upto(F, n) == F = [s \in Small(n) |-> IF s = {} THEN 0 ELSE g[First(s)] + F[s \ {First(s)}]]
           Fails == {n \in Nat : ~ \E F \in [Small(n) -> Nat] : Upto(F, n)}
<1>1. \A s \in SUBSET D : s # {} => /\ s \ {First(s)} \in SUBSET D /\ First(s) \in D
                                   /\ Cardinality(s) \in Nat \ {0}
                                   /\ Cardinality(s \ {First(s)}) = Cardinality(s) - 1
  <2> SUFFICES ASSUME NEW s \in SUBSET D, s # {}
               PROVE  /\ s \ {First(s)} \in SUBSET D /\ First(s) \in D
                      /\ Cardinality(s) \in Nat \ {0}
                      /\ Cardinality(s \ {First(s)}) = Cardinality(s) - 1
    OBVIOUS
  <2>1. First(s) \in s
    BY DEF First
  <2> QED BY <2>1, FirstLeaves
<1>2. Fails = {}
  <2> SUFFICES ASSUME Fails # {} PROVE FALSE
    OBVIOUS
  <2>1. PICK m \in Fails : \A k \in Fails : m <= k
    <3>1. Fails \subseteq Nat
      OBVIOUS
    <3> HIDE DEF Fails
    <3> QED BY <3>1, LeastNatural
  <2>2. m \in Nat /\ ~ \E F \in [Small(m) -> Nat] : Upto(F, m)
    BY <2>1
  <2>3. CASE m = 0
    <3>1. \A s \in Small(0) : s = {}
      <4> SUFFICES ASSUME NEW s \in SUBSET D, Cardinality(s) <= 0, s # {} PROVE FALSE
        OBVIOUS
      <4>1. Cardinality(s) \in Nat \ {0}
        BY <1>1
      <4> QED BY <4>1
    <3>2. [s \in Small(0) |-> 0] \in [Small(0) -> Nat] /\ Upto([s \in Small(0) |-> 0], 0)
      BY <3>1
    <3> QED BY <2>2, <2>3, <3>2
  <2>4. CASE m # 0
    <3>1. m - 1 \in Nat /\ m - 1 \notin Fails
      <4>1. m - 1 \in Nat /\ ~ (m <= m - 1)
        BY <2>2, <2>4
      <4> HIDE DEF Fails
      <4> QED BY <2>1, <4>1
    <3>2. PICK F \in [Small(m - 1) -> Nat] : Upto(F, m - 1)
      BY <3>1
    <3> DEFINE G == [s \in Small(m) |-> IF s = {} THEN 0 ELSE g[First(s)] + F[s \ {First(s)}]]
    <3>3. \A s \in Small(m) : s # {} => s \ {First(s)} \in Small(m - 1) /\ First(s) \in D
      BY <1>1, <2>2
    <3>4. G \in [Small(m) -> Nat]
      <4>1. \A s \in Small(m) : s # {} => g[First(s)] + F[s \ {First(s)}] \in Nat
        BY <3>3
      <4> QED BY <4>1
    <3>5. \A t \in Small(m - 1) : G[t] = F[t]
      <4> SUFFICES ASSUME NEW t \in Small(m - 1) PROVE G[t] = F[t]
        OBVIOUS
      <4>1. t \in Small(m)
        <5>1. Cardinality(t) \in Nat
          BY FS_Subset, FS_CardinalityType
        <5> QED BY <2>2, <5>1
      <4>2. F[t] = IF t = {} THEN 0 ELSE g[First(t)] + F[t \ {First(t)}]
        BY <3>2
      <4> QED BY <4>1, <4>2
    <3>6. Upto(G, m)
      <4>1. \A s \in Small(m) : s # {} => G[s \ {First(s)}] = F[s \ {First(s)}]
        BY <3>3, <3>5
      <4> HIDE DEF Small
      <4> QED BY <4>1
    <3> QED BY <2>2, <3>4, <3>6
  <2> QED BY <2>3, <2>4
<1>3. Cardinality(D) \in Nat /\ Small(Cardinality(D)) = SUBSET D
  <2>1. \A s \in SUBSET D : Cardinality(s) <= Cardinality(D)
    BY FS_Subset
  <2> QED BY <2>1, FS_CardinalityType
<1>4. PICK F \in [Small(Cardinality(D)) -> Nat] : Upto(F, Cardinality(D))
  BY <1>2, <1>3
<1> QED BY <1>3, <1>4 DEF IsSum

\* What it gives a subset depends on the subset only.
LEMMA SumsAgree ==
    ASSUME NEW D, IsFiniteSet(D), NEW g, NEW F, IsSum(F, g, D),
           NEW E, NEW h, NEW G, IsSum(G, h, E),
           NEW U \in SUBSET D, U \in SUBSET E, \A x \in U : g[x] = h[x]
    PROVE  F[U] = G[U]
<1> DEFINE Wrong == {s \in SUBSET U : F[s] # G[s]}
           Sizes == {Cardinality(s) : s \in Wrong}
<1> SUFFICES ASSUME U \in Wrong PROVE FALSE
  OBVIOUS
<1>1. \A s \in SUBSET U : Cardinality(s) \in Nat
  BY FS_Subset, FS_CardinalityType
<1>2. PICK m \in Sizes : \A k \in Sizes : m <= k
  <2>1. Sizes \subseteq Nat /\ Sizes # {}
    BY <1>1
  <2> HIDE DEF Sizes
  <2> QED BY <2>1, LeastNatural
<1>3. PICK s \in Wrong : Cardinality(s) = m
  BY <1>2
<1>4. s \in SUBSET D /\ s \in SUBSET E /\ s \in SUBSET U
  OBVIOUS
<1>5. /\ F[s] = IF s = {} THEN 0 ELSE g[First(s)] + F[s \ {First(s)}]
      /\ G[s] = IF s = {} THEN 0 ELSE h[First(s)] + G[s \ {First(s)}]
  BY <1>4 DEF IsSum
<1>6. s # {}
  BY <1>5
<1>7. First(s) \in s
  BY <1>6 DEF First
<1>8. Cardinality(s \ {First(s)}) = Cardinality(s) - 1 /\ Cardinality(s) \in Nat
  BY <1>4, <1>7, FirstLeaves
<1>9. s \ {First(s)} \in SUBSET U /\ s \ {First(s)} \notin Wrong
  <2>1. s \ {First(s)} \in Wrong => Cardinality(s \ {First(s)}) \in Sizes
    OBVIOUS
  <2> HIDE DEF Sizes, Wrong
  <2> QED BY <1>2, <1>3, <1>4, <1>8, <2>1
<1>10. F[s \ {First(s)}] = G[s \ {First(s)}]
  BY <1>9
<1> QED BY <1>4, <1>5, <1>6, <1>7, <1>10

\* The order does not matter: any member may come first.
LEMMA SumTakesAny ==
    ASSUME NEW D, IsFiniteSet(D), NEW g \in [D -> Nat],
           NEW F \in [SUBSET D -> Nat], IsSum(F, g, D),
           NEW S \in SUBSET D, NEW a \in S
    PROVE  F[S] = g[a] + F[S \ {a}]
<1> DEFINE Wrong == {s \in SUBSET D : \E x \in s : F[s] # g[x] + F[s \ {x}]}
           Sizes == {Cardinality(s) : s \in Wrong}
<1> SUFFICES ASSUME S \in Wrong PROVE FALSE
  OBVIOUS
<1>1. \A s \in SUBSET D : Cardinality(s) \in Nat
  BY FS_Subset, FS_CardinalityType
<1>2. PICK m \in Sizes : \A k \in Sizes : m <= k
  <2>1. Sizes \subseteq Nat /\ Sizes # {}
    BY <1>1
  <2> HIDE DEF Sizes
  <2> QED BY <2>1, LeastNatural
<1>3. PICK s \in Wrong : Cardinality(s) = m
  BY <1>2
<1>4. PICK x \in s : F[s] # g[x] + F[s \ {x}]
  OBVIOUS
<1> DEFINE y == First(s)
<1>5. s \in SUBSET D /\ y \in s /\ x \in D /\ y \in D
  BY <1>4 DEF First
<1>6. \A t \in SUBSET D : Cardinality(t) < m => \A z \in t : F[t] = g[z] + F[t \ {z}]
  <2> SUFFICES ASSUME NEW t \in SUBSET D, Cardinality(t) < m PROVE t \notin Wrong
    OBVIOUS
  <2>1. t \in Wrong => Cardinality(t) \in Sizes
    OBVIOUS
  <2>2. Cardinality(t) \in Nat /\ m \in Nat
    BY <1>1, <1>3
  <2> HIDE DEF Sizes, Wrong
  <2> QED BY <1>2, <2>1, <2>2
<1>7. F[s] = g[y] + F[s \ {y}]
  BY <1>5 DEF IsSum
<1>8. x # y
  BY <1>4, <1>7
<1>9. /\ s \ {x} \in SUBSET D /\ Cardinality(s \ {x}) < m
      /\ s \ {y} \in SUBSET D /\ Cardinality(s \ {y}) < m
  BY <1>3, <1>5, FirstLeaves
<1> HIDE DEF y, Wrong, Sizes
<1>10. F[s \ {y}] = g[x] + F[(s \ {y}) \ {x}]
  BY <1>5, <1>6, <1>8, <1>9
<1>11. F[s \ {x}] = g[y] + F[(s \ {x}) \ {y}]
  BY <1>5, <1>6, <1>8, <1>9
<1>12. (s \ {y}) \ {x} = (s \ {x}) \ {y}
  OBVIOUS
<1>13. /\ g[x] \in Nat /\ g[y] \in Nat
       /\ F[(s \ {x}) \ {y}] \in Nat /\ F[s \ {x}] \in Nat /\ F[s \ {y}] \in Nat
  BY <1>5
<1>14. F[s] = g[x] + F[s \ {x}]
  <2>1. F[s \ {y}] = g[x] + F[(s \ {x}) \ {y}]
    BY <1>10, <1>12
  <2>2. F[s] = g[y] + (g[x] + F[(s \ {x}) \ {y}])
    BY <1>7, <2>1
  <2> QED BY <1>11, <1>13, <2>2
<1> QED BY <1>4, <1>14

\* A sum is that of a function of all subsets of a larger set.
LEMMA SumIs ==
    ASSUME NEW D, IsFiniteSet(D), NEW g \in [D -> Nat],
           NEW F, IsSum(F, g, D), NEW S \in SUBSET D,
           NEW h \in [S -> Nat], \A x \in S : h[x] = g[x]
    PROVE  Sum(h, S) = F[S]
<1>1. IsFiniteSet(S)
  BY FS_Subset
<1>2. \E G : IsSum(G, h, S)
  BY <1>1, SumExists
<1>3. IsSum(CHOOSE G : IsSum(G, h, S), h, S)
  BY <1>2
<1> DEFINE G == CHOOSE G : IsSum(G, h, S)
<1>4. IsSum(G, h, S)
  BY <1>3
<1> HIDE DEF G
<1>5. F[S] = G[S]
  BY <1>4, SumsAgree
<1> QED BY <1>5 DEF Sum, G

\* One more member adds what it has.
LEMMA SumAdds ==
    ASSUME NEW S, IsFiniteSet(S), NEW e, e \notin S,
           NEW h \in [S -> Nat], NEW k \in [S \cup {e} -> Nat], \A x \in S : k[x] = h[x]
    PROVE  Sum(k, S \cup {e}) = Sum(h, S) + k[e]
<1> DEFINE D == S \cup {e}
<1>1. IsFiniteSet(D)
  BY FS_AddElement
<1>2. PICK F \in [SUBSET D -> Nat] : IsSum(F, k, D)
  BY <1>1, SumExists
<1>3. D \in SUBSET D /\ S \in SUBSET D /\ D \ {e} = S /\ e \in D
  OBVIOUS
<1> HIDE DEF D
<1>4. Sum(k, D) = F[D] /\ Sum(h, S) = F[S]
  BY <1>1, <1>2, <1>3, SumIs DEF D
<1>5. F[D] = k[e] + F[S]
  <2>1. k \in [D -> Nat]
    BY DEF D
  <2> QED BY <1>1, <1>2, <1>3, <2>1, SumTakesAny
<1>6. k[e] \in Nat /\ F[S] \in Nat
  BY <1>2, <1>3 DEF D
<1> QED BY <1>4, <1>5, <1>6 DEF D
----------------------------------------------------------------------------
(***************************************************************************)
(* The scores.                                                             *)
(***************************************************************************)
Mine(i) == {k \in DOMAIN history : history[k].player = i}
Earned(i) == Sum([k \in Mine(i) |-> history[k].points], Mine(i))

\* What ScoresMatchMoves adds up.
LEMMA EarnedIs ==
    ASSUME NEW i
    PROVE  Earned(i) = MapThenSumSet(LAMBDA k : history[k].points, Mine(i))
<1> DEFINE S == Mine(i)
           g == [k \in S |-> history[k].points]
           Adds(F) == F = [s \in SUBSET S |->
                             IF s = {} THEN 0
                             ELSE history[CHOOSE x \in s : TRUE].points
                                    + F[s \ {CHOOSE x \in s : TRUE}]]
<1> HIDE DEF S
<1>1. ASSUME NEW F
      PROVE  IsSum(F, g, S) <=> Adds(F)
  <2>1. \A s \in SUBSET S : s # {} => First(s) \in S
    BY DEF First
  <2>2. [s \in SUBSET S |-> IF s = {} THEN 0 ELSE g[First(s)] + F[s \ {First(s)}]]
          = [s \in SUBSET S |-> IF s = {} THEN 0
                                ELSE history[First(s)].points + F[s \ {First(s)}]]
    BY <2>1
  <2> QED BY <2>2 DEF IsSum, First
<1>2. (CHOOSE F : IsSum(F, g, S)) = (CHOOSE F : Adds(F))
  BY <1>1
<1> QED BY <1>2 DEF MapThenSumSet, MapThenFoldSet, Sum, Earned, S

\* The points of a move lie between the base and the cap.
PointsInRange == \A k \in DOMAIN history : history[k].points \in basePoints .. maxPointsPerWord

ScoresAdd == (\A i \in Seats : scores[i] = Earned(i)) /\ PointsInRange

\* ScoresMatchMoves, with the sum by name.
LEMMA ScoresAre == ScoresMatchMoves <=> ScoresAdd
BY EarnedIs DEF ScoresMatchMoves, ScoresAdd, PointsInRange, Mine

\* An accepted word adds its points to the score of its player, and to what the player's
\* moves add up to.
LEMMA PlayScores ==
    ASSUME Inv, ScoresAdd, NEW i \in Seats, NEW t \in Typed, Play(i, t)
    PROVE  ScoresAdd'
<1> DEFINE points == pointsFor(ChainLength, Syllables[t], left, TurnLimit, OutDegree(current))
           move == [player |-> i, word |-> Resolve[t], points |-> points]
           n == Len(history) + 1
           Moves == [player : Seats, word : Word, points : Nat]
<1>1. TypeOK /\ history \in Seq(Moves) /\ Len(history) \in Nat /\ DOMAIN history = 1 .. Len(history)
  BY DEF Inv, TypeOK
<1>2. points \in basePoints .. maxPointsPerWord
  <2>1. Syllables[t] >= MinSyllables /\ Syllables[t] \in Nat /\ ~IsExpired
    BY JudgePassed DEF Play
  <2>2. ChainLength \in Nat \ {0}
    BY <1>1 DEF ChainLength
  <2>3. left \in Int /\ TurnLimit \in Nat \ {0} /\ OutDegree(current) \in Nat
    BY <1>1, ClockAssumption, OutDegreeType DEF TypeOK
  <2> QED BY <2>1, <2>2, <2>3, PointsRange
<1>3. points \in Nat
  BY <1>2 DEF basePoints, maxPointsPerWord
<1>4. /\ history' = Append(history, move)
      /\ scores' = [scores EXCEPT ![i] = @ + points]
      /\ Seats' = Seats
  BY DEF Play, Seats
<1> HIDE DEF points
<1>5. move.player = i /\ move.points = points
  OBVIOUS
<1> HIDE DEF move, Moves
<1>6. /\ DOMAIN history' = 1 .. n
      /\ history'[n] = move
      /\ \A k \in DOMAIN history : history'[k] = history[k]
  BY <1>1, <1>4
<1>7. /\ DOMAIN history' = DOMAIN history \cup {n} /\ n \notin DOMAIN history
  BY <1>1, <1>6
<1>8. PointsInRange /\ \A j \in Seats : scores[j] = Earned(j)
  BY DEF ScoresAdd
<1>9. PointsInRange'
  BY <1>2, <1>5, <1>6, <1>7, <1>8 DEF PointsInRange
<1>10. ASSUME NEW j \in Seats
       PROVE  scores'[j] = Earned(j)'
  <2> DEFINE S == Mine(j)
             h == [k \in S |-> history[k].points]
             g == [k \in Mine(j)' |-> history'[k].points]
  <2>1. IsFiniteSet(S)
    <3>1. IsFiniteSet(1 .. Len(history)) /\ S \in SUBSET (1 .. Len(history))
      BY <1>1, FS_Interval DEF Mine
    <3> QED BY <3>1, FS_Subset
  <2>2. Mine(j)' = IF j = i THEN S \cup {n} ELSE S
    BY <1>5, <1>6, <1>7 DEF Mine
  <2>3. n \notin S /\ \A k \in S : k \in DOMAIN history /\ history'[k] = history[k]
    BY <1>6, <1>7 DEF Mine
  <2>4. h \in [S -> Nat]
    <3>1. \A k \in S : history[k].points \in basePoints .. maxPointsPerWord
      BY <1>8, <2>3 DEF PointsInRange
    <3>2. \A k \in S : history[k].points \in Nat
      BY <3>1 DEF basePoints, maxPointsPerWord
    <3> QED BY <3>2
  <2>5. Earned(j) = Sum(h, S) /\ Earned(j)' = Sum(g, Mine(j)')
    BY DEF Earned
  <2>6. scores[j] = Sum(h, S) /\ scores[j] \in Nat
    BY <1>1, <1>8, <2>5 DEF TypeOK
  <2>7. CASE j = i
    <3>1. g \in [S \cup {n} -> Nat] /\ (\A k \in S : g[k] = h[k]) /\ g[n] = points
      BY <1>3, <1>5, <1>6, <2>2, <2>3, <2>4, <2>7
    <3> HIDE DEF g, h, S
    <3>2. Sum(g, S \cup {n}) = Sum(h, S) + points
      BY <2>1, <2>3, <2>4, <3>1, SumAdds
    <3>3. scores'[j] = scores[j] + points
      BY <1>1, <1>4, <2>7 DEF TypeOK
    <3> QED BY <2>2, <2>5, <2>6, <2>7, <3>2, <3>3
  <2>8. CASE j # i
    <3>1. g = h
      BY <2>2, <2>3, <2>8
    <3>2. scores'[j] = scores[j]
      BY <1>1, <1>4, <2>8 DEF TypeOK
    <3> QED BY <2>2, <2>5, <2>6, <2>8, <3>1, <3>2
  <2> QED BY <2>7, <2>8
<1> QED BY <1>4, <1>9, <1>10 DEF ScoresAdd

\* Every other step leaves the moves and the scores as they are.
LEMMA OthersDoNotScore ==
    ASSUME [Next]_vars
    PROVE  \/ UNCHANGED <<players, history, scores>>
           \/ \E i \in Seats, t \in Typed : Play(i, t)
<1>1. LoseTurn("Resigned") \/ expire => players' = players
  BY DEF LoseTurn, Eliminate, expire
<1>2. ASSUME NEW i \in Seats, NEW t \in Typed, Submit(i, t)
      PROVE  UNCHANGED <<players, history, scores>> \/ Play(i, t)
  BY <1>1, <1>2 DEF Submit, PlayLate, Refuse, expire, words, table
<1>3. Timeout \/ NoMove => UNCHANGED <<players, history, scores>>
  BY <1>1 DEF Timeout, NoMove, expire, words
<1>4. ASSUME NEW i \in Seats, Resign(i)
      PROVE  UNCHANGED <<players, history, scores>>
  BY <1>1, <1>4 DEF Resign, Eliminate, words
<1>5. Tick \/ UNCHANGED vars => UNCHANGED <<players, history, scores>>
  BY DEF Tick, vars, words, table
<1> QED BY <1>2, <1>3, <1>4, <1>5 DEF Next

\* A score is what the player's own accepted words add up to, however many there are and
\* whoever goes out, and no word is worth less than the base or more than the cap.
THEOREM EngineScoresMatchMoves == Spec => []ScoresMatchMoves
<1>1. Init => ScoresAdd
  <2> SUFFICES ASSUME NEW order \in Tables, NEW word \in Word, New(order, word)
               PROVE  ScoresAdd
    BY DEF Init
  <2>1. history = <<>> /\ DOMAIN history = {} /\ scores = [i \in Seats |-> 0]
    BY DEF New, Seats
  <2>2. PointsInRange /\ \A i : Mine(i) = {}
    BY <2>1 DEF PointsInRange, Mine
  <2>3. ASSUME NEW g
        PROVE  Sum(g, {}) = 0
    <3>1. {s \in SUBSET {} : s # {}} = {} /\ {} \in SUBSET {}
      OBVIOUS
    <3>2. IsSum([s \in SUBSET {} |-> 0], g, {})
      BY DEF IsSum
    <3>3. IsSum(CHOOSE F : IsSum(F, g, {}), g, {})
      BY <3>2
    <3> QED BY <3>3 DEF Sum, IsSum
  <2> QED BY <2>1, <2>2, <2>3 DEF Earned, ScoresAdd
<1>2. ScoresAdd /\ Inv /\ [Next]_vars => ScoresAdd'
  <2> SUFFICES ASSUME ScoresAdd, Inv, [Next]_vars
               PROVE  ScoresAdd'
    OBVIOUS
  <2>1. CASE UNCHANGED <<players, history, scores>>
    BY <2>1 DEF ScoresAdd, PointsInRange, Earned, Mine, Seats
  <2> QED BY <2>1, PlayScores, OthersDoNotScore
<1> QED BY <1>1, <1>2, ScoresAre, EngineInvariant, PTL DEF Spec

----------------------------------------------------------------------------
(***************************************************************************)
(* Refinement: the engine implements Table.                                *)
(***************************************************************************)

\* The turn order is the same in both modules.
LEMMA SameOrder ==
    /\ \A n, f, A : Promise!NextAlive(n, f, A) = NextAlive(n, f, A)
    /\ \A n, f, A : Promise!LastAlive(n, f, A) = LastAlive(n, f, A)
BY DEF Promise!NextAlive, NextAlive, Promise!LastAlive, LastAlive, Promise!Waits, Waits

\* The game is over in Table's sense exactly when it is in the engine's.
LEMMA OverIsOver ==
    ASSUME TypeOK, TurnIsAlive
    PROVE  Promise!Over <=> over
BY DEF Promise!Over, TurnIsAlive

\* A lost turn is one in Table.
LEMMA LoseTurnRefines ==
    ASSUME Inv, ~over, NEW reason \in EndReason \ {"None"}, LoseTurn(reason), UNCHANGED words
    PROVE  Promise!LoseTurn
<1>1. TypeOK /\ TurnIsAlive /\ ReasonsMatch /\ ChainIsLegal
  BY DEF Inv
<1>2. /\ players' = players
      /\ alive' = alive \ LostSeats
      /\ turn' = NextAlive(Len(players), turn, alive')
      /\ left' = IF over' THEN left ELSE TurnLimit
      /\ TurnIsAlive'
      /\ alive' \subseteq Seats
  BY <1>1, LoseTurnFacts
<1>3. LostSeats = Promise!Fallen
  BY SameOrder DEF LostSeats, Promise!Fallen
<1>4. HasLegalMove' <=> HasLegalMove
  BY <1>1, SameWords
<1>5. Promise!Over' <=> over'
  BY <1>2 DEF Promise!Over, TurnIsAlive
<1>6. (~HasLegalMove)' = ~HasLegalMove
  BY <1>4 DEF HasLegalMove
<1> QED BY <1>2, <1>3, <1>5, <1>6, SameOrder DEF Promise!LoseTurn

\* Every step of the engine is a step of Table, or none.
LEMMA NextRefines == Inv /\ [Next]_vars => [Promise!Next]_(Promise!vars)
<1> SUFFICES ASSUME Inv, [Next]_vars
             PROVE  Promise!Next \/ UNCHANGED Promise!vars
  OBVIOUS
<1>0. TypeOK /\ TurnIsAlive /\ ReasonsMatch /\ ChainIsLegal /\ left \in Int
  BY DEF Inv, TypeOK
<1>1. Promise!Over <=> over
  BY <1>0, OverIsOver
<1>2. ASSUME ~over, expire, left < 0 \/ ~HasLegalMove
      PROVE  Promise!Next
  <2> DEFINE reason == IF HasLegalMove THEN "Timeout" ELSE "NoLegalMove"
  <2>1. reason \in EndReason \ {"None"} /\ LoseTurn(reason) /\ UNCHANGED words
    BY <1>2 DEF EndReason, expire
  <2> HIDE DEF reason
  <2>2. Promise!LoseTurn
    BY <1>2, <2>1, LoseTurnRefines
  <2> QED BY <1>1, <1>2, <2>2 DEF Promise!Next, Promise!Expire
<1>3. ASSUME UNCHANGED <<table, words>>, left' = left
      PROVE  UNCHANGED Promise!vars
  <2>1. HasLegalMove' <=> HasLegalMove
    BY <1>0, <1>3, SameWords
  <2> QED BY <1>3, <2>1 DEF Promise!vars, table
<1>4. ASSUME NEW i \in Seats, NEW t \in Typed, Play(i, t)
      PROVE  Promise!Next
  <2>1. ~over /\ ~IsExpired /\ HasLegalMove
    BY <1>4, JudgePassed DEF Play
  <2>2. /\ turn' = NextAlive(Len(players), turn, alive) /\ left' = TurnLimit
        /\ UNCHANGED <<players, alive>>
    BY <1>4 DEF Play
  <2>3. (~HasLegalMove)' \in BOOLEAN
    BY DEF HasLegalMove
  <2>4. left >= 0
    BY <1>0, <2>1 DEF IsExpired
  <2> QED BY <1>1, <2>1, <2>2, <2>3, <2>4, SameOrder DEF Promise!Next, Promise!Accept
<1>5. ASSUME NEW i \in Seats, NEW t \in Typed, PlayLate(i, t)
      PROVE  Promise!Next
  BY <1>2, <1>5, JudgeLate DEF PlayLate, IsExpired
<1>6. ASSUME NEW i \in Seats, NEW t \in Typed, Refuse(i, t)
      PROVE  UNCHANGED Promise!vars
  BY <1>3, <1>6 DEF Refuse
<1>7. CASE Timeout
  BY <1>2, <1>7 DEF Timeout, IsExpired
<1>8. CASE NoMove
  BY <1>2, <1>8 DEF NoMove
<1>9. ASSUME NEW i \in Seats, Resign(i)
      PROVE  Promise!Next
  <2>1. ~over /\ i \in alive /\ UNCHANGED words /\ i \in Promise!Seats
    BY <1>9 DEF Resign, Promise!Seats, Seats
  <2>2. CASE i = turn
    <3>1. Promise!LoseTurn
      BY <1>9, <2>1, <2>2, LoseTurnRefines DEF Resign, EndReason
    <3> QED BY <1>1, <2>1, <2>2, <3>1 DEF Promise!Next, Promise!Resign
  <2>3. CASE i # turn
    <3>1. alive' = alive \ {i} /\ players' = players /\ turn' = turn /\ left' = left
      BY <1>9, <2>3 DEF Resign, Eliminate
    <3>2. HasLegalMove' <=> HasLegalMove
      BY <1>0, <2>1, SameWords
    <3> QED BY <1>1, <2>1, <2>3, <3>1, <3>2 DEF Promise!Next, Promise!Resign
  <2> QED BY <2>2, <2>3
<1>10. CASE Tick
  <2>1. left >= 0 /\ left' = left - 1 /\ UNCHANGED <<table, words>>
    BY <1>10 DEF Tick
  <2>2. HasLegalMove' <=> HasLegalMove
    BY <1>0, <2>1, SameWords
  <2> QED BY <2>1, <2>2 DEF Promise!Next, Promise!Tick, table
<1>11. CASE UNCHANGED vars
  BY <1>3, <1>11 DEF vars
<1> QED BY <1>4, <1>5, <1>6, <1>7, <1>8, <1>9, <1>10, <1>11 DEF Next, Submit

\* The engine is a table: its words, spellings, verdicts and scores forgotten, each
\* of its behaviours is one of Table's.
THEOREM EngineImplementsTable == Spec => ImplementsTable
<1>1. Init => Promise!Init
  <2> SUFFICES ASSUME NEW order \in Tables, NEW word \in Word, New(order, word)
               PROVE  Promise!Init
    BY DEF Init
  <2> QED BY DEF New, Promise!Init, Promise!Seats
<1> QED BY <1>1, NextRefines, EngineInvariant, PTL DEF Spec, ImplementsTable, Promise!Spec
=============================================================================
