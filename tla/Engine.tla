------------------------------- MODULE Engine -------------------------------
(***************************************************************************)
(* The rules of the game: server/internal/game/engine.go.  One engine, one *)
(* caller at a time; the deadline is data, so the clock is the number of   *)
(* ticks left before it (`left`, -1 once it has passed) and Tick is time   *)
(* going by in the caller.  Each action is one exported method that        *)
(* changes the engine.                                                     *)
(***************************************************************************)
EXTENDS TurnOrder, Scoring, Sequences, FiniteSetsExt

CONSTANTS
    Player,         \* ids of the players
    Tables,         \* the turn orders New is called with
    Word,           \* the canonical words of the dictionary
    Syllable,
    FirstSyllable,  \* [Word -> Syllable]
    LastSyllable,   \* [Word -> Syllable]
    Typed,          \* what players type, once normalized
    Syllables,      \* [Typed -> Nat]: how many syllables the typed text has
    Resolve,        \* [Typed -> Word \cup {NoWord}]: canonical form or a miss
    NoWord,
    NoPlayer,
    TurnLimit       \* ticks in one turn

ASSUME TablesAssumption ==
    \A t \in Tables :
        /\ t \in Seq(Player)
        /\ Len(t) >= 2
        /\ \A i, j \in 1 .. Len(t) : t[i] = t[j] => i = j

ASSUME DictionaryAssumption ==
    /\ IsFiniteSet(Word)
    /\ NoWord \notin Word
    /\ FirstSyllable \in [Word -> Syllable]
    /\ LastSyllable \in [Word -> Syllable]
    /\ Syllables \in [Typed -> Nat]
    /\ Resolve \in [Typed -> Word \cup {NoWord}]

ASSUME ClockAssumption == TurnLimit \in Nat \ {0} /\ NoPlayer \notin Player

VARIABLES
    players,    \* turn order, the eliminated ones included
    alive,      \* the seats (indices into players) still in the game
    outAt,      \* each seat's position in outOrder, 0 while it is not there
    outReason,  \* each seat's outReason
    opening,    \* the opening word
    used,       \* the words played, the opening included
    current,    \* the syllable the next word must start with
    turn,       \* turnIndex
    left,       \* deadline - now
    history,    \* the moves accepted
    scores,
    over,
    winner,
    verdict     \* what the last call returned to a submission

table == <<players, alive, outAt, outReason, turn, over, winner>>
words == <<opening, used, current, history, scores>>
vars == <<table, words, left, verdict>>

Seats == DOMAIN players

RejectReason == {"NotYourTurn", "TooFewSyllables", "NotInDictionary", "WrongLink",
                 "AlreadyUsed", "Timeout", "GameOver"}
EndReason == {"None", "Timeout", "NoLegalMove", "Resigned"}

----------------------------------------------------------------------------
WordsStartingWith(s) == {w \in Word : FirstSyllable[w] = s}
OutDegree(s) == Cardinality(WordsStartingWith(s))
LegalMoves == WordsStartingWith(current) \ used
HasLegalMove == LegalMoves # {}
ChainLength == Len(history) + 1
IsExpired == left < 0

\* New: refused unless the first player has a word to play.
New(order, word) ==
    /\ players = order
    /\ alive = DOMAIN order
    /\ outAt = [i \in DOMAIN order |-> 0]
    /\ outReason = [i \in DOMAIN order |-> "None"]
    /\ opening = word
    /\ used = {word}
    /\ current = LastSyllable[word]
    /\ turn = 1
    /\ left = TurnLimit
    /\ history = <<>>
    /\ scores = [i \in DOMAIN order |-> 0]
    /\ over = FALSE
    /\ winner = NoPlayer
    /\ verdict = "None"
    /\ HasLegalMove

Init == \E order \in Tables, word \in Word : New(order, word)

----------------------------------------------------------------------------
\* Mutant of Eliminate: each elimination numbers its seats from one again.
EliminateFromOne(out, why) ==
    /\ alive' = alive \ out
    /\ outAt' = [i \in Seats |-> IF i \in out THEN Place(Len(players), turn, out, i)
                                             ELSE outAt[i]]
    /\ outReason' = [i \in Seats |-> IF i \in out THEN why[i] ELSE outReason[i]]
    /\ turn' = IF turn \in out THEN NextAlive(Len(players), turn, alive') ELSE turn
    /\ IF Cardinality(alive') <= 1
       THEN over' = TRUE /\ winner' = players[turn']
       ELSE UNCHANGED <<over, winner>>
    /\ UNCHANGED players

(***************************************************************************)
(* Elimination.  The seats of `out` go out together, in turn order; `why`  *)
(* gives each its reason.  The turn moves only when the player to act is   *)
(* among them, and the game is over when one player is left.               *)
(***************************************************************************)
Eliminate(out, why) ==
    /\ alive' = alive \ out
    /\ outAt' = [i \in Seats |->
                    IF i \in out
                    THEN Cardinality(Seats \ alive) + Place(Len(players), turn, out, i)
                    ELSE outAt[i]]
    /\ outReason' = [i \in Seats |-> IF i \in out THEN why[i] ELSE outReason[i]]
    /\ turn' = IF turn \in out THEN NextAlive(Len(players), turn, alive') ELSE turn
    /\ IF Cardinality(alive') <= 1
       THEN over' = TRUE /\ winner' = players[turn']
       ELSE UNCHANGED <<over, winner>>
    /\ UNCHANGED players

\* Mutant of LoseTurn: no settle(), so a dead end is handed on to the next player.
LoseTurnUnsettled(reason) ==
    /\ Eliminate({turn}, [i \in {turn} |-> reason])
    /\ left' = IF over' THEN left ELSE TurnLimit

\* The player to act goes out for `reason`; then settle() takes out, one after
\* the other, everybody who meets the same dead end, down to the last in order.
\* The clock restarts for the new player to act, unless the game is over.
LoseTurn(reason) ==
    LET out == IF HasLegalMove THEN {turn}
               ELSE alive \ {LastAlive(Len(players), turn, alive)}
    IN  /\ Eliminate(out, [i \in out |-> IF i = turn THEN reason ELSE "NoLegalMove"])
        /\ left' = IF over' THEN left ELSE TurnLimit

\* A player with nothing to play did not run out of thinking time.
expire ==
    /\ LoseTurn(IF HasLegalMove THEN "Timeout" ELSE "NoLegalMove")
    /\ UNCHANGED words

----------------------------------------------------------------------------
\* Mutant of Judge: a word is looked for among those played as it was typed.
JudgeTypedReuse(i, t) ==
    IF over THEN "GameOver"
    ELSE IF i # turn THEN "NotYourTurn"
    ELSE IF IsExpired THEN "Timeout"
    ELSE IF Syllables[t] < MinSyllables THEN "TooFewSyllables"
    ELSE IF Resolve[t] = NoWord THEN "NotInDictionary"
    ELSE IF FirstSyllable[Resolve[t]] # current THEN "WrongLink"
    ELSE IF t \in used THEN "AlreadyUsed"
    ELSE "None"

\* The rules in the order Submit applies them.
Judge(i, t) ==
    IF over THEN "GameOver"
    ELSE IF i # turn THEN "NotYourTurn"
    ELSE IF IsExpired THEN "Timeout"
    ELSE IF Syllables[t] < MinSyllables THEN "TooFewSyllables"
    ELSE IF Resolve[t] = NoWord THEN "NotInDictionary"
    ELSE IF FirstSyllable[Resolve[t]] # current THEN "WrongLink"
    ELSE IF Resolve[t] \in used THEN "AlreadyUsed"
    ELSE "None"

\* Mutant of Play: the points are credited after the turn has passed.
PlayCreditsNext(i, t) ==
    LET word == Resolve[t]
        points == pointsFor(ChainLength, Syllables[t], left, TurnLimit, OutDegree(current))
    IN  /\ Judge(i, t) = "None"
        /\ used' = used \cup {word}
        /\ history' = Append(history, [player |-> i, word |-> word, points |-> points])
        /\ current' = LastSyllable[word]
        /\ turn' = NextAlive(Len(players), turn, alive)
        /\ scores' = [scores EXCEPT ![turn'] = @ + points]
        /\ left' = TurnLimit
        /\ verdict' = "None"
        /\ UNCHANGED <<players, alive, outAt, outReason, over, winner, opening>>

\* Submit, accepted: the canonical word is played and the turn passes.  A dead
\* end is left to the player who now faces it.
Play(i, t) ==
    LET word == Resolve[t]
        points == pointsFor(ChainLength, Syllables[t], left, TurnLimit, OutDegree(current))
    IN  /\ Judge(i, t) = "None"
        /\ used' = used \cup {word}
        /\ history' = Append(history, [player |-> i, word |-> word, points |-> points])
        /\ scores' = [scores EXCEPT ![i] = @ + points]
        /\ current' = LastSyllable[word]
        /\ turn' = NextAlive(Len(players), turn, alive)
        /\ left' = TurnLimit
        /\ verdict' = "None"
        /\ UNCHANGED <<players, alive, outAt, outReason, over, winner, opening>>

\* Submit, too late: the word is not looked at and the turn is lost.
PlayLate(i, t) ==
    /\ Judge(i, t) = "Timeout"
    /\ expire
    /\ verdict' = "Timeout"

\* Submit, refused by a rule: nothing but the answer.
Refuse(i, t) ==
    /\ Judge(i, t) \notin {"None", "Timeout"}
    /\ verdict' = Judge(i, t)
    /\ UNCHANGED <<table, words, left>>

Submit(i, t) == Play(i, t) \/ PlayLate(i, t) \/ Refuse(i, t)

Timeout ==
    /\ ~over
    /\ IsExpired
    /\ expire
    /\ verdict' = "None"

NoMove ==
    /\ ~over
    /\ ~HasLegalMove
    /\ expire
    /\ verdict' = "None"

\* Mutant of Resign: every elimination restarts the clock.
ResignRestartsClock(i) ==
    /\ ~over
    /\ i \in alive
    /\ IF i = turn
       THEN LoseTurn("Resigned")
       ELSE Eliminate({i}, [j \in {i} |-> "Resigned"]) /\ left' = TurnLimit
    /\ verdict' = "None"
    /\ UNCHANGED words

\* From behind, the turn, the position and the clock stay as they were.
Resign(i) ==
    /\ ~over
    /\ i \in alive
    /\ IF i = turn
       THEN LoseTurn("Resigned")
       ELSE Eliminate({i}, [j \in {i} |-> "Resigned"]) /\ UNCHANGED left
    /\ verdict' = "None"
    /\ UNCHANGED words

\* Mutants of Tick: a clock that runs on past the deadline, and one that stops on
\* it, which is not yet past it.
TickRunsOn == ~over /\ left' = left - 1 /\ UNCHANGED <<table, words, verdict>>

TickStopsOnDeadline ==
    /\ ~over
    /\ left > 0
    /\ left' = left - 1
    /\ UNCHANGED <<table, words, verdict>>

Tick ==
    /\ ~over
    /\ left >= 0
    /\ left' = left - 1
    /\ UNCHANGED <<table, words, verdict>>

----------------------------------------------------------------------------
Next ==
    \/ \E i \in Seats, t \in Typed : Submit(i, t)
    \/ Timeout
    \/ NoMove
    \/ \E i \in Seats : Resign(i)
    \/ Tick

Spec == Init /\ [][Next]_vars

\* Time goes by, and the owner of the engine calls Timeout when a turn has run
\* out.  Nothing makes a player move.
FairSpec == Spec /\ WF_vars(Tick) /\ WF_vars(Timeout)
----------------------------------------------------------------------------
(***************************************************************************)
(* Properties                                                              *)
(***************************************************************************)

\* Every variable holds what its field can hold.
TypeOK ==
    /\ players \in Tables
    /\ alive \subseteq Seats
    /\ outAt \in [Seats -> 0 .. Len(players)]
    /\ outReason \in [Seats -> EndReason]
    /\ opening \in Word
    /\ used \subseteq Word
    /\ current \in Syllable
    /\ turn \in Seats
    /\ left \in -1 .. TurnLimit
    /\ history \in Seq([player : Seats, word : Word, points : Nat])
    /\ scores \in [Seats -> Nat]
    /\ over \in BOOLEAN
    /\ winner \in Player \cup {NoPlayer}
    /\ verdict \in RejectReason \cup {"None"}

\* Turn() is "always somebody still in the game, and once the last elimination
\* has landed it is the winner": the turn never rests on a seat that is out, the
\* game is over exactly when one seat is left, and that seat is the winner.
TurnIsAlive ==
    /\ turn \in alive
    /\ over <=> alive = {turn}
    /\ winner = IF over THEN players[turn] ELSE NoPlayer

\* The words played are one chain: each starts where the one before it ends (the
\* first from the opening, the next from the last), and no word is in it twice,
\* whatever spelling it was typed in.
WordBefore(k) == IF k = 1 THEN opening ELSE history[k - 1].word

ChainIsLegal ==
    /\ \A k \in 1 .. Len(history) :
          /\ FirstSyllable[history[k].word] = LastSyllable[WordBefore(k)]
          /\ history[k].word # opening
          /\ \A m \in 1 .. Len(history) : history[k].word = history[m].word => k = m
    /\ used = {opening} \cup {history[k].word : k \in 1 .. Len(history)}
    /\ current = LastSyllable[WordBefore(Len(history) + 1)]

\* The final table can be read off outOrder at any time: the seats out of the
\* game, and no others, hold the positions 1 .. k, each one once, and each has a
\* reason for being there.
PlacingsAreComplete ==
    LET out == Seats \ alive
    IN  /\ {outAt[i] : i \in out} = 1 .. Cardinality(out)
        /\ \A i \in alive : outAt[i] = 0
        /\ \A i \in Seats : outReason[i] = "None" <=> i \in alive

\* A dead end is never lost by the player who closed it: nobody goes out for
\* want of a word with the last word of the chain their own, so the player who
\* closed the position is left standing unless they resign.
CloserIsNeverStuck ==
    history # <<>> => outReason[history[Len(history)].player] # "NoLegalMove"

\* While the game is on, the player to act can be stuck only by the word just
\* played: once somebody has gone out of turn at this position, whoever is to
\* act has a word to play, and a whole turn to play it in.
FreshTurnIsPlayable ==
    [][ (turn' # turn /\ alive' # alive /\ ~over') =>
            (HasLegalMove' /\ left' = TurnLimit) ]_vars

\* The clock goes up only for a new player to act: a seat that goes out from
\* behind, or a word that is refused, cannot hand the player to act more time.
ClockIsNotExtended == [][ left' > left => turn' # turn ]_vars

\* Going out is final, and whoever goes out later stands higher: the positions
\* already given never change, and a new one is above all of them.
LaterOutStandsHigher ==
    [][ \A i \in Seats \ alive :
            /\ outAt'[i] = outAt[i]
            /\ outReason'[i] = outReason[i]
            /\ \A j \in alive \ alive' : outAt'[j] > outAt[i] ]_vars

\* A score is the sum of the points shown with the player's own moves, through
\* every elimination, and no move is worth more than the cap.
ScoresMatchMoves ==
    /\ \A i \in Seats :
          scores[i] = MapThenSumSet(LAMBDA k : history[k].points,
                                    {k \in DOMAIN history : history[k].player = i})
    /\ \A k \in DOMAIN history : history[k].points \in basePoints .. maxPointsPerWord

\* The engine is a table: without its words, each of its steps is a step of
\* Table or no step at all.
Promise == INSTANCE Table WITH dead <- ~HasLegalMove

ImplementsTable == Promise!Spec

\* A game ends even if nobody ever answers again: the clock takes the players
\* one by one.
GameEnds == <>over
=============================================================================
