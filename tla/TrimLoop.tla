------------------------------ MODULE TrimLoop ------------------------------
(***************************************************************************)
(* pointsFor in engine.go, its loop run one iteration at a time: from the  *)
(* last term to the first, each gives up what it can of the overflow; then *)
(* the terms left with nothing are dropped and the rest are added up.      *)
(* Scoring states the outcome in closed form, and this is where the two    *)
(* are compared.                                                           *)
(***************************************************************************)
EXTENDS Scoring, Sequences

CONSTANTS
    ChainLengths, SyllableCounts, Lefts, OptionCounts,   \* inputs tried
    Limit                                                \* ticks in a turn

ASSUME InputsAssumption ==
    /\ ChainLengths \subseteq Nat \ {0}
    /\ SyllableCounts \subseteq Nat \ {0, 1}
    /\ Lefts \subseteq Int
    /\ OptionCounts \subseteq Nat
    /\ Limit \in Nat \ {0}

VARIABLES
    word,       \* the inputs: what is being scored
    parts,      \* the values of the five terms
    i,          \* the term the loop has come to
    overflow,   \* how much is still to be trimmed
    shown,      \* the breakdown reported: [kind, value] of the terms that count
    stage       \* "trim" or "done"; "idle" when there is no run

trimVars == <<word, parts, i, overflow, shown, stage>>

Kinds == <<"base", "chain", "syllables", "speed", "rarity">>

TrimInit ==
    /\ word \in [chainLength : ChainLengths, syllables : SyllableCounts,
                 left : Lefts, options : OptionCounts]
    /\ parts = Terms(word.chainLength, word.syllables, word.left, Limit, word.options)
    /\ i = 5
    /\ overflow = sumParts(parts) - maxPointsPerWord
    /\ shown = <<>>
    /\ stage = "trim"

TrimIdle ==
    /\ word = <<>> /\ parts = <<>> /\ shown = <<>>
    /\ i = 0 /\ overflow = 0
    /\ stage = "idle"

\* Mutant of Cut: a term gives up the whole overflow, its own value or not.
CutWhole == overflow

\* What the term the loop has come to gives up.
Cut == Lesser(parts[i], overflow)

Trim ==
    /\ stage = "trim"
    /\ i >= 1
    /\ overflow > 0
    /\ parts' = [parts EXCEPT ![i] = @ - Cut]
    /\ overflow' = overflow - Cut
    /\ i' = i - 1
    /\ UNCHANGED <<word, shown, stage>>

\* The line of the breakdown about term k, if it counts.
Line(k) == IF parts[k] > 0 THEN <<[kind |-> Kinds[k], value |-> parts[k]]>> ELSE <<>>

Report ==
    /\ stage = "trim"
    /\ i < 1 \/ overflow <= 0
    /\ shown' = Line(1) \o Line(2) \o Line(3) \o Line(4) \o Line(5)
    /\ stage' = "done"
    /\ UNCHANGED <<word, parts, i, overflow>>

TrimNext == Trim \/ Report

TrimSpec == TrimInit /\ [][TrimNext]_trimVars

----------------------------------------------------------------------------
TermsOf(w) == Terms(w.chainLength, w.syllables, w.left, Limit, w.options)
PointsOf(w) == pointsFor(w.chainLength, w.syllables, w.left, Limit, w.options)

\* The loop trims as Scoring says, and as its comment says: the word is worth the
\* sum of its terms or the cap, whichever is less; the base and the chain term are
\* never touched; and the parts reported are positive and add up to the points.
TrimsAsSaid ==
    stage = "done" =>
        /\ parts = Trimmed(TermsOf(word))
        /\ sumParts(parts) = PointsOf(word)
        /\ PointsOf(word) = Lesser(sumParts(TermsOf(word)), maxPointsPerWord)
        /\ parts[1] = TermsOf(word)[1]
        /\ parts[2] = TermsOf(word)[2]
        /\ \A k \in 1 .. 5 :
              parts[k] > 0 <=> \E m \in DOMAIN shown :
                                   shown[m] = [kind |-> Kinds[k], value |-> parts[k]]
        /\ \A k \in 1 .. 5 : parts[k] >= 0

\* A better answer is never worth less, cap or no cap: not one given faster, nor to
\* a rarer syllable, nor a longer word, nor one later in the chain.
BetterIsNeverWorthLess ==
    stage # "idle" =>
    \A l \in Lefts, o \in OptionCounts, s \in SyllableCounts, c \in ChainLengths :
        (/\ l <= word.left
         /\ word.options \in 1 .. o
         /\ s <= word.syllables
         /\ c <= word.chainLength)
        => pointsFor(c, s, l, Limit, o) <= PointsOf(word)
=============================================================================
