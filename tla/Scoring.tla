------------------------------ MODULE Scoring ------------------------------
(***************************************************************************)
(* What one accepted word is worth: pointsFor in engine.go.  Five terms,   *)
(* of which the last three give way, last first, to the cap on their sum.  *)
(***************************************************************************)
EXTENDS Integers, FiniteSets

basePoints == 10
chainBonus == 2
chainBonusWords == 15
syllableBonus == 5
speedBonus == 10
rarityBonus == 15
rarityHalvingPenalty == 3
maxPointsPerWord == 100
MinSyllables == 2

Lesser(a, b) == IF a <= b THEN a ELSE b
Greater(a, b) == IF a >= b THEN a ELSE b

\* Mutant of speedPoints: pays for the share of the turn that was spent.
speedSpent(left, limit) ==
    IF left <= 0 THEN 0 ELSE (speedBonus * (limit - Lesser(left, limit))) \div limit

\* The share of the turn left on the clock, cut to the turn at either end.
speedPoints(left, limit) ==
    IF left <= 0 THEN 0 ELSE (speedBonus * Lesser(left, limit)) \div limit

\* How many times a count of answers doubles past one: bits.Len(options) - 1,
\* counted no further than it takes for the bonus to be spent.
Halvings(options) == Cardinality({k \in 1 .. rarityBonus : 2 ^ k <= options})

rarityPoints(options) ==
    IF options < 1 THEN 0
    ELSE Greater(rarityBonus - rarityHalvingPenalty * Halvings(options), 0)

\* The terms in the order the code lists them: base, chain, syllables, speed, rarity.
Terms(chainLength, syllables, left, limit, options) ==
    << basePoints,
       chainBonus * Lesser(chainLength, chainBonusWords),
       syllableBonus * (syllables - MinSyllables),
       speedPoints(left, limit),
       rarityPoints(options) >>

\* sumParts over the five terms.
sumParts(parts) == parts[1] + parts[2] + parts[3] + parts[4] + parts[5]

\* The sum of the terms after the i-th, which give way before it does.
Behind(parts, i) ==
    CASE i = 1 -> parts[2] + parts[3] + parts[4] + parts[5]
      [] i = 2 -> parts[3] + parts[4] + parts[5]
      [] i = 3 -> parts[4] + parts[5]
      [] i = 4 -> parts[5]
      [] i = 5 -> 0

\* What the trimming loop leaves of term i: it loses the part of the overflow
\* that the terms behind it could not absorb.
Kept(parts, i) ==
    LET overflow == Greater(sumParts(parts) - maxPointsPerWord - Behind(parts, i), 0)
    IN  parts[i] - Lesser(parts[i], overflow)

Trimmed(parts) == [i \in 1 .. 5 |-> Kept(parts, i)]

pointsFor(chainLength, syllables, left, limit, options) ==
    sumParts(Trimmed(Terms(chainLength, syllables, left, limit, options)))
=============================================================================
