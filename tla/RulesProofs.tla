----------------------------- MODULE RulesProofs -----------------------------
(***************************************************************************)
(* What the operators of the rules return, whatever they are given.  Of    *)
(* TurnOrder, for every table: NextAlive and LastAlive pick a seat of the  *)
(* set they are given, and the places of those who go out together.  Of    *)
(* Scoring: each term is within its bonus, and a word within its cap.      *)
(***************************************************************************)
EXTENDS TurnOrder, Scoring, FiniteSetTheorems, WellFoundedInduction, TLAPS

----------------------------------------------------------------------------
(***************************************************************************)
(* TurnOrder.                                                              *)
(***************************************************************************)

\* A set of naturals that is not empty has a least element.
LEMMA LeastNatural ==
    ASSUME NEW T, T \subseteq Nat, T # {}
    PROVE  \E m \in T : \A k \in T : m <= k
<1> DEFINE R == OpToRel(<, Nat)
<1>1. \E m \in T : \A k \in T : ~ (<<k, m>> \in R)
  <2>1. IsWellFoundedOn(R, Nat)
    BY NatLessThanWellFounded
  <2> HIDE DEF R
  <2> QED BY <2>1, WFMin
<1>2. ASSUME NEW m \in T, NEW k \in T, ~ (<<k, m>> \in R)
      PROVE  m <= k
  <2>1. <<k, m>> \in Nat \X Nat
    OBVIOUS
  <2>2. ~ (k < m)
    BY <1>2, <2>1 DEF R, OpToRel
  <2> QED BY <2>2
<1> QED BY <1>1, <1>2

\* A set of seats is finite, and has one element exactly when it is a singleton.
LEMMA SeatSets ==
    ASSUME NEW n \in Nat, NEW S \in SUBSET (1 .. n)
    PROVE  /\ IsFiniteSet(S)
           /\ Cardinality(S) \in 0 .. n
           /\ \A x \in S : Cardinality(S) <= 1 <=> S = {x}
           /\ \A x \in S : Cardinality(S) = 1 <=> S = {x}
<1>1. IsFiniteSet(1 .. n) /\ Cardinality(1 .. n) = n
  BY FS_Interval
<1>2. IsFiniteSet(S) /\ Cardinality(S) <= n
  BY <1>1, FS_Subset
<1>3. Cardinality(S) \in Nat
  BY <1>2, FS_CardinalityType
<1>4. ASSUME NEW x \in S
      PROVE  /\ Cardinality(S) <= 1 <=> S = {x}
             /\ Cardinality(S) = 1 <=> S = {x}
  <2>1. Cardinality(S) # 0
    BY <1>2, <1>4, FS_EmptySet
  <2>2. Cardinality(S) = 1 <=> \E y : S = {y}
    BY <1>2, FS_Singleton
  <2>3. (\E y : S = {y}) <=> S = {x}
    OBVIOUS
  <2> QED BY <1>3, <2>1, <2>2, <2>3
<1> QED BY <1>2, <1>3, <1>4

\* A seat waits less than a whole round, and no two seats wait the same.
LEMMA WaitsFacts ==
    ASSUME NEW n \in Nat, NEW from \in 1 .. n
    PROVE  /\ \A i \in 1 .. n : Waits(n, from, i) \in 0 .. n - 1
           /\ \A i \in 1 .. n : Waits(n, from, i) = 0 <=> i = from
           /\ \A i, j \in 1 .. n : Waits(n, from, i) = Waits(n, from, j) => i = j
BY DEF Waits

\* advance() finds a seat: one of the others still in the game, and the first.
LEMMA NextAliveFacts ==
    ASSUME NEW n \in Nat, NEW from \in 1 .. n, NEW alive \in SUBSET (1 .. n),
           alive \ {from} # {}
    PROVE  LET next == NextAlive(n, from, alive)
           IN  /\ next \in alive
               /\ next # from
               /\ \A j \in alive \ {from} : Waits(n, from, next) <= Waits(n, from, j)
<1> DEFINE A == alive \ {from}
           T == {Waits(n, from, i) : i \in A}
<1>1. T \subseteq Nat /\ T # {}
  <2>1. \A i \in A : Waits(n, from, i) \in Nat
    BY WaitsFacts
  <2> QED BY <2>1
<1>2. PICK m \in T : \A k \in T : m <= k
  <2> HIDE DEF T
  <2> QED BY <1>1, LeastNatural
<1>3. \E i \in A : \A j \in A : Waits(n, from, i) <= Waits(n, from, j)
  BY <1>2
<1> QED BY <1>3 DEF NextAlive

\* settle() leaves a seat of those in the game, and the last in turn order.
LEMMA LastAliveFacts ==
    ASSUME NEW n \in Nat, NEW from \in 1 .. n, NEW alive \in SUBSET (1 .. n),
           alive # {}
    PROVE  LET last == LastAlive(n, from, alive)
           IN  /\ last \in alive
               /\ \A j \in alive : Waits(n, from, j) <= Waits(n, from, last)
<1> DEFINE Room(i) == n - Waits(n, from, i)
           T == {Room(i) : i \in alive}
<1>1. T \subseteq Nat /\ T # {}
  <2>1. \A i \in alive : Waits(n, from, i) \in 0 .. n - 1
    BY WaitsFacts
  <2>2. \A i \in alive : Room(i) \in Nat
    BY <2>1
  <2> HIDE DEF Room
  <2> QED BY <2>2
<1>2. PICK m \in T : \A k \in T : m <= k
  <2> HIDE DEF T
  <2> QED BY <1>1, LeastNatural
<1>3. PICK i \in alive : m = Room(i)
  BY <1>2
<1>4. \A j \in alive : Waits(n, from, j) <= Waits(n, from, i)
  <2> SUFFICES ASSUME NEW j \in alive
               PROVE  Waits(n, from, j) <= Waits(n, from, i)
    OBVIOUS
  <2>1. Room(i) <= Room(j)
    BY <1>2, <1>3
  <2>2. Waits(n, from, i) \in Int /\ Waits(n, from, j) \in Int
    BY WaitsFacts
  <2> QED BY <2>1, <2>2
<1> QED BY <1>4 DEF LastAlive

\* When more than one seat is in, the last in order is not the one to act.
LEMMA LastIsNotFirst ==
    ASSUME NEW n \in Nat, NEW from \in 1 .. n, NEW alive \in SUBSET (1 .. n),
           alive \ {from} # {}
    PROVE  LastAlive(n, from, alive) # from
<1>1. PICK j \in alive : j # from
  OBVIOUS
<1>2. Waits(n, from, j) > 0 /\ Waits(n, from, from) = 0
  BY WaitsFacts, <1>1
<1>3. Waits(n, from, j) <= Waits(n, from, LastAlive(n, from, alive))
  BY LastAliveFacts
<1>4. LastAlive(n, from, alive) \in 1 .. n
  BY LastAliveFacts
<1> QED BY <1>1, <1>2, <1>3, <1>4, WaitsFacts

\* The seat that has just passed the turn on is the last in order after that.
LEMMA PasserIsLast ==
    ASSUME NEW n \in Nat, NEW from \in 1 .. n, NEW alive \in SUBSET (1 .. n),
           from \in alive, alive \ {from} # {}
    PROVE  \A j \in alive : Waits(n, NextAlive(n, from, alive), j)
                              <= Waits(n, NextAlive(n, from, alive), from)
<1> DEFINE next == NextAlive(n, from, alive)
<1> SUFFICES ASSUME NEW j \in alive
             PROVE  Waits(n, next, j) <= Waits(n, next, from)
  OBVIOUS
<1>1. next \in 1 .. n /\ next # from
  BY NextAliveFacts
<1>2. j # from => Waits(n, from, next) <= Waits(n, from, j)
  BY NextAliveFacts
<1> HIDE DEF next
<1> QED BY <1>1, <1>2 DEF Waits

\* A seat that is last in order stays last when some of the others go out and
\* the turn passes to the next of those left.
LEMMA LastStaysLast ==
    ASSUME NEW n \in Nat, NEW from \in 1 .. n, NEW alive \in SUBSET (1 .. n),
           NEW left \in SUBSET (alive \ {from}), NEW last \in left,
           \A j \in alive : Waits(n, from, j) <= Waits(n, from, last)
    PROVE  \A j \in left : Waits(n, NextAlive(n, from, left), j)
                              <= Waits(n, NextAlive(n, from, left), last)
<1> DEFINE next == NextAlive(n, from, left)
<1> SUFFICES ASSUME NEW j \in left
             PROVE  Waits(n, next, j) <= Waits(n, next, last)
  OBVIOUS
<1>1. next \in 1 .. n /\ next # from
  BY NextAliveFacts
<1>2. Waits(n, from, next) <= Waits(n, from, j)
  BY NextAliveFacts
<1>3. Waits(n, from, j) <= Waits(n, from, last)
  OBVIOUS
<1> HIDE DEF next
<1> QED BY <1>1, <1>2, <1>3 DEF Waits

\* Seats that go out together take positions of their own, one after the other.
LEMMA PlaceType ==
    ASSUME NEW n \in Nat, NEW from \in 1 .. n, NEW out \in SUBSET (1 .. n), NEW i \in out
    PROVE  Place(n, from, out, i) \in 1 .. Cardinality(out)
<1> DEFINE P == {j \in out : Waits(n, from, j) <= Waits(n, from, i)}
<1>1. IsFiniteSet(out)
  <2>1. IsFiniteSet(1 .. n)
    BY FS_Interval
  <2> QED BY <2>1, FS_Subset
<1>2. IsFiniteSet(P) /\ Cardinality(P) <= Cardinality(out)
  BY <1>1, FS_Subset
<1>3. i \in P
  BY WaitsFacts
<1>4. Cardinality(P) # 0
  BY <1>2, <1>3, FS_EmptySet
<1>5. Cardinality(P) \in Nat /\ Cardinality(out) \in Nat
  BY <1>1, <1>2, FS_CardinalityType
<1> QED BY <1>2, <1>4, <1>5 DEF Place

\* No two of them take the same position: the one met first has fewer before it.
LEMMA PlacesDiffer ==
    ASSUME NEW n \in Nat, NEW from \in 1 .. n, NEW out \in SUBSET (1 .. n),
           NEW i \in out, NEW j \in out, Waits(n, from, i) < Waits(n, from, j)
    PROVE  Place(n, from, out, i) < Place(n, from, out, j)
<1> DEFINE P(x) == {y \in out : Waits(n, from, y) <= Waits(n, from, x)}
<1>1. IsFiniteSet(P(i)) /\ IsFiniteSet(P(j))
  BY SeatSets
<1>2. \A x \in out : Waits(n, from, x) \in 0 .. n - 1
  BY WaitsFacts
<1>3. P(i) \in SUBSET P(j) /\ j \in P(j) /\ j \notin P(i)
  <2>1. Waits(n, from, i) \in Int /\ Waits(n, from, j) \in Int
    BY <1>2
  <2>2. ASSUME NEW y \in P(i)
        PROVE  y \in P(j)
    <3>1. Waits(n, from, y) \in Int
      BY <1>2
    <3>2. y \in out /\ Waits(n, from, y) <= Waits(n, from, i)
      BY <2>2
    <3>3. Waits(n, from, y) <= Waits(n, from, j)
      BY <2>1, <3>1, <3>2
    <3> QED BY <3>2, <3>3
  <2>3. j \in P(j)
    BY <2>1
  <2>4. j \notin P(i)
    BY <2>1
  <2> QED BY <2>2, <2>3, <2>4
<1>4. Cardinality(P(i)) <= Cardinality(P(j)) /\ Cardinality(P(i)) # Cardinality(P(j))
  <2> HIDE DEF P
  <2> QED BY <1>1, <1>3, FS_Subset
<1>5. Cardinality(P(i)) \in Nat /\ Cardinality(P(j)) \in Nat
  BY <1>1, FS_CardinalityType
<1> QED BY <1>4, <1>5 DEF Place

\* So the positions they take are the first ones, every one of them.
LEMMA PlacesFillUp ==
    ASSUME NEW n \in Nat, NEW from \in 1 .. n, NEW out \in SUBSET (1 .. n)
    PROVE  {Place(n, from, out, i) : i \in out} = 1 .. Cardinality(out)
<1> DEFINE k == Cardinality(out)
           f == [i \in out |-> Place(n, from, out, i)]
<1>1. IsFiniteSet(out) /\ k \in Nat
  BY SeatSets
<1>2. IsFiniteSet(1 .. k) /\ Cardinality(1 .. k) = k
  BY <1>1, FS_Interval
<1>3. \A i \in out : Place(n, from, out, i) \in 1 .. k
  BY PlaceType
<1>4. ASSUME NEW i \in out, NEW j \in out, Place(n, from, out, i) = Place(n, from, out, j)
      PROVE  i = j
  <2>1. Waits(n, from, i) \in Nat /\ Waits(n, from, j) \in Nat
    BY WaitsFacts
  <2>2. Place(n, from, out, i) \in Nat /\ Place(n, from, out, j) \in Nat
    BY <1>1, <1>3
  <2>3. ~ (Waits(n, from, i) < Waits(n, from, j)) /\ ~ (Waits(n, from, j) < Waits(n, from, i))
    BY <1>4, <2>2, PlacesDiffer
  <2>4. Waits(n, from, i) = Waits(n, from, j)
    BY <2>1, <2>3
  <2> QED BY <2>4, WaitsFacts
<1>5. f \in Injection(out, 1 .. k)
  BY <1>3, <1>4 DEF Injection, IsInjective
<1> HIDE DEF f
<1>6. f \in Surjection(out, 1 .. k)
  BY <1>1, <1>2, <1>5, FS_Injection
<1>7. \A p \in 1 .. k : \E i \in out : f[i] = p
  BY <1>6 DEF Surjection
<1> QED BY <1>3, <1>7 DEF f

----------------------------------------------------------------------------
(***************************************************************************)
(* Scoring.                                                                *)
(***************************************************************************)

\* The speed term is between nothing and the whole bonus.
LEMMA SpeedRange ==
    ASSUME NEW l \in Int, NEW limit \in Nat \ {0}
    PROVE  speedPoints(l, limit) \in 0 .. speedBonus
<1>1. CASE l <= 0
  BY <1>1 DEF speedPoints, speedBonus
<1>2. CASE l > 0
  <2> DEFINE m == Lesser(l, limit)
             q == (speedBonus * m) \div limit
  <2>1. m \in 1 .. limit
    BY <1>2 DEF Lesser
  <2>2. speedBonus * m \in 0 .. 10 * limit
    BY <2>1 DEF speedBonus
  <2> HIDE DEF m
  <2>3. ASSUME NEW x \in 0 .. 10 * limit
        PROVE  x \div limit \in 0 .. 10
    <3> DEFINE d == x \div limit
    <3>1. d \in Int /\ limit * d <= x /\ x < limit * (d + 1)
      OBVIOUS
    <3> HIDE DEF d
    <3>2. ~ (d >= 11)
      BY <3>1
    <3>3. ~ (d <= -1)
      BY <3>1
    <3> QED BY <3>1, <3>2, <3>3 DEF d
  <2>4. speedPoints(l, limit) = q
    BY <1>2 DEF speedPoints, m
  <2> QED BY <2>2, <2>3, <2>4 DEF speedBonus
<1> QED BY <1>1, <1>2

\* The rarity term is between nothing and the whole bonus.
LEMMA RarityRange ==
    ASSUME NEW options \in Nat
    PROVE  rarityPoints(options) \in 0 .. rarityBonus
<1>1. Halvings(options) \in Nat
  <2> DEFINE K == 1 .. rarityBonus
  <2>1. \A n \in Int : IsFiniteSet(1 .. n)
    BY FS_Interval
  <2>2. IsFiniteSet({k \in K : 2 ^ k <= options})
    BY <2>1, 15 \in Int, FS_Subset DEF rarityBonus
  <2> QED BY <2>2, FS_CardinalityType DEF Halvings
<1> QED BY <1>1 DEF rarityPoints, rarityBonus, rarityHalvingPenalty, Greater

\* A word is worth at least its base points and at most the cap, and exactly the
\* sum of its terms when that is under the cap.
LEMMA PointsRange ==
    ASSUME NEW chainLength \in Nat \ {0}, NEW syllables \in Nat, syllables >= MinSyllables,
           NEW l \in Int, NEW limit \in Nat \ {0}, NEW options \in Nat
    PROVE  /\ pointsFor(chainLength, syllables, l, limit, options)
                \in basePoints .. maxPointsPerWord
           /\ pointsFor(chainLength, syllables, l, limit, options)
                = Lesser(sumParts(Terms(chainLength, syllables, l, limit, options)),
                         maxPointsPerWord)
<1> DEFINE chain == chainBonus * Lesser(chainLength, chainBonusWords)
           syl == syllableBonus * (syllables - MinSyllables)
           speed == speedPoints(l, limit)
           rarity == rarityPoints(options)
           parts == <<basePoints, chain, syl, speed, rarity>>
<1>1. chain \in 2 .. 30 /\ syl \in Nat
  BY DEF chainBonus, chainBonusWords, Lesser, syllableBonus, MinSyllables
<1>2. speed \in Nat /\ rarity \in Nat
  BY SpeedRange, RarityRange DEF speedBonus, rarityBonus
<1>3. Terms(chainLength, syllables, l, limit, options) = parts
  BY DEF Terms
<1> HIDE DEF chain, syl, speed, rarity
<1>4. /\ parts[1] = 10 /\ parts[2] = chain /\ parts[3] = syl
      /\ parts[4] = speed /\ parts[5] = rarity
  BY DEF basePoints
<1> HIDE DEF parts
<1>5. sumParts(parts) = 10 + chain + syl + speed + rarity
  BY <1>4 DEF sumParts
<1> DEFINE excess == 10 + chain + syl + speed + rarity - 100
<1>6. /\ Kept(parts, 1) = 10 - Lesser(10, Greater(excess - (chain + syl + speed + rarity), 0))
      /\ Kept(parts, 2) = chain - Lesser(chain, Greater(excess - (syl + speed + rarity), 0))
      /\ Kept(parts, 3) = syl - Lesser(syl, Greater(excess - (speed + rarity), 0))
      /\ Kept(parts, 4) = speed - Lesser(speed, Greater(excess - rarity, 0))
      /\ Kept(parts, 5) = rarity - Lesser(rarity, Greater(excess - 0, 0))
  <2>1. /\ Behind(parts, 1) = chain + syl + speed + rarity
        /\ Behind(parts, 2) = syl + speed + rarity
        /\ Behind(parts, 3) = speed + rarity
        /\ Behind(parts, 4) = rarity
        /\ Behind(parts, 5) = 0
    BY <1>4 DEF Behind
  <2>2. sumParts(parts) - maxPointsPerWord = excess
    BY <1>1, <1>2, <1>5 DEF maxPointsPerWord
  <2> HIDE DEF excess
  <2> QED BY <1>4, <2>1, <2>2 DEF Kept
<1>7. sumParts(Trimmed(parts)) = Kept(parts, 1) + Kept(parts, 2) + Kept(parts, 3)
                                   + Kept(parts, 4) + Kept(parts, 5)
  BY DEF sumParts, Trimmed
<1>8. sumParts(Trimmed(parts)) = IF excess <= 0 THEN excess + 100 ELSE 100
  <2> HIDE DEF parts
  <2> QED BY <1>1, <1>2, <1>6, <1>7, Z3 DEF Lesser, Greater
<1> QED BY <1>1, <1>2, <1>3, <1>5, <1>8
        DEF pointsFor, Lesser, basePoints, maxPointsPerWord

\* A quotient grows with what is divided.
LEMMA QuotientGrows ==
    ASSUME NEW x \in Nat, NEW y \in Nat, x <= y, NEW limit \in Nat \ {0}
    PROVE  x \div limit <= y \div limit
<1> DEFINE c == x \div limit
           d == y \div limit
<1>1. /\ c \in Int /\ limit * c <= x
      /\ d \in Int /\ y < limit * (d + 1)
  OBVIOUS
<1> HIDE DEF c, d
<1>2. limit * c < limit * (d + 1)
  <2> DEFINE p == limit * c
             q == limit * (d + 1)
  <2>1. p \in Int /\ q \in Int /\ p <= x /\ y < q
    BY <1>1
  <2> HIDE DEF p, q
  <2>2. p < q
    BY <2>1
  <2> QED BY <2>2 DEF p, q
<1>3. c < d + 1
  <2> SUFFICES ASSUME ~ (c < d + 1) PROVE FALSE
    OBVIOUS
  <2> DEFINE e == c - (d + 1)
  <2>1. e \in Nat /\ c = d + 1 + e
    BY <1>1
  <2>2. limit * c = limit * (d + 1) + limit * e
    BY <1>1, <2>1
  <2>3. limit * e \in Nat
    BY <2>1
  <2>4. limit * (d + 1) \in Int
    BY <1>1
  <2> QED BY <1>2, <2>2, <2>3, <2>4
<1> QED BY <1>1, <1>3 DEF c, d

\* An answer given faster has no less of the speed term.
LEMMA SpeedGrows ==
    ASSUME NEW l \in Int, NEW m \in Int, l <= m, NEW limit \in Nat \ {0}
    PROVE  speedPoints(l, limit) <= speedPoints(m, limit)
<1>1. CASE l <= 0
  <2>1. speedPoints(l, limit) = 0 /\ speedPoints(m, limit) \in 0 .. speedBonus
    BY <1>1, SpeedRange DEF speedPoints
  <2> QED BY <2>1 DEF speedBonus
<1>2. CASE l > 0
  <2> DEFINE x == speedBonus * Lesser(l, limit)
             y == speedBonus * Lesser(m, limit)
  <2>1. x \in Nat /\ y \in Nat /\ x <= y
    BY <1>2 DEF Lesser, speedBonus
  <2>2. speedPoints(l, limit) = x \div limit /\ speedPoints(m, limit) = y \div limit
    BY <1>2 DEF speedPoints
  <2> HIDE DEF x, y
  <2> QED BY <2>1, <2>2, QuotientGrows
<1> QED BY <1>1, <1>2

\* A rarer syllable, one with fewer answers, has no less of the rarity term.
LEMMA RarityGrows ==
    ASSUME NEW o \in Nat \ {0}, NEW many \in Nat, o <= many
    PROVE  rarityPoints(many) <= rarityPoints(o)
<1> DEFINE K == 1 .. rarityBonus
           few == {k \in K : 2 ^ k <= o}
           all == {k \in K : 2 ^ k <= many}
<1>1. IsFiniteSet(all)
  <2>1. \A b \in Int : IsFiniteSet(1 .. b)
    BY FS_Interval
  <2> QED BY <2>1, 15 \in Int, FS_Subset DEF rarityBonus
<1>2. few \in SUBSET all
  <2>1. \A k \in K : 2 ^ k \in Int
    BY DEF rarityBonus
  <2> SUFFICES ASSUME NEW k \in K, 2 ^ k <= o PROVE 2 ^ k <= many
    OBVIOUS
  <2> DEFINE p == 2 ^ k
  <2>2. p \in Int /\ p <= o
    BY <2>1
  <2> HIDE DEF p
  <2>3. p <= many
    BY <2>2
  <2> QED BY <2>3 DEF p
<1>3. Cardinality(few) \in Nat /\ Cardinality(all) \in Nat /\ Cardinality(few) <= Cardinality(all)
  <2> HIDE DEF few, all
  <2> QED BY <1>1, <1>2, FS_Subset, FS_CardinalityType
<1>4. Halvings(o) \in Nat /\ Halvings(many) \in Nat /\ Halvings(o) <= Halvings(many)
  BY <1>3 DEF Halvings
<1> QED BY <1>4 DEF rarityPoints, rarityBonus, rarityHalvingPenalty, Greater

\* A better answer is never worth less, whatever the cap takes from either.
LEMMA PointsGrow ==
    ASSUME NEW c \in Nat \ {0}, NEW chain \in Nat \ {0}, c <= chain,
           NEW s \in Nat, NEW syl \in Nat, s >= MinSyllables, s <= syl,
           NEW l \in Int, NEW time \in Int, l <= time,
           NEW o \in Nat \ {0}, NEW many \in Nat, o <= many,
           NEW limit \in Nat \ {0}
    PROVE  pointsFor(c, s, l, limit, many) <= pointsFor(chain, syl, time, limit, o)
<1> DEFINE sum(aa, bb, cc, dd) == 10 + aa + bb + cc + dd
           c1 == chainBonus * Lesser(c, chainBonusWords)
           c2 == chainBonus * Lesser(chain, chainBonusWords)
           s1 == syllableBonus * (s - MinSyllables)
           s2 == syllableBonus * (syl - MinSyllables)
           l1 == speedPoints(l, limit)
           l2 == speedPoints(time, limit)
           o1 == rarityPoints(many)
           o2 == rarityPoints(o)
<1>1. c1 \in Nat /\ c2 \in Nat /\ c1 <= c2
  BY DEF chainBonus, chainBonusWords, Lesser
<1>2. s1 \in Nat /\ s2 \in Nat /\ s1 <= s2
  BY DEF syllableBonus, MinSyllables
<1>3. l1 \in Nat /\ l2 \in Nat /\ l1 <= l2
  BY SpeedRange, SpeedGrows DEF speedBonus
<1>4. o1 \in Nat /\ o2 \in Nat /\ o1 <= o2
  BY RarityRange, RarityGrows DEF rarityBonus
<1>5. syl >= MinSyllables
  BY DEF MinSyllables
<1>6. /\ pointsFor(c, s, l, limit, many) = Lesser(sumParts(Terms(c, s, l, limit, many)), 100)
      /\ pointsFor(chain, syl, time, limit, o)
           = Lesser(sumParts(Terms(chain, syl, time, limit, o)), 100)
  BY <1>5, PointsRange DEF maxPointsPerWord
<1>7. /\ Terms(c, s, l, limit, many) = <<10, c1, s1, l1, o1>>
      /\ Terms(chain, syl, time, limit, o) = <<10, c2, s2, l2, o2>>
  BY DEF Terms, basePoints
<1> HIDE DEF c1, c2, s1, s2, l1, l2, o1, o2
<1>8. /\ sumParts(<<10, c1, s1, l1, o1>>) = sum(c1, s1, l1, o1)
      /\ sumParts(<<10, c2, s2, l2, o2>>) = sum(c2, s2, l2, o2)
  BY DEF sumParts
<1>9. sum(c1, s1, l1, o1) <= sum(c2, s2, l2, o2)
      /\ sum(c1, s1, l1, o1) \in Nat /\ sum(c2, s2, l2, o2) \in Nat
  BY <1>1, <1>2, <1>3, <1>4
<1> HIDE DEF sum
<1> QED BY <1>6, <1>7, <1>8, <1>9 DEF Lesser
=============================================================================
