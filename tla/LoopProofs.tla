----------------------------- MODULE LoopProofs ------------------------------
(***************************************************************************)
(* What the loops come to.  The closed forms the other proofs use are what *)
(* the loops of engine.go come to: SeatWalk for a table of any size,       *)
(* TrimLoop for any word.  The loops of the bot's search, BotSearch, come  *)
(* to what minimax finds without pruning.                                  *)
(***************************************************************************)
EXTENDS SeatWalk, TrimLoop, BotSearch, RulesProofs, SequenceTheorems

----------------------------------------------------------------------------
(***************************************************************************)
(* Walking the seats.  The walk goes round once from where it starts: the  *)
(* seats it has been past are those that wait less than the one it is at,  *)
(* and they are the ones taken out (or, passing the turn on, the first).   *)
(***************************************************************************)
Wait(s) == Waits(n, start.turn, s)
Gone == start.alive \ alive
Past == Gone \cup (IF why = "pass" THEN {start.turn} ELSE {})

WalkTypes ==
    /\ n \in 2 .. MaxSeats
    /\ why \in {"pass", "lose", "sweep"}
    /\ start \in [turn : 1 .. n, alive : SUBSET (1 .. n)]
    /\ start.turn \in start.alive
    /\ alive \subseteq start.alive
    /\ turnIndex \in 1 .. n
    /\ walked \in 0 .. n
    /\ outOrder \in Seq(1 .. n)
    /\ pc \in {"eliminate", "advance", "settle", "done"}

\* Who has been taken out, for each of the reasons to walk.
WhyGone ==
    /\ why = "pass" => Gone = {} /\ pc # "eliminate"
    /\ why = "lose" => IF pc = "eliminate" THEN Gone = {} /\ turnIndex = start.turn
                       ELSE Gone = {start.turn}
    /\ why = "sweep" /\ pc = "done" => Cardinality(alive) <= 1

\* How far the walk has come.
HowFar ==
    IF pc = "advance"
    THEN /\ Past = {s \in start.alive : Wait(s) <= Wait(turnIndex)}
         /\ alive \ {start.turn} # {}
         /\ walked <= Wait(turnIndex)
    ELSE /\ Past = {s \in start.alive : Wait(s) < Wait(turnIndex)}
         /\ turnIndex \in alive
         /\ pc = "eliminate" => Cardinality(alive) > 1
         /\ pc # "eliminate" => turnIndex # start.turn

\* They went out in the order they were met.
InOrder ==
    /\ Len(outOrder) = Cardinality(Gone)
    /\ \A k \in DOMAIN outOrder :
          /\ outOrder[k] \in Gone
          /\ Place(n, start.turn, Gone, outOrder[k]) = k

WalkInv == WalkTypes /\ WhyGone /\ HowFar /\ InOrder

\* A seat waits at least nothing, at most once round; the next seat one more.
LEMMA WaitIs ==
    ASSUME WalkTypes
    PROVE  /\ n \in Nat /\ start.turn \in 1 .. n
           /\ \A s \in 1 .. n : Wait(s) \in 0 .. n - 1
           /\ \A s \in 1 .. n : Wait(s) = 0 <=> s = start.turn
           /\ \A s, t \in 1 .. n : Wait(s) = Wait(t) => s = t
           /\ \A s \in 1 .. n : /\ (s % n) + 1 \in 1 .. n
                                /\ Wait(s) < n - 1 => Wait((s % n) + 1) = Wait(s) + 1
<1>1. n \in Nat \ {0} /\ start.turn \in 1 .. n
  BY MaxSeatsAssumption DEF WalkTypes
<1>2. \A s \in 1 .. n : (s % n) + 1 = IF s = n THEN 1 ELSE s + 1
  <2> SUFFICES ASSUME NEW s \in 1 .. n
               PROVE  s % n = IF s = n THEN 0 ELSE s
    BY <1>1
  <2>1. CASE s = n
    BY <1>1, <2>1
  <2>2. CASE s # n
    BY <1>1, <2>2
  <2> QED BY <2>1, <2>2
<1>3. \A s \in 1 .. n : /\ (s % n) + 1 \in 1 .. n
                        /\ Wait(s) < n - 1 => Wait((s % n) + 1) = Wait(s) + 1
  <2> SUFFICES ASSUME NEW s \in 1 .. n
               PROVE  /\ (s % n) + 1 \in 1 .. n
                      /\ Wait(s) < n - 1 => Wait((s % n) + 1) = Wait(s) + 1
    OBVIOUS
  <2> DEFINE next == (s % n) + 1
  <2>1. next = IF s = n THEN 1 ELSE s + 1
    BY <1>2
  <2> HIDE DEF next
  <2>2. next \in 1 .. n
    BY <1>1, <2>1
  <2>3. Wait(s) < n - 1 => Wait(next) = Wait(s) + 1
    BY <1>1, <2>1, <2>2 DEF Wait, Waits
  <2> QED BY <2>2, <2>3 DEF next
<1> QED BY <1>1, <1>3, WaitsFacts DEF Wait

\* Nobody has been passed yet.
LEMMA WalkStarts == WalkInit => WalkInv
<1> SUFFICES ASSUME WalkInit PROVE WalkInv
  OBVIOUS
<1>1. /\ n \in 2 .. MaxSeats /\ n \in Nat /\ why \in {"pass", "lose", "sweep"}
      /\ alive \in SUBSET (1 .. n) /\ Cardinality(alive) >= 2 /\ turnIndex \in alive
      /\ start.turn = turnIndex /\ start.alive = alive
      /\ start \in [turn : 1 .. n, alive : SUBSET (1 .. n)]
      /\ outOrder = <<>> /\ walked = 0
      /\ pc = IF why = "pass" THEN "advance" ELSE "eliminate"
  BY MaxSeatsAssumption DEF WalkInit
<1>2. WalkTypes
  BY <1>1 DEF WalkTypes
<1>3. Gone = {} /\ WhyGone
  BY <1>1 DEF Gone, WhyGone
<1>4. Wait(turnIndex) = 0 /\ \A s \in alive : Wait(s) \in Nat /\ (Wait(s) = 0 <=> s = turnIndex)
  BY <1>1, <1>2, WaitIs
<1>5. alive \ {start.turn} # {}
  <2>1. ~ (Cardinality(alive) <= 1)
    <3>1. Cardinality(alive) \in Nat
      BY <1>1, SeatSets
    <3> QED BY <1>1, <3>1
  <2> QED BY <1>1, <2>1, SeatSets
<1>6. HowFar
  <2>1. CASE why = "pass"
    <3>1. Past = {turnIndex} /\ {s \in start.alive : Wait(s) <= Wait(turnIndex)} = {turnIndex}
      BY <1>1, <1>3, <1>4, <2>1 DEF Past
    <3> QED BY <1>1, <1>4, <1>5, <2>1, <3>1 DEF HowFar
  <2>2. CASE why # "pass"
    <3>1. Past = {} /\ {s \in start.alive : Wait(s) < Wait(turnIndex)} = {}
      BY <1>1, <1>3, <1>4, <2>2 DEF Past
    <3>2. Cardinality(alive) > 1
      BY <1>1, SeatSets
    <3> QED BY <1>1, <2>2, <3>1, <3>2 DEF HowFar
  <2> QED BY <2>1, <2>2
<1>7. InOrder
  BY <1>1, <1>3, FS_EmptySet DEF InOrder
<1> QED BY <1>2, <1>3, <1>6, <1>7 DEF WalkInv

\* Taking out the seat the walk is at.
LEMMA EliminateWalksOn == WalkInv /\ eliminate => WalkInv'
<1> SUFFICES ASSUME WalkInv, eliminate PROVE WalkInv'
  OBVIOUS
<1>1. /\ pc = "eliminate" /\ pc' = "advance" /\ walked' = 0
      /\ alive' = alive \ {turnIndex} /\ outOrder' = Append(outOrder, turnIndex)
      /\ UNCHANGED <<n, why, start, turnIndex>>
  BY DEF eliminate
<1>2. WalkTypes /\ WhyGone /\ HowFar /\ InOrder
  BY DEF WalkInv
<1>3. /\ Past = {s \in start.alive : Wait(s) < Wait(turnIndex)}
      /\ turnIndex \in alive /\ Cardinality(alive) > 1 /\ why # "pass"
      /\ alive \subseteq start.alive /\ start.alive \in SUBSET (1 .. n) /\ turnIndex \in 1 .. n
      /\ why = "lose" => turnIndex = start.turn /\ Gone = {}
      /\ n \in Nat /\ start.turn \in 1 .. n /\ start.turn \in start.alive
  BY <1>1, <1>2, WaitIs DEF HowFar, WhyGone, WalkTypes
<1>4. /\ \A s \in start.alive : Wait(s) \in Nat
      /\ \A s \in start.alive : Wait(s) = Wait(turnIndex) => s = turnIndex
      /\ Wait(start.turn) = 0
      /\ Wait(turnIndex) \in Nat
  BY <1>2, <1>3, WaitIs
<1>5. Gone' = Gone \cup {turnIndex} /\ Past = Gone /\ Past' = Gone' /\ turnIndex \notin Gone
  BY <1>1, <1>3 DEF Gone, Past
<1>6. WalkTypes'
  BY <1>1, <1>2 DEF WalkTypes
<1>7. WhyGone'
  BY <1>1, <1>3, <1>5 DEF WhyGone
<1>8. Gone' = {s \in start.alive : Wait(s) <= Wait(turnIndex)}
  BY <1>3, <1>4, <1>5
<1>9. HowFar'
  <2>1. start.turn \in Gone'
    BY <1>3, <1>4, <1>8
  <2>2. alive' # {}
    <3>1. Cardinality(alive) \in Nat /\ (Cardinality(alive) <= 1 <=> alive = {turnIndex})
      BY <1>3, SeatSets
    <3> QED BY <1>1, <1>3, <3>1
  <2>3. alive' \ {start.turn} # {}
    BY <1>1, <2>1, <2>2 DEF Gone
  <2>4. Wait(turnIndex)' = Wait(turnIndex) /\ walked' <= Wait(turnIndex)
    BY <1>1, <1>4 DEF Wait
  <2>5. Past' = {s \in start.alive : Wait(s) <= Wait(turnIndex)}'
    BY <1>1, <1>5, <1>8 DEF Wait
  <2> QED BY <1>1, <2>3, <2>4, <2>5 DEF HowFar
<1>10. InOrder'
  <2>1. /\ IsFiniteSet(Gone) /\ Cardinality(Gone) \in Nat
        /\ Cardinality(Gone') = Cardinality(Gone) + 1
    <3>1. Gone \in SUBSET (1 .. n)
      BY <1>3 DEF Gone
    <3>2. IsFiniteSet(Gone) /\ Cardinality(Gone) \in Nat
      BY <1>3, <3>1, SeatSets
    <3> QED BY <1>5, <3>2, FS_AddElement
  <2>2. /\ outOrder \in Seq(1 .. n) /\ Len(outOrder) = Cardinality(Gone)
        /\ \A k \in DOMAIN outOrder :
              outOrder[k] \in Gone /\ Place(n, start.turn, Gone, outOrder[k]) = k
    BY <1>2 DEF InOrder, WalkTypes
  <2>3. Len(outOrder') = Cardinality(Gone') /\ DOMAIN outOrder' = 1 .. Cardinality(Gone) + 1
        /\ DOMAIN outOrder = 1 .. Cardinality(Gone)
    BY <1>1, <1>3, <2>1, <2>2
  <2>4. \A s \in Gone : Place(n, start.turn, Gone', s) = Place(n, start.turn, Gone, s)
    <3> SUFFICES ASSUME NEW s \in Gone
                 PROVE  {t \in Gone' : Wait(t) <= Wait(s)} = {t \in Gone : Wait(t) <= Wait(s)}
      BY DEF Place, Wait
    <3>1. s \in start.alive /\ Wait(s) < Wait(turnIndex)
      BY <1>3, <1>5
    <3>2. ~ (Wait(turnIndex) <= Wait(s))
      BY <1>4, <3>1
    <3> QED BY <1>5, <3>2
  <2>5. Place(n, start.turn, Gone', turnIndex) = Cardinality(Gone) + 1
    <3>1. {t \in Gone' : Wait(t) <= Wait(turnIndex)} = Gone'
      BY <1>8
    <3> QED BY <2>1, <3>1 DEF Place, Wait
  <2>6. ASSUME NEW k \in 1 .. Cardinality(Gone) + 1
        PROVE  outOrder'[k] \in Gone' /\ Place(n, start.turn, Gone', outOrder'[k]) = k
    <3>1. CASE k \in 1 .. Cardinality(Gone)
      <4>1. outOrder'[k] = outOrder[k]
        BY <1>1, <1>3, <2>1, <2>2, <3>1
      <4> QED BY <1>5, <2>2, <2>3, <2>4, <3>1, <4>1
    <3>2. CASE k = Cardinality(Gone) + 1
      <4>1. outOrder'[k] = turnIndex
        BY <1>1, <1>3, <2>1, <2>2, <3>2
      <4> QED BY <1>5, <2>5, <3>2, <4>1
    <3> QED BY <2>1, <3>1, <3>2
  <2> QED BY <1>1, <2>3, <2>6 DEF InOrder
<1> QED BY <1>6, <1>7, <1>9, <1>10 DEF WalkInv

\* One seat further, which is in the game or has been out since the walk began.
LEMMA AdvanceWalksOn == WalkInv /\ advance => WalkInv'
<1> SUFFICES ASSUME WalkInv, advance PROVE WalkInv'
  OBVIOUS
<1>1. /\ pc = "advance" /\ walked' = walked + 1 /\ walked < n
      /\ turnIndex' = (turnIndex % n) + 1
      /\ pc' = IF turnIndex' \in alive THEN "settle" ELSE "advance"
      /\ UNCHANGED <<n, why, start, alive, outOrder>>
  BY DEF advance
<1>2. WalkTypes /\ WhyGone /\ HowFar /\ InOrder
  BY DEF WalkInv
<1>3. /\ Past = {s \in start.alive : Wait(s) <= Wait(turnIndex)}
      /\ alive \ {start.turn} # {} /\ walked <= Wait(turnIndex)
      /\ alive \subseteq start.alive /\ start.alive \in SUBSET (1 .. n) /\ turnIndex \in 1 .. n
      /\ walked \in Nat /\ n \in Nat
  BY <1>1, <1>2, WaitIs DEF HowFar, WalkTypes
<1>4. /\ \A s \in 1 .. n : Wait(s) \in 0 .. n - 1
      /\ \A s \in 1 .. n : Wait(s) = 0 <=> s = start.turn
      /\ \A s, t \in 1 .. n : Wait(s) = Wait(t) => s = t
      /\ turnIndex' \in 1 .. n
      /\ Wait(turnIndex) < n - 1 => Wait(turnIndex') = Wait(turnIndex) + 1
  BY <1>1, <1>2, <1>3, WaitIs
<1>5. Wait(turnIndex') = Wait(turnIndex) + 1
  <2>1. PICK s \in alive : s # start.turn
    BY <1>3
  <2>2. s \in start.alive /\ s \notin Past
    BY <1>3, <2>1 DEF Past, Gone
  <2>3. ~ (Wait(s) <= Wait(turnIndex)) /\ Wait(s) \in 0 .. n - 1 /\ Wait(turnIndex) \in 0 .. n - 1
    BY <1>3, <1>4, <2>2
  <2>4. Wait(turnIndex) < n - 1
    BY <1>3, <2>3
  <2> QED BY <1>4, <2>4
<1>6. /\ Past' = Past /\ Gone' = Gone
      /\ Wait(turnIndex)' = Wait(turnIndex')
      /\ \A s : Wait(s)' = Wait(s)
  BY <1>1 DEF Past, Gone, Wait
<1>7. Wait(turnIndex) \in Nat /\ turnIndex' # start.turn
  <2>1. Wait(turnIndex) \in Nat /\ Wait(turnIndex') # 0
    BY <1>3, <1>4, <1>5
  <2> QED BY <1>4, <2>1
<1>8. Past = {s \in start.alive : Wait(s) < Wait(turnIndex')}
  BY <1>3, <1>4, <1>5, <1>7
<1>9. WalkTypes'
  BY <1>1, <1>2, <1>3, <1>4 DEF WalkTypes
<1>10. WhyGone' /\ InOrder'
  BY <1>1, <1>2, <1>6 DEF WhyGone, InOrder
<1>11. HowFar'
  <2>1. CASE turnIndex' \in alive
    <3>1. pc' = "settle"
      BY <1>1, <2>1
    <3> QED BY <1>1, <1>6, <1>7, <1>8, <2>1, <3>1 DEF HowFar
  <2>2. CASE turnIndex' \notin alive
    <3>1. turnIndex' \notin start.alive
      <4>1. turnIndex' \notin Past
        BY <1>4, <1>8
      <4> QED BY <2>2, <4>1 DEF Past, Gone
    <3>2. \A s \in start.alive : Wait(s) <= Wait(turnIndex') <=> Wait(s) < Wait(turnIndex')
      <4>1. \A s \in start.alive : /\ s \in 1 .. n /\ s # turnIndex'
                                   /\ Wait(s) \in Int /\ Wait(turnIndex') \in Int
        BY <1>3, <1>4, <3>1
      <4>2. \A s \in start.alive : Wait(s) # Wait(turnIndex')
        BY <1>4, <4>1
      <4> QED BY <4>1, <4>2
    <3>3. Past = {s \in start.alive : Wait(s) <= Wait(turnIndex')}
      BY <1>8, <3>2
    <3>4. walked' <= Wait(turnIndex') /\ pc' = "advance"
      BY <1>1, <1>3, <1>5, <1>7, <2>2
    <3> QED BY <1>1, <1>3, <1>6, <3>3, <3>4 DEF HowFar
  <2> QED BY <2>1, <2>2
<1> QED BY <1>9, <1>10, <1>11 DEF WalkInv

\* Going on with a sweep, or stopping.
LEMMA SettleWalksOn == WalkInv /\ settle => WalkInv'
<1> SUFFICES ASSUME WalkInv, settle PROVE WalkInv'
  OBVIOUS
<1>1. /\ pc = "settle"
      /\ pc' = IF why = "sweep" /\ Cardinality(alive) > 1 THEN "eliminate" ELSE "done"
      /\ UNCHANGED <<n, why, start, alive, outOrder, turnIndex, walked>>
  BY DEF settle
<1>2. WalkTypes /\ WhyGone /\ HowFar /\ InOrder
  BY DEF WalkInv
<1>3. Gone' = Gone /\ Past' = Past /\ \A s : Wait(s)' = Wait(s)
  BY <1>1 DEF Gone, Past, Wait
<1>4. Cardinality(alive) \in Nat
  BY <1>2, WaitIs, SeatSets DEF WalkTypes
<1>5. WalkTypes'
  BY <1>1, <1>2 DEF WalkTypes
<1>6. WhyGone'
  BY <1>1, <1>2, <1>3, <1>4 DEF WhyGone
<1>7. HowFar'
  <2>1. Wait(turnIndex)' = Wait(turnIndex)
    BY <1>1 DEF Wait
  <2> QED BY <1>1, <1>2, <1>3, <2>1 DEF HowFar
<1>8. InOrder'
  BY <1>1, <1>2, <1>3 DEF InOrder
<1> QED BY <1>5, <1>6, <1>7, <1>8 DEF WalkInv

\* Where a walk stands, at every iteration of it.
THEOREM WalkInvariance == WalkSpec => []WalkInv
<1>1. WalkInv /\ [WalkNext]_walkVars => WalkInv'
  <2> SUFFICES ASSUME WalkInv, [WalkNext]_walkVars PROVE WalkInv'
    OBVIOUS
  <2>1. CASE UNCHANGED walkVars
    BY <2>1 DEF walkVars, WalkInv, WalkTypes, WhyGone, HowFar, InOrder, Past, Gone, Wait
  <2> QED BY <2>1, EliminateWalksOn, AdvanceWalksOn, SettleWalksOn DEF WalkNext
<1> QED BY <1>1, WalkStarts, PTL DEF WalkSpec

\* The walk ends where the closed forms say.
LEMMA WalksEnd == WalkInv => StopsWhereSaid
<1> SUFFICES ASSUME WalkInv PROVE StopsWhereSaid
  OBVIOUS
<1>1. WalkTypes /\ WhyGone /\ HowFar /\ InOrder
  BY DEF WalkInv
<1>2. /\ alive \subseteq start.alive /\ start.alive \in SUBSET (1 .. n) /\ turnIndex \in 1 .. n
      /\ start.turn \in start.alive
  BY <1>1 DEF WalkTypes
<1>3. /\ n \in Nat /\ start.turn \in 1 .. n
      /\ \A s \in 1 .. n : Wait(s) \in 0 .. n - 1
      /\ \A s, t \in 1 .. n : Wait(s) = Wait(t) => s = t
  BY <1>1, WaitIs
<1>4. pc = "advance" => walked < n
  <2> SUFFICES ASSUME pc = "advance" PROVE walked < n
    OBVIOUS
  <2>1. walked <= Wait(turnIndex) /\ walked \in Int /\ Wait(turnIndex) \in 0 .. n - 1
    BY <1>1, <1>2, <1>3 DEF HowFar, WalkTypes
  <2> QED BY <1>3, <2>1
<1>5. pc = "eliminate" => turnIndex \in alive
  BY <1>1 DEF HowFar
<1>6. ASSUME pc = "done"
      PROVE  LET final == LastAlive(n, start.turn, start.alive)
             IN  /\ turnIndex = NextAlive(n, start.turn, alive)
                 /\ why = "pass" => Gone = {}
                 /\ why = "lose" => Gone = {start.turn}
                 /\ why = "sweep" => alive = {final}
  <2>1. /\ Past = {s \in start.alive : Wait(s) < Wait(turnIndex)}
        /\ turnIndex \in alive /\ turnIndex # start.turn
    BY <1>1, <1>6 DEF HowFar
  <2>2. turnIndex = NextAlive(n, start.turn, alive)
    <3> DEFINE next == NextAlive(n, start.turn, alive)
    <3>1. /\ next \in alive /\ next # start.turn
          /\ \A j \in alive \ {start.turn} : Wait(next) <= Wait(j)
      BY <1>2, <1>3, <2>1, NextAliveFacts DEF Wait
    <3> HIDE DEF next
    <3>2. next \in start.alive /\ next \notin Past
      BY <1>2, <3>1 DEF Past, Gone
    <3>3. Wait(next) <= Wait(turnIndex) /\ ~ (Wait(next) < Wait(turnIndex))
      BY <2>1, <3>1, <3>2
    <3>4. Wait(next) \in Int /\ Wait(turnIndex) \in Int /\ next \in 1 .. n
      BY <1>2, <1>3, <3>2
    <3>5. Wait(next) = Wait(turnIndex)
      BY <3>3, <3>4
    <3> QED BY <1>2, <1>3, <3>4, <3>5 DEF next
  <2>3. ASSUME why = "sweep"
        PROVE  alive = {LastAlive(n, start.turn, start.alive)}
    <3> DEFINE final == LastAlive(n, start.turn, start.alive)
    <3>1. final \in start.alive /\ \A j \in start.alive : Wait(j) <= Wait(final)
      BY <1>2, <1>3, LastAliveFacts DEF Wait
    <3> HIDE DEF final
    <3>2. alive = {turnIndex}
      <4>1. Cardinality(alive) <= 1
        BY <1>1, <1>6, <2>3 DEF WhyGone
      <4> QED BY <1>2, <1>3, <2>1, <4>1, SeatSets
    <3>3. final = turnIndex
      <4> SUFFICES ASSUME final # turnIndex PROVE FALSE
        OBVIOUS
      <4>1. final \in Past
        BY <3>1, <3>2 DEF Past, Gone
      <4>2. Wait(final) < Wait(turnIndex) /\ Wait(turnIndex) <= Wait(final)
        BY <1>2, <2>1, <3>1, <4>1
      <4>3. Wait(final) \in Int /\ Wait(turnIndex) \in Int
        BY <1>2, <1>3, <3>1
      <4> QED BY <4>2, <4>3
    <3> QED BY <3>2, <3>3 DEF final
  <2> QED BY <1>1, <1>6, <2>2, <2>3 DEF WhyGone
<1> QED BY <1>1, <1>4, <1>5, <1>6 DEF StopsWhereSaid, InOrder, Gone

\* advance() and settle() stop, and where NextAlive and LastAlive say, having taken out
\* whom Place says in that order: at a table of any size, from any position.
THEOREM WalksStopWhereSaid == WalkSpec => []StopsWhereSaid
BY WalkInvariance, WalksEnd, PTL

----------------------------------------------------------------------------
(***************************************************************************)
(* Trimming a word's points to the cap.                                    *)
(***************************************************************************)

\* The terms and what there is of them in excess of the cap.
Excess == sumParts(TermsOf(word)) - maxPointsPerWord

TrimTypes ==
    /\ word \in [chainLength : ChainLengths, syllables : SyllableCounts,
                 left : Lefts, options : OptionCounts]
    /\ parts \in [1 .. 5 -> Nat]
    /\ i \in 0 .. 5
    /\ overflow \in Int
    /\ stage \in {"trim", "done"}

\* The terms behind the i-th have given up what they could, and the rest is to come.
TrimInv ==
    /\ TrimTypes
    /\ stage = "trim" =>
          /\ \A k \in 1 .. 5 : parts[k] = IF k > i THEN Kept(TermsOf(word), k)
                                          ELSE TermsOf(word)[k]
          /\ i = 0 => overflow = 0
          /\ i > 0 => overflow = IF i = 5 THEN Excess
                                 ELSE Greater(Excess - Behind(TermsOf(word), i), 0)
    /\ stage = "done" =>
          /\ parts = Trimmed(TermsOf(word))
          /\ shown = Line(1) \o Line(2) \o Line(3) \o Line(4) \o Line(5)

\* What is being scored: a word of the game has two syllables or more.
LEMMA InputsAre ==
    /\ Limit \in Nat \ {0}
    /\ \A s \in SyllableCounts : s \in Nat /\ s >= MinSyllables
    /\ \A w \in [chainLength : ChainLengths, syllables : SyllableCounts,
               left : Lefts, options : OptionCounts] :
          /\ w.chainLength \in Nat \ {0} /\ w.left \in Int /\ w.options \in Nat
          /\ w.syllables \in Nat /\ w.syllables >= MinSyllables
<1>1. \A s \in Nat \ {0, 1} : s >= 2
  OBVIOUS
<1> QED BY <1>1, InputsAssumption DEF MinSyllables

\* What the terms are.
LEMMA TermsAre ==
    ASSUME NEW w \in [chainLength : ChainLengths, syllables : SyllableCounts,
                      left : Lefts, options : OptionCounts]
    PROVE  /\ TermsOf(w) \in [1 .. 5 -> Nat]
           /\ TermsOf(w)[1] = basePoints
           /\ TermsOf(w)[2] = chainBonus * Lesser(w.chainLength, chainBonusWords)
           /\ TermsOf(w)[2] \in 2 .. 30
           /\ TermsOf(w)[3] = syllableBonus * (w.syllables - MinSyllables)
           /\ TermsOf(w)[4] = speedPoints(w.left, Limit)
           /\ TermsOf(w)[5] = rarityPoints(w.options)
<1> DEFINE chain == chainBonus * Lesser(w.chainLength, chainBonusWords)
           syl == syllableBonus * (w.syllables - MinSyllables)
           speed == speedPoints(w.left, Limit)
           rarity == rarityPoints(w.options)
<1>1. /\ w.chainLength \in Nat \ {0} /\ w.syllables \in Nat \ {0, 1} /\ w.left \in Int
      /\ w.options \in Nat /\ Limit \in Nat \ {0}
  BY InputsAssumption
<1>2. chain \in 2 .. 30 /\ syl \in Nat
  BY <1>1 DEF chainBonus, chainBonusWords, Lesser, syllableBonus, MinSyllables
<1>3. speed \in Nat /\ rarity \in Nat
  BY <1>1, SpeedRange, RarityRange DEF speedBonus, rarityBonus
<1> HIDE DEF chain, syl, speed, rarity
<1>4. TermsOf(w) = <<basePoints, chain, syl, speed, rarity>>
  BY DEF TermsOf, Terms, chain, syl, speed, rarity
<1>5. basePoints \in Nat
  BY DEF basePoints
<1>6. <<basePoints, chain, syl, speed, rarity>> \in [1 .. 5 -> Nat]
  BY <1>2, <1>3, <1>5
<1> QED BY <1>2, <1>4, <1>6 DEF chain, syl, speed, rarity

\* The terms behind one are those behind the next, and the next.
LEMMA BehindIs ==
    ASSUME NEW P \in [1 .. 5 -> Nat]
    PROVE  /\ \A k \in 1 .. 5 : Behind(P, k) \in Nat
           /\ Behind(P, 5) = 0
           /\ \A k \in 2 .. 5 : Behind(P, k - 1) = Behind(P, k) + P[k]
           /\ \A k, m \in 1 .. 5 : k <= m => Behind(P, m) <= Behind(P, k)
           /\ sumParts(P) = Behind(P, 1) + P[1]
           /\ sumParts(P) \in Nat
<1>1. P[1] \in Nat /\ P[2] \in Nat /\ P[3] \in Nat /\ P[4] \in Nat /\ P[5] \in Nat
  OBVIOUS
<1>2. /\ Behind(P, 1) = P[2] + P[3] + P[4] + P[5]
      /\ Behind(P, 2) = P[3] + P[4] + P[5]
      /\ Behind(P, 3) = P[4] + P[5]
      /\ Behind(P, 4) = P[5]
      /\ Behind(P, 5) = 0
  BY DEF Behind
<1>3. \A k \in 1 .. 5 : k = 1 \/ k = 2 \/ k = 3 \/ k = 4 \/ k = 5
  OBVIOUS
<1>4. \A k \in 1 .. 5 : Behind(P, k) \in Nat
  BY <1>1, <1>2, <1>3
<1>5. \A k \in 2 .. 5 : Behind(P, k - 1) = Behind(P, k) + P[k]
  <2>1. \A k \in 2 .. 5 : k = 2 \/ k = 3 \/ k = 4 \/ k = 5
    OBVIOUS
  <2>2. 2 - 1 = 1 /\ 3 - 1 = 2 /\ 4 - 1 = 3 /\ 5 - 1 = 4
    OBVIOUS
  <2>3. /\ Behind(P, 1) = Behind(P, 2) + P[2] /\ Behind(P, 2) = Behind(P, 3) + P[3]
        /\ Behind(P, 3) = Behind(P, 4) + P[4] /\ Behind(P, 4) = Behind(P, 5) + P[5]
    BY <1>1, <1>2
  <2> QED BY <2>1, <2>2, <2>3
<1>6. /\ Behind(P, 2) <= Behind(P, 1) /\ Behind(P, 3) <= Behind(P, 2)
      /\ Behind(P, 4) <= Behind(P, 3) /\ Behind(P, 5) <= Behind(P, 4)
  BY <1>1, <1>2
<1>7. \A k, m \in 1 .. 5 : k <= m => Behind(P, m) <= Behind(P, k)
  <2>1. \A k, m \in 1 .. 5 : k <= m =>
            \/ k = m
            \/ k = 1 /\ (m = 2 \/ m = 3 \/ m = 4 \/ m = 5)
            \/ k = 2 /\ (m = 3 \/ m = 4 \/ m = 5)
            \/ k = 3 /\ (m = 4 \/ m = 5)
            \/ k = 4 /\ m = 5
    OBVIOUS
  <2>2. \A k \in 1 .. 5 : Behind(P, k) <= Behind(P, k)
    BY <1>4
  <2>3. /\ Behind(P, 3) <= Behind(P, 1) /\ Behind(P, 4) <= Behind(P, 1)
        /\ Behind(P, 5) <= Behind(P, 1) /\ Behind(P, 4) <= Behind(P, 2)
        /\ Behind(P, 5) <= Behind(P, 2) /\ Behind(P, 5) <= Behind(P, 3)
    BY <1>1, <1>2
  <2> QED BY <1>6, <2>1, <2>2, <2>3
<1>8. sumParts(P) = Behind(P, 1) + P[1] /\ sumParts(P) \in Nat
  BY <1>1, <1>2 DEF sumParts
<1> QED BY <1>2, <1>4, <1>5, <1>7, <1>8

\* Nothing is trimmed yet.
LEMMA TrimStarts == TrimInit => TrimInv
<1> SUFFICES ASSUME TrimInit PROVE TrimInv
  OBVIOUS
<1>1. /\ word \in [chainLength : ChainLengths, syllables : SyllableCounts,
                   left : Lefts, options : OptionCounts]
      /\ parts = TermsOf(word) /\ i = 5 /\ stage = "trim"
      /\ overflow = sumParts(parts) - maxPointsPerWord
  BY DEF TrimInit, TermsOf
<1>2. TermsOf(word) \in [1 .. 5 -> Nat]
  BY <1>1, TermsAre
<1>3. sumParts(parts) \in Nat /\ maxPointsPerWord \in Nat
  BY <1>1, <1>2, BehindIs DEF maxPointsPerWord
<1>4. TrimTypes
  BY <1>1, <1>2, <1>3 DEF TrimTypes
<1>5. overflow = Excess /\ \A k \in 1 .. 5 : ~ (k > i)
  BY <1>1 DEF Excess
<1> QED BY <1>1, <1>4, <1>5 DEF TrimInv

\* One term more has given up what it could.
LEMMA TrimGoesOn == TrimInv /\ Trim => TrimInv'
<1> SUFFICES ASSUME TrimInv, Trim PROVE TrimInv'
  OBVIOUS
<1> DEFINE P == TermsOf(word)
<1>1. /\ stage = "trim" /\ i \in 1 .. 5 /\ overflow > 0 /\ overflow \in Int
      /\ parts' = [parts EXCEPT ![i] = @ - Lesser(parts[i], overflow)]
      /\ overflow' = overflow - Lesser(parts[i], overflow)
      /\ i' = i - 1
      /\ UNCHANGED <<word, shown, stage>>
      /\ word \in [chainLength : ChainLengths, syllables : SyllableCounts,
                   left : Lefts, options : OptionCounts]
      /\ parts \in [1 .. 5 -> Nat]
  BY DEF Trim, Cut, TrimInv, TrimTypes
<1>2. /\ \A k \in 1 .. 5 : parts[k] = IF k > i THEN Kept(P, k) ELSE P[k]
      /\ overflow = IF i = 5 THEN Excess ELSE Greater(Excess - Behind(P, i), 0)
  BY <1>1 DEF TrimInv
<1>3. P \in [1 .. 5 -> Nat] /\ P' = P /\ Excess' = Excess
  BY <1>1, TermsAre DEF TermsOf, Excess
<1>4. /\ \A k \in 1 .. 5 : Behind(P, k) \in Nat /\ P[k] \in Nat
      /\ Behind(P, 5) = 0
      /\ \A k \in 2 .. 5 : Behind(P, k - 1) = Behind(P, k) + P[k]
      /\ sumParts(P) = Behind(P, 1) + P[1] /\ sumParts(P) \in Nat
  BY <1>3, BehindIs
<1>5. Excess = sumParts(P) - 100 /\ Excess \in Int
  BY <1>4 DEF Excess, maxPointsPerWord
<1> HIDE DEF P
<1>6. overflow = Excess - Behind(P, i) /\ parts[i] = P[i]
  BY <1>1, <1>2, <1>4, <1>5 DEF Greater
<1>7. Kept(P, i) = P[i] - Lesser(P[i], overflow)
  <2>1. Greater(sumParts(P) - maxPointsPerWord - Behind(P, i), 0) = overflow
    BY <1>1, <1>4, <1>5, <1>6 DEF Greater, maxPointsPerWord
  <2> QED BY <2>1 DEF Kept
<1>8. \A k \in 1 .. 5 : parts'[k] = IF k > i' THEN Kept(P, k) ELSE P[k]
  <2> SUFFICES ASSUME NEW k \in 1 .. 5
               PROVE  parts'[k] = IF k > i' THEN Kept(P, k) ELSE P[k]
    OBVIOUS
  <2>1. CASE k = i
    BY <1>1, <1>6, <1>7, <2>1
  <2>2. CASE k # i
    <3>1. parts'[k] = parts[k] /\ (k > i' <=> k > i)
      BY <1>1, <2>2
    <3> QED BY <1>2, <3>1
  <2> QED BY <2>1, <2>2
<1>9. overflow' = Greater(overflow - P[i], 0)
  BY <1>1, <1>4, <1>6 DEF Greater, Lesser
<1>10. i' = 0 => overflow' = 0
  <2> SUFFICES ASSUME i = 1 PROVE overflow' = 0
    BY <1>1
  <2>1. overflow - P[i] = -100
    BY <1>4, <1>5, <1>6
  <2> QED BY <1>9, <2>1 DEF Greater
<1>11. i' > 0 => i' # 5 /\ overflow' = Greater(Excess - Behind(P, i'), 0)
  <2> SUFFICES ASSUME i \in 2 .. 5 PROVE i' # 5 /\ overflow' = Greater(Excess - Behind(P, i'), 0)
    BY <1>1
  <2>1. Behind(P, i') = Behind(P, i) + P[i]
    BY <1>1, <1>4
  <2>2. Excess - Behind(P, i') = overflow - P[i]
    BY <1>1, <1>4, <1>5, <1>6, <2>1
  <2> QED BY <1>1, <1>9, <2>2
<1>12. TrimTypes'
  <2>1. parts' \in [1 .. 5 -> Nat]
    <3>1. parts[i] - Lesser(parts[i], overflow) \in Nat
      BY <1>1, <1>4, <1>6 DEF Lesser
    <3> QED BY <1>1, <3>1
  <2>2. overflow' \in Int /\ i' \in 0 .. 5
    BY <1>1, <1>4, <1>6 DEF Lesser
  <2> QED BY <1>1, <2>1, <2>2 DEF TrimTypes
<1> QED BY <1>1, <1>3, <1>8, <1>10, <1>11, <1>12 DEF TrimInv, P

\* The terms the loop did not come to have nothing to give up.
LEMMA TrimEnds == TrimInv /\ Report => TrimInv'
<1> SUFFICES ASSUME TrimInv, Report PROVE TrimInv'
  OBVIOUS
<1> DEFINE P == TermsOf(word)
<1>1. /\ stage = "trim" /\ (i < 1 \/ overflow <= 0) /\ i \in 0 .. 5 /\ overflow \in Int
      /\ shown' = Line(1) \o Line(2) \o Line(3) \o Line(4) \o Line(5)
      /\ stage' = "done"
      /\ UNCHANGED <<word, parts, i, overflow>>
      /\ word \in [chainLength : ChainLengths, syllables : SyllableCounts,
                   left : Lefts, options : OptionCounts]
      /\ parts \in [1 .. 5 -> Nat]
  BY DEF Report, TrimInv, TrimTypes
<1>2. /\ \A k \in 1 .. 5 : parts[k] = IF k > i THEN Kept(P, k) ELSE P[k]
      /\ i > 0 => overflow = IF i = 5 THEN Excess ELSE Greater(Excess - Behind(P, i), 0)
  BY <1>1 DEF TrimInv
<1>3. P \in [1 .. 5 -> Nat]
  BY <1>1, TermsAre
<1>4. /\ \A k \in 1 .. 5 : Behind(P, k) \in Nat /\ P[k] \in Nat
      /\ Behind(P, 5) = 0
      /\ \A k, m \in 1 .. 5 : k <= m => Behind(P, m) <= Behind(P, k)
      /\ sumParts(P) \in Nat
  BY <1>3, BehindIs
<1>5. Excess = sumParts(P) - maxPointsPerWord /\ Excess \in Int
  BY <1>4 DEF Excess, maxPointsPerWord
<1> HIDE DEF P
<1>6. ASSUME NEW k \in 1 .. 5, k <= i
      PROVE  Kept(P, k) = P[k]
  <2>1. i \in 1 .. 5 /\ overflow <= 0
    BY <1>1, <1>6
  <2>2. Excess - Behind(P, i) <= 0
    BY <1>2, <1>4, <1>5, <2>1 DEF Greater
  <2>3. /\ Behind(P, i) <= Behind(P, k)
        /\ Behind(P, i) \in Nat /\ Behind(P, k) \in Nat /\ P[k] \in Nat
    BY <1>4, <1>6, <2>1
  <2>4. Greater(Excess - Behind(P, k), 0) = 0
    BY <1>5, <2>2, <2>3 DEF Greater
  <2>5. Lesser(P[k], 0) = 0
    BY <2>3 DEF Lesser
  <2>6. Kept(P, k) = P[k] - 0
    BY <1>5, <2>4, <2>5 DEF Kept
  <2> QED BY <2>3, <2>6
<1>7. \A k \in 1 .. 5 : parts[k] = Kept(P, k)
  BY <1>1, <1>2, <1>6
<1>8. parts = Trimmed(P)
  BY <1>1, <1>7 DEF Trimmed
<1>9. /\ parts' = Trimmed(TermsOf(word'))
      /\ shown' = Line(1)' \o Line(2)' \o Line(3)' \o Line(4)' \o Line(5)'
  BY <1>1, <1>8 DEF Line, P
<1>10. TrimTypes'
  BY <1>1 DEF TrimTypes
<1>11. TermsOf(word)' = TermsOf(word')
  BY DEF TermsOf
<1> QED BY <1>1, <1>9, <1>10, <1>11 DEF TrimInv

\* How far the trimming has come, at every iteration.
THEOREM TrimInvariance == TrimSpec => []TrimInv
<1>1. TrimInv /\ [TrimNext]_trimVars => TrimInv'
  <2> SUFFICES ASSUME TrimInv, [TrimNext]_trimVars PROVE TrimInv'
    OBVIOUS
  <2>1. CASE UNCHANGED trimVars
    BY <2>1 DEF trimVars, TrimInv, TrimTypes, TermsOf, Excess, Line
  <2> QED BY <2>1, TrimGoesOn, TrimEnds DEF TrimNext
<1> QED BY <1>1, TrimStarts, PTL DEF TrimSpec

\* A record is listed.
Lists(s, r) == \E k \in DOMAIN s : s[k] = r

\* What two lists list together.
LEMMA ListsBoth ==
    ASSUME NEW S, NEW s \in Seq(S), NEW t \in Seq(S), NEW r
    PROVE  /\ s \o t \in Seq(S)
           /\ Lists(s \o t, r) <=> Lists(s, r) \/ Lists(t, r)
<1> DEFINE a == Len(s)
           b == Len(t)
           st == s \o t
<1>1. /\ a \in Nat /\ b \in Nat /\ DOMAIN s = 1 .. a /\ DOMAIN t = 1 .. b
      /\ st \in Seq(S) /\ DOMAIN st = 1 .. a + b
      /\ \A k \in 1 .. a + b : st[k] = IF k <= a THEN s[k] ELSE t[k - a]
  OBVIOUS
<1> HIDE DEF a, b, st
<1>2. \A k \in 1 .. a : k \in 1 .. a + b /\ st[k] = s[k]
  BY <1>1
<1>3. \A k \in 1 .. b : a + k \in 1 .. a + b /\ st[a + k] = t[k]
  <2> SUFFICES ASSUME NEW k \in 1 .. b PROVE a + k \in 1 .. a + b /\ st[a + k] = t[k]
    OBVIOUS
  <2>1. a + k \in 1 .. a + b /\ ~ (a + k <= a) /\ (a + k) - a = k
    BY <1>1
  <2> QED BY <1>1, <2>1
<1>4. \A k \in 1 .. a + b :
         (k \in 1 .. a /\ st[k] = s[k]) \/ (k - a \in 1 .. b /\ st[k] = t[k - a])
  BY <1>1
<1>5. Lists(st, r) <=> Lists(s, r) \/ Lists(t, r)
  <2>1. Lists(s, r) => Lists(st, r)
    BY <1>1, <1>2 DEF Lists
  <2>2. Lists(t, r) => Lists(st, r)
    BY <1>1, <1>3 DEF Lists
  <2>3. Lists(st, r) => Lists(s, r) \/ Lists(t, r)
    BY <1>1, <1>4 DEF Lists
  <2> QED BY <2>1, <2>2, <2>3
<1> QED BY <1>1, <1>5 DEF st

\* The breakdown lists the terms that count.
LEMMA BreakdownIs ==
    ASSUME parts \in [1 .. 5 -> Nat],
           shown = Line(1) \o Line(2) \o Line(3) \o Line(4) \o Line(5), NEW r
    PROVE  Lists(shown, r) <=>
             \E k \in 1 .. 5 : parts[k] > 0 /\ r = [kind |-> Kinds[k], value |-> parts[k]]
<1> DEFINE S == {[kind |-> Kinds[k], value |-> parts[k]] : k \in 1 .. 5}
<1>1. \A k \in 1 .. 5 : /\ Line(k) \in Seq(S)
                        /\ Lists(Line(k), r) <=>
                             parts[k] > 0 /\ r = [kind |-> Kinds[k], value |-> parts[k]]
  <2> SUFFICES ASSUME NEW k \in 1 .. 5
               PROVE  /\ Line(k) \in Seq(S)
                      /\ Lists(Line(k), r) <=>
                           parts[k] > 0 /\ r = [kind |-> Kinds[k], value |-> parts[k]]
    OBVIOUS
  <2> DEFINE rec == [kind |-> Kinds[k], value |-> parts[k]]
  <2>1. rec \in S
    OBVIOUS
  <2> HIDE DEF rec, S
  <2>2. CASE parts[k] > 0
    <3>1. Line(k) = <<rec>>
      BY <2>2 DEF Line, rec
    <3>2. <<rec>> \in Seq(S) /\ (Lists(<<rec>>, r) <=> r = rec)
      BY <2>1 DEF Lists
    <3> QED BY <2>2, <3>1, <3>2 DEF rec
  <2>3. CASE ~ (parts[k] > 0)
    <3>1. Line(k) = <<>>
      BY <2>3 DEF Line
    <3>2. <<>> \in Seq(S) /\ ~ Lists(<<>>, r)
      BY DEF Lists
    <3> QED BY <2>3, <3>1, <3>2
  <2> QED BY <2>2, <2>3
<1> HIDE DEF S
<1>2. Line(1) \in Seq(S) /\ Line(2) \in Seq(S) /\ Line(3) \in Seq(S)
      /\ Line(4) \in Seq(S) /\ Line(5) \in Seq(S)
  BY <1>1
<1> DEFINE s2 == Line(1) \o Line(2)
           s3 == s2 \o Line(3)
           s4 == s3 \o Line(4)
<1>3. s2 \in Seq(S) /\ (Lists(s2, r) <=> Lists(Line(1), r) \/ Lists(Line(2), r))
  BY <1>2, ListsBoth
<1> HIDE DEF s2
<1>4. s3 \in Seq(S) /\ (Lists(s3, r) <=> Lists(s2, r) \/ Lists(Line(3), r))
  BY <1>2, <1>3, ListsBoth
<1> HIDE DEF s3
<1>5. s4 \in Seq(S) /\ (Lists(s4, r) <=> Lists(s3, r) \/ Lists(Line(4), r))
  BY <1>2, <1>4, ListsBoth
<1> HIDE DEF s4
<1>6. Lists(s4 \o Line(5), r) <=> Lists(s4, r) \/ Lists(Line(5), r)
  BY <1>2, <1>5, ListsBoth
<1>7. shown = s4 \o Line(5)
  BY DEF s2, s3, s4
<1>8. Lists(shown, r) <=> \/ Lists(Line(1), r) \/ Lists(Line(2), r) \/ Lists(Line(3), r)
                          \/ Lists(Line(4), r) \/ Lists(Line(5), r)
  BY <1>3, <1>4, <1>5, <1>6, <1>7
<1>9. \A k \in 1 .. 5 : k = 1 \/ k = 2 \/ k = 3 \/ k = 4 \/ k = 5
  OBVIOUS
<1>10. Lists(shown, r) <=> \E k \in 1 .. 5 : Lists(Line(k), r)
  BY <1>8, <1>9
<1> QED BY <1>1, <1>10

\* The loop ends where the closed form says.
LEMMA TrimIsSaid == TrimInv => TrimsAsSaid
<1> SUFFICES ASSUME TrimInv, stage = "done"
             PROVE  /\ parts = Trimmed(TermsOf(word))
                    /\ sumParts(parts) = PointsOf(word)
                    /\ PointsOf(word) = Lesser(sumParts(TermsOf(word)), maxPointsPerWord)
                    /\ parts[1] = TermsOf(word)[1]
                    /\ parts[2] = TermsOf(word)[2]
                    /\ \A k \in 1 .. 5 :
                          parts[k] > 0 <=> \E m \in DOMAIN shown :
                                               shown[m] = [kind |-> Kinds[k], value |-> parts[k]]
                    /\ \A k \in 1 .. 5 : parts[k] >= 0
  BY DEF TrimsAsSaid
<1> DEFINE P == TermsOf(word)
<1>1. /\ parts = Trimmed(P) /\ parts \in [1 .. 5 -> Nat]
      /\ shown = Line(1) \o Line(2) \o Line(3) \o Line(4) \o Line(5)
      /\ word \in [chainLength : ChainLengths, syllables : SyllableCounts,
                   left : Lefts, options : OptionCounts]
  BY DEF TrimInv, TrimTypes
<1>2. sumParts(parts) = PointsOf(word)
  BY <1>1 DEF PointsOf, TermsOf, pointsFor
<1>3. PointsOf(word) = Lesser(sumParts(P), maxPointsPerWord)
  <2> DEFINE c == word.chainLength
             s == word.syllables
             l == word.left
             o == word.options
  <2>1. /\ PointsOf(word) = pointsFor(c, s, l, Limit, o)
        /\ P = Terms(c, s, l, Limit, o)
    BY DEF PointsOf, TermsOf
  <2>2. /\ c \in Nat \ {0} /\ l \in Int /\ o \in Nat /\ Limit \in Nat \ {0}
        /\ s \in Nat /\ s >= MinSyllables
    BY <1>1, InputsAre
  <2> HIDE DEF P, c, s, l, o
  <2>3. pointsFor(c, s, l, Limit, o)
          = Lesser(sumParts(Terms(c, s, l, Limit, o)), maxPointsPerWord)
    BY <2>2, PointsRange
  <2> QED BY <2>1, <2>3
<1>4. P \in [1 .. 5 -> Nat] /\ P[1] = 10 /\ P[2] \in 2 .. 30
  BY <1>1, TermsAre DEF basePoints
<1> HIDE DEF P
<1>5. parts[1] = P[1] /\ parts[2] = P[2]
  <2>1. /\ sumParts(P) = Behind(P, 1) + P[1] /\ Behind(P, 1) \in Nat /\ Behind(P, 2) \in Nat
        /\ Behind(P, 1) = Behind(P, 2) + P[2]
    <3>1. 2 \in 2 .. 5 /\ 2 - 1 = 1 /\ 1 \in 1 .. 5 /\ 2 \in 1 .. 5
      OBVIOUS
    <3> QED BY <1>4, <3>1, BehindIs
  <2>2. Greater(sumParts(P) - maxPointsPerWord - Behind(P, 1), 0) = 0
    BY <1>4, <2>1 DEF Greater, maxPointsPerWord
  <2>3. Greater(sumParts(P) - maxPointsPerWord - Behind(P, 2), 0) = 0
    BY <1>4, <2>1 DEF Greater, maxPointsPerWord
  <2>4. Lesser(P[1], 0) = 0 /\ Lesser(P[2], 0) = 0
    BY <1>4 DEF Lesser
  <2>5. Kept(P, 1) = P[1] - 0 /\ Kept(P, 2) = P[2] - 0
    BY <2>2, <2>3, <2>4 DEF Kept
  <2>6. parts[1] = Kept(P, 1) /\ parts[2] = Kept(P, 2)
    BY <1>1 DEF Trimmed
  <2> QED BY <1>4, <2>5, <2>6
<1>6. ASSUME NEW k \in 1 .. 5
      PROVE  parts[k] > 0 <=> Lists(shown, [kind |-> Kinds[k], value |-> parts[k]])
  <2> DEFINE r == [kind |-> Kinds[k], value |-> parts[k]]
  <2>1. Lists(shown, r) <=>
          \E m \in 1 .. 5 : parts[m] > 0 /\ r = [kind |-> Kinds[m], value |-> parts[m]]
    BY <1>1, BreakdownIs
  <2>2. \A m \in 1 .. 5 : r = [kind |-> Kinds[m], value |-> parts[m]] => parts[m] = parts[k]
    <3>1. \A m \in 1 .. 5 : [kind |-> Kinds[m], value |-> parts[m]].value = parts[m]
      OBVIOUS
    <3>2. r.value = parts[k]
      OBVIOUS
    <3> HIDE DEF r
    <3> QED BY <3>1, <3>2
  <2> QED BY <2>1, <2>2
<1>7. \A k \in 1 .. 5 : parts[k] >= 0
  BY <1>1
<1> QED BY <1>1, <1>2, <1>3, <1>5, <1>6, <1>7 DEF P, Lists

\* pointsFor's loop takes what its comment says: the word is worth its terms or the cap, the
\* base and the chain term are whole, and the breakdown adds up to the points; for every
\* word, clock and count of answers.
THEOREM TrimsAsSaidAlways == TrimSpec => []TrimsAsSaid
BY TrimInvariance, TrimIsSaid, PTL

\* A better answer is never worth less: an answer as good in every respect.
THEOREM BetterIsNeverWorthLessAlways == TrimSpec => []BetterIsNeverWorthLess
<1>1. TrimInv => BetterIsNeverWorthLess
  <2> SUFFICES ASSUME TrimInv,
                      NEW l \in Lefts, NEW o \in OptionCounts, NEW s \in SyllableCounts,
                      NEW c \in ChainLengths, l <= word.left, word.options \in 1 .. o,
                      s <= word.syllables, c <= word.chainLength
               PROVE  pointsFor(c, s, l, Limit, o) <= PointsOf(word)
    BY DEF BetterIsNeverWorthLess
  <2>1. word \in [chainLength : ChainLengths, syllables : SyllableCounts,
                  left : Lefts, options : OptionCounts]
    BY DEF TrimInv, TrimTypes
  <2>2. /\ word.chainLength \in Nat \ {0} /\ c \in Nat \ {0}
        /\ word.syllables \in Nat /\ s \in Nat /\ s >= MinSyllables
        /\ word.left \in Int /\ l \in Int
        /\ word.options \in Nat \ {0} /\ o \in Nat /\ word.options <= o
        /\ Limit \in Nat \ {0}
    <3>1. word.options # 0 /\ word.options <= o
      BY InputsAssumption
    <3> QED BY <2>1, <3>1, InputsAre, InputsAssumption
  <2> QED BY <2>2, PointsGrow DEF PointsOf
<1> QED BY <1>1, TrimInvariance, PTL

----------------------------------------------------------------------------
(***************************************************************************)
(* The bot's words.  They are finitely many and each has a place in the    *)
(* store's order, so the moves of a position can be put in the order of    *)
(* what they hand over, and every one gets a place.                        *)
(***************************************************************************)
\* There are finitely many words, each at one place and linking two syllables.
LEMMA WordsAre ==
    /\ IsFiniteSet(Word)
    /\ \A w \in Word : first(w) \in Syllable /\ last(w) \in Syllable
    /\ \A w \in Word : place(w) \in Nat
    /\ \A v, w \in Word : place(v) = place(w) => v = w
<1> DEFINE len == Len(WordOrder)
<1>1. len \in Nat /\ DOMAIN WordOrder = 1 .. len /\ WordOrder \in [1 .. len -> Word]
  BY SearchLimits
<1>2. Word = {WordOrder[k] : k \in 1 .. len}
  BY <1>1 DEF Word, ToSet
<1>3. IsFiniteSet(Word)
  <2>1. \A w \in Word : \E k \in 1 .. len : WordOrder[k] = w
    BY <1>2
  <2>2. WordOrder \in Surjection(1 .. len, Word)
    BY <1>1, <2>1 DEF Surjection
  <2>3. IsFiniteSet(1 .. len)
    BY <1>1, FS_Interval
  <2> QED BY <2>2, <2>3, FS_Surjection
<1>4. ASSUME NEW w \in Word
      PROVE  place(w) \in 1 .. len /\ WordOrder[place(w)] = w
  <2>1. \E k \in DOMAIN WordOrder : WordOrder[k] = w
    BY <1>1, <1>2
  <2>2. place(w) \in DOMAIN WordOrder /\ WordOrder[place(w)] = w
    BY <2>1 DEF place
  <2> QED BY <1>1, <2>2
<1>5. \A w \in Word : place(w) \in Nat
  BY <1>1, <1>4
<1>6. \A v, w \in Word : place(v) = place(w) => v = w
  BY <1>4
<1>7. \A w \in Word : first(w) \in Syllable /\ last(w) \in Syllable
  BY DEF Syllable
<1> QED BY <1>3, <1>5, <1>6, <1>7

\* What can be played in a position, and what comes of playing it.
LEMMA RepliesAre ==
    ASSUME NEW p \in Position
    PROVE  /\ replies(p) \in SUBSET Word
           /\ IsFiniteSet(replies(p)) /\ Cardinality(replies(p)) \in Nat
           /\ \A w \in Word : after(p, w) \in Position /\ handsOver(p, w) \in Nat
<1>1. ASSUME NEW r \in Position
      PROVE  /\ replies(r) \in SUBSET Word
             /\ IsFiniteSet(replies(r)) /\ Cardinality(replies(r)) \in Nat
  <2>1. replies(r) \in SUBSET Word
    BY DEF replies, wordsStartingWith, Position
  <2>2. IsFiniteSet(replies(r))
    BY <2>1, WordsAre, FS_Subset
  <2> QED BY <2>1, <2>2, FS_CardinalityType
<1>2. \A w \in Word : after(p, w) \in Position
  BY WordsAre DEF after, Position
<1>3. \A w \in Word : handsOver(p, w) \in Nat
  BY <1>1, <1>2 DEF handsOver
<1> QED BY <1>1, <1>2, <1>3

\* Of two words one comes before the other, and what comes before it comes before the other.
LEMMA WordsAreOrdered ==
    ASSUME NEW p \in Position
    PROVE  /\ \A w \in Word : ~ comesBefore(p, w, w)
           /\ \A v, w \in Word : v = w \/ comesBefore(p, v, w) \/ comesBefore(p, w, v)
           /\ \A u, v, w \in Word :
                 comesBefore(p, u, v) /\ comesBefore(p, v, w) => comesBefore(p, u, w)
<1>1. \A w \in Word : handsOver(p, w) \in Nat /\ place(w) \in Nat
  BY RepliesAre, WordsAre
<1>2. \A w \in Word : ~ comesBefore(p, w, w)
  BY <1>1 DEF comesBefore
<1>3. \A v, w \in Word : v = w \/ comesBefore(p, v, w) \/ comesBefore(p, w, v)
  <2>1. \A v, w \in Word : place(v) = place(w) => v = w
    BY WordsAre
  <2> QED BY <1>1, <2>1 DEF comesBefore
<1>4. ASSUME NEW u \in Word, NEW v \in Word, NEW w \in Word,
             comesBefore(p, u, v), comesBefore(p, v, w)
      PROVE  comesBefore(p, u, w)
  <2> DEFINE hu == handsOver(p, u)
             hv == handsOver(p, v)
             hw == handsOver(p, w)
             pu == place(u)
             pv == place(v)
             pw == place(w)
  <2>1. hu \in Nat /\ hv \in Nat /\ hw \in Nat /\ pu \in Nat /\ pv \in Nat /\ pw \in Nat
    BY <1>1
  <2>2. (hu < hv \/ (hu = hv /\ pu < pv)) /\ (hv < hw \/ (hv = hw /\ pv < pw))
    BY <1>4 DEF comesBefore
  <2>3. hu < hw \/ (hu = hw /\ pu < pw)
    <3> HIDE DEF hu, hv, hw, pu, pv, pw
    <3> QED BY <2>1, <2>2
  <2> QED BY <2>3 DEF comesBefore
<1> QED BY <1>2, <1>3, <1>4

\* The moves that come before a move.
Ahead(p, moves, w) == {v \in moves : comesBefore(p, v, w)}

\* A move that comes before another has fewer before it.
LEMMA EarlierHasFewerAhead ==
    ASSUME NEW p \in Position, NEW moves \in SUBSET Word, NEW v \in moves, NEW w \in moves,
           comesBefore(p, v, w)
    PROVE  Cardinality(Ahead(p, moves, v)) < Cardinality(Ahead(p, moves, w))
<1>1. v \notin Ahead(p, moves, v) /\ v \in Ahead(p, moves, w)
  <2>1. v \in Word
    OBVIOUS
  <2>2. ~ comesBefore(p, v, v)
    BY <2>1, WordsAreOrdered
  <2> QED BY <2>2 DEF Ahead
<1>2. Ahead(p, moves, v) \in SUBSET Ahead(p, moves, w)
  <2> SUFFICES ASSUME NEW u \in Ahead(p, moves, v) PROVE u \in Ahead(p, moves, w)
    OBVIOUS
  <2>1. u \in moves /\ u \in Word /\ v \in Word /\ w \in Word /\ comesBefore(p, u, v)
    BY DEF Ahead
  <2>2. comesBefore(p, u, w)
    BY <2>1, WordsAreOrdered
  <2> QED BY <2>1, <2>2 DEF Ahead
<1>3. IsFiniteSet(Ahead(p, moves, w))
  <2>1. Ahead(p, moves, w) \in SUBSET Word
    BY DEF Ahead
  <2> QED BY <2>1, WordsAre, FS_Subset
<1>4. /\ IsFiniteSet(Ahead(p, moves, v))
      /\ Cardinality(Ahead(p, moves, v)) <= Cardinality(Ahead(p, moves, w))
      /\ Cardinality(Ahead(p, moves, v)) # Cardinality(Ahead(p, moves, w))
  BY <1>1, <1>2, <1>3, FS_Subset
<1>5. Cardinality(Ahead(p, moves, v)) \in Nat /\ Cardinality(Ahead(p, moves, w)) \in Nat
  BY <1>3, <1>4, FS_CardinalityType
<1> QED BY <1>4, <1>5

\* So every place is taken, by one move.
LEMMA EveryMoveHasAPlace ==
    ASSUME NEW p \in Position, NEW moves \in SUBSET Word
    PROVE  /\ Cardinality(moves) \in Nat
           /\ \A w \in moves : Cardinality(Ahead(p, moves, w)) \in 0 .. Cardinality(moves) - 1
           /\ \A v, w \in moves :
                 Cardinality(Ahead(p, moves, v)) = Cardinality(Ahead(p, moves, w)) => v = w
           /\ \A k \in 1 .. Cardinality(moves) :
                 \E w \in moves : Cardinality(Ahead(p, moves, w)) = k - 1
<1> DEFINE c == Cardinality(moves)
           rank(w) == Cardinality(Ahead(p, moves, w))
<1>1. IsFiniteSet(moves) /\ c \in Nat
  <2>1. IsFiniteSet(moves)
    BY WordsAre, FS_Subset
  <2> QED BY <2>1, FS_CardinalityType
<1>2. ASSUME NEW w \in moves
      PROVE  rank(w) \in 0 .. c - 1
  <2>1. Ahead(p, moves, w) \in SUBSET moves /\ w \notin Ahead(p, moves, w)
    <3>1. ~ comesBefore(p, w, w)
      BY WordsAreOrdered
    <3> QED BY <3>1 DEF Ahead
  <2>2. IsFiniteSet(Ahead(p, moves, w)) /\ rank(w) <= c /\ rank(w) # c
    BY <1>1, <2>1, FS_Subset
  <2>3. rank(w) \in Nat
    BY <2>2, FS_CardinalityType
  <2> HIDE DEF rank, c
  <2> QED BY <1>1, <2>2, <2>3
<1>3. ASSUME NEW v \in moves, NEW w \in moves, rank(v) = rank(w)
      PROVE  v = w
  <2>1. v \in Word /\ w \in Word
    OBVIOUS
  <2>2. v = w \/ comesBefore(p, v, w) \/ comesBefore(p, w, v)
    BY <2>1, WordsAreOrdered
  <2>3. rank(v) \in Int /\ rank(w) \in Int
    BY <1>2
  <2>4. comesBefore(p, v, w) => rank(v) < rank(w)
    BY EarlierHasFewerAhead
  <2>5. comesBefore(p, w, v) => rank(w) < rank(v)
    BY EarlierHasFewerAhead
  <2> HIDE DEF rank
  <2> QED BY <1>3, <2>2, <2>3, <2>4, <2>5
<1> HIDE DEF rank, c
<1> DEFINE f == [w \in moves |-> rank(w) + 1]
<1>4. f \in Injection(moves, 1 .. c)
  <2>1. \A w \in moves : rank(w) + 1 \in 1 .. c /\ rank(w) \in Int
    BY <1>1, <1>2
  <2>2. \A v, w \in moves : rank(v) + 1 = rank(w) + 1 => v = w
    BY <1>3, <2>1
  <2> QED BY <2>1, <2>2 DEF Injection, IsInjective
<1>5. f \in Surjection(moves, 1 .. c)
  <2>1. IsFiniteSet(1 .. c) /\ Cardinality(1 .. c) = Cardinality(moves)
    BY <1>1, FS_Interval DEF c
  <2> HIDE DEF f
  <2> QED BY <1>4, <2>1, FS_Injection
<1>6. ASSUME NEW k \in 1 .. c
      PROVE  \E w \in moves : rank(w) = k - 1
  <2>1. PICK w \in moves : f[w] = k
    BY <1>5 DEF Surjection
  <2>2. rank(w) + 1 = k /\ rank(w) \in Int
    BY <1>2, <2>1
  <2> QED BY <1>1, <2>2
<1> QED BY <1>1, <1>2, <1>3, <1>6 DEF rank, c

\* The tightest first: every move once, and none after one that it comes before.
LEMMA TightestAre ==
    ASSUME NEW p \in Position, NEW moves \in SUBSET Word
    PROVE  /\ Cardinality(moves) \in Nat
           /\ tightestFirst(p, moves) \in Seq(moves)
           /\ Len(tightestFirst(p, moves)) = Cardinality(moves)
           /\ DOMAIN tightestFirst(p, moves) = 1 .. Cardinality(moves)
           /\ \A w \in moves : \E k \in 1 .. Cardinality(moves) : tightestFirst(p, moves)[k] = w
           /\ moves # {} =>
                 /\ 1 \in 1 .. Cardinality(moves)
                 /\ \A w \in moves : ~ comesBefore(p, w, tightestFirst(p, moves)[1])
<1> DEFINE c == Cardinality(moves)
           rank(w) == Cardinality(Ahead(p, moves, w))
           at(k) == CHOOSE w \in moves : rank(w) = k - 1
           t == tightestFirst(p, moves)
<1>1. /\ c \in Nat
      /\ \A w \in moves : rank(w) \in 0 .. c - 1
      /\ \A v, w \in moves : rank(v) = rank(w) => v = w
      /\ \A k \in 1 .. c : \E w \in moves : rank(w) = k - 1
  BY EveryMoveHasAPlace
<1>2. t = [k \in 1 .. c |-> at(k)]
  BY DEF tightestFirst, Ahead
<1> HIDE DEF t, c, rank
<1>3. ASSUME NEW k \in 1 .. c
      PROVE  at(k) \in moves /\ rank(at(k)) = k - 1
  BY <1>1
<1> HIDE DEF at
<1>4. t \in [1 .. c -> moves]
  BY <1>2, <1>3
<1>5. t \in Seq(moves) /\ Len(t) = c /\ DOMAIN t = 1 .. c
  <2>1. t \in Seq(moves) /\ DOMAIN t = 1 .. c
    BY <1>1, <1>4
  <2> QED BY <1>1, <2>1
<1>6. ASSUME NEW w \in moves
      PROVE  \E k \in 1 .. c : t[k] = w
  <2>1. rank(w) + 1 \in 1 .. c /\ rank(w) + 1 - 1 = rank(w)
    BY <1>1
  <2>2. at(rank(w) + 1) = w
    BY <1>1, <1>3, <2>1
  <2> QED BY <1>2, <2>1, <2>2
<1>7. ASSUME NEW w \in moves
      PROVE  1 \in 1 .. c /\ ~ comesBefore(p, w, t[1])
  <2>1. c # 0
    <3>1. \A x \in moves : 0 <= rank(x) /\ rank(x) <= c - 1
      BY <1>1
    <3> QED BY <1>1, <3>1
  <2>2. 1 \in 1 .. c
    BY <1>1, <2>1
  <2>3. t[1] \in moves /\ rank(t[1]) = 0
    BY <1>2, <1>3, <2>2
  <2>4. Ahead(p, moves, t[1]) = {}
    <3>1. Ahead(p, moves, t[1]) \in SUBSET Word
      BY DEF Ahead
    <3>2. IsFiniteSet(Ahead(p, moves, t[1]))
      BY <3>1, WordsAre, FS_Subset
    <3> QED BY <2>3, <3>2, FS_EmptySet DEF rank
  <2> QED BY <2>2, <2>4 DEF Ahead
<1> QED BY <1>1, <1>5, <1>6, <1>7 DEF c, t

\* The first of the moves: as many as may be tried, all of them if they are no more.
LEMMA AtMostIs ==
    ASSUME NEW S, NEW seq \in Seq(S), NEW m \in Nat \ {0}
    PROVE  /\ atMost(seq, m) \in Seq(S)
           /\ DOMAIN atMost(seq, m) = 1 .. Len(atMost(seq, m))
           /\ Len(seq) <= m => atMost(seq, m) = seq
           /\ 1 \in DOMAIN seq => 1 \in DOMAIN atMost(seq, m)
           /\ \A k \in DOMAIN atMost(seq, m) : k \in DOMAIN seq /\ atMost(seq, m)[k] = seq[k]
<1> DEFINE len == Len(seq)
           cut == IF len < m THEN len ELSE m
<1>1. len \in Nat /\ DOMAIN seq = 1 .. len
  OBVIOUS
<1>2. cut \in Nat /\ cut <= len /\ (len <= m => cut = len) /\ (len # 0 => cut # 0)
  <2>1. len \in Nat
    BY <1>1
  <2> HIDE DEF len
  <2> QED BY <2>1
<1>3. atMost(seq, m) = SubSeq(seq, 1, cut)
  BY DEF atMost
<1> HIDE DEF cut, len
<1>4. /\ SubSeq(seq, 1, cut) \in Seq(S)
      /\ Len(SubSeq(seq, 1, cut)) = cut
      /\ \A k \in 1 .. cut : SubSeq(seq, 1, cut)[k] = seq[k]
  BY <1>1, <1>2 DEF len
<1>5. DOMAIN SubSeq(seq, 1, cut) = 1 .. cut
  BY <1>4
<1>6. len <= m => SubSeq(seq, 1, cut) = seq
  <2> SUFFICES ASSUME len <= m PROVE SubSeq(seq, 1, cut) = seq
    OBVIOUS
  <2>1. cut = len
    BY <1>2
  <2> QED BY <1>1, <1>4, <1>5, <2>1 DEF len
<1>7. 1 \in DOMAIN seq => 1 \in 1 .. cut
  BY <1>1, <1>2
<1>8. \A k \in 1 .. cut : k \in DOMAIN seq
  BY <1>1, <1>2
<1> QED BY <1>3, <1>4, <1>5, <1>6, <1>7, <1>8 DEF len

----------------------------------------------------------------------------
(***************************************************************************)
(* The loops of the search, which are folds, and the searches of so many   *)
(* plies, each made from the one of a ply less.                            *)
(***************************************************************************)
\* One round of a loop: over the replies to a position, or over the moves at the root.
turn(kind, given, below, loop, w) ==
    IF kind = "replies" THEN candidate(given, below, loop, w) ELSE rootMove(given, loop, w)

\* F has what the loop has made of the elements with given indices.
IsLoop(F, kind, given, below, base, seq) ==
    F = [I \in SUBSET DOMAIN seq |->
            IF I = {} THEN base ELSE turn(kind, given, below, F[I \ {Max(I)}], seq[Max(I)])]
Loop(kind, given, below, base, seq) == CHOOSE F : IsLoop(F, kind, given, below, base, seq)

\* Where the loop over the replies to a position starts, and what it goes over.
inWindow(q) == [best |-> loseScore, alpha |-> q.alpha, budget |-> q.budget - 1, cut |-> FALSE]
tried(p, moves) == atMost(tightestFirst(p, moves), branchCap)

\* A node's loop is that loop.
LEMMA ExploreIs ==
    ASSUME NEW q, NEW below
    PROVE  LET F == Loop("replies", q, below, inWindow(q), tried(q.at, replies(q.at)))
               done == F[DOMAIN tried(q.at, replies(q.at))]
           IN  explore(q, below) = [score |-> done.best, budget |-> done.budget]
BY DEF explore, FoldLeft, MapThenFoldSet, IsLoop, Loop, turn, inWindow, tried

\* Where the loop over the moves at the root starts.
atRoot(b, moves) == [alpha |-> -Inf, best |-> tightestFirst(b, moves)[1], budget |-> nodeCap]

\* So is the root's.
LEMMA SearchedIs ==
    ASSUME NEW b, NEW moves
    PROVE  searched(b, moves) =
              Loop("moves", b, 0, atRoot(b, moves), tried(b, moves))[DOMAIN tried(b, moves)]
BY DEF searched, FoldLeft, MapThenFoldSet, IsLoop, Loop, turn, atRoot, tried

\* The last of the first m indices.
LEMMA LastOfFirst ==
    ASSUME NEW m \in Nat \ {0}
    PROVE  Max(1 .. m) = m /\ (1 .. m) \ {m} = 1 .. m - 1
<1>1. m \in 1 .. m /\ \A y \in 1 .. m : m >= y
  OBVIOUS
<1>2. \A x \in 1 .. m : (\A y \in 1 .. m : x >= y) => x = m
  BY <1>1
<1>3. Max(1 .. m) = m
  BY <1>1, <1>2 DEF Max
<1> QED BY <1>3

\* A set of integers that are not above a bound has a greatest.
LEMMA GreatestOf ==
    ASSUME NEW m \in Int, NEW S, S # {}, \A x \in S : x \in Int /\ x <= m
    PROVE  Max(S) \in S /\ \A y \in S : Max(S) >= y
<1> DEFINE T == {m - x : x \in S}
<1>1. T \subseteq Nat /\ T # {}
  OBVIOUS
<1>2. PICK k \in T : \A l \in T : k <= l
  <2> HIDE DEF T
  <2> QED BY <1>1, LeastNatural
<1>3. PICK x \in S : k = m - x
  OBVIOUS
<1>4. ASSUME NEW y \in S
      PROVE  x >= y
  <2>1. k <= m - y
    BY <1>2
  <2>2. x \in Int /\ y \in Int
    OBVIOUS
  <2> HIDE DEF T
  <2> QED BY <1>3, <2>1, <2>2
<1> HIDE DEF T
<1> QED BY <1>4 DEF Max

\* A set of the first m indices has a last one, and the others are among the first m - 1.
LEMMA LastIndex ==
    ASSUME NEW m \in Nat, NEW I \in SUBSET (1 .. m), I # {}
    PROVE  /\ Max(I) \in I
           /\ I \ {Max(I)} \in SUBSET (1 .. m - 1)
<1>1. Max(I) \in I /\ \A y \in I : Max(I) >= y
  <2>1. \A x \in I : x \in Int /\ x <= m
    OBVIOUS
  <2>2. m \in Int
    OBVIOUS
  <2> QED BY <2>1, <2>2, GreatestOf
<1>2. ASSUME NEW y \in I, y # Max(I)
      PROVE  y \in 1 .. m - 1
  <2>1. y \in 1 .. m /\ Max(I) \in 1 .. m /\ Max(I) >= y
    BY <1>1
  <2> QED BY <1>2, <2>1
<1> QED BY <1>1, <1>2

\* There is such a function: one for the first m indices gives one for the first m + 1.
LEMMA LoopExists ==
    ASSUME NEW kind, NEW given, NEW below, NEW base, NEW seq, NEW len \in Nat, DOMAIN seq = 1 .. len
    PROVE  \E F : IsLoop(F, kind, given, below, base, seq)
<1> DEFINE Upto(F, m) ==
              F = [I \in SUBSET (1 .. m) |->
                      IF I = {} THEN base ELSE turn(kind, given, below, F[I \ {Max(I)}], seq[Max(I)])]
           Fails == {m \in Nat : ~ \E F : Upto(F, m)}
<1>1. Fails = {}
  <2> SUFFICES ASSUME Fails # {} PROVE FALSE
    OBVIOUS
  <2>1. PICK m \in Fails : \A k \in Fails : m <= k
    <3>1. Fails \subseteq Nat
      OBVIOUS
    <3> HIDE DEF Fails
    <3> QED BY <3>1, LeastNatural
  <2>2. m \in Nat /\ ~ \E F : Upto(F, m)
    OBVIOUS
  <2>3. m # 0
    <3>1. \A I \in SUBSET (1 .. 0) : I = {}
      OBVIOUS
    <3>2. Upto([I \in SUBSET (1 .. 0) |-> base], 0)
      BY <3>1
    <3> QED BY <2>2, <3>2
  <2>4. m - 1 \in Nat /\ m - 1 \notin Fails
    <3>1. m - 1 \in Nat /\ ~ (m <= m - 1)
      BY <2>2, <2>3
    <3> HIDE DEF Fails
    <3> QED BY <2>1, <3>1
  <2>5. PICK F : Upto(F, m - 1)
    BY <2>4
  <2> DEFINE G == [I \in SUBSET (1 .. m) |->
                      IF I = {} THEN base ELSE turn(kind, given, below, F[I \ {Max(I)}], seq[Max(I)])]
  <2>6. \A I \in SUBSET (1 .. m) : I # {} => I \ {Max(I)} \in SUBSET (1 .. m - 1)
    BY <2>2, LastIndex
  <2>7. \A I \in SUBSET (1 .. m - 1) : I \in SUBSET (1 .. m) /\ G[I] = F[I]
    <3> SUFFICES ASSUME NEW I \in SUBSET (1 .. m - 1)
                 PROVE  I \in SUBSET (1 .. m) /\ G[I] = F[I]
      OBVIOUS
    <3>1. I \in SUBSET (1 .. m)
      BY <2>2
    <3>2. F[I] = IF I = {} THEN base ELSE turn(kind, given, below, F[I \ {Max(I)}], seq[Max(I)])
      BY <2>5
    <3> QED BY <3>1, <3>2
  <2>8. Upto(G, m)
    <3>1. \A I \in SUBSET (1 .. m) : I # {} => G[I \ {Max(I)}] = F[I \ {Max(I)}]
      BY <2>6, <2>7
    <3> QED BY <3>1
  <2> QED BY <2>2, <2>8
<1>2. PICK F : Upto(F, len)
  BY <1>1
<1> QED BY <1>2 DEF IsLoop

\* A loop starts with its base, and goes on one element at a time.
LEMMA LoopGoesOn ==
    ASSUME NEW kind, NEW given, NEW below, NEW base, NEW seq, NEW len \in Nat, DOMAIN seq = 1 .. len
    PROVE  /\ Loop(kind, given, below, base, seq)[1 .. 0] = base
           /\ \A m \in 1 .. len :
                 Loop(kind, given, below, base, seq)[1 .. m] =
                     turn(kind, given, below, Loop(kind, given, below, base, seq)[1 .. m - 1], seq[m])
<1> DEFINE F == Loop(kind, given, below, base, seq)
<1>1. IsLoop(F, kind, given, below, base, seq)
  BY LoopExists DEF Loop
<1> HIDE DEF F
<1>2. F[1 .. 0] = base
  <2>1. 1 .. 0 = {}
    OBVIOUS
  <2> QED BY <1>1, <2>1 DEF IsLoop
<1>3. ASSUME NEW m \in 1 .. len
      PROVE  F[1 .. m] = turn(kind, given, below, F[1 .. m - 1], seq[m])
  <2>1. 1 .. m \in SUBSET DOMAIN seq /\ 1 .. m # {}
    <3>1. \A x \in 1 .. m : x \in 1 .. len
      OBVIOUS
    <3>2. 1 \in 1 .. m
      OBVIOUS
    <3> QED BY <3>1, <3>2
  <2>2. Max(1 .. m) = m /\ (1 .. m) \ {m} = 1 .. m - 1
    BY LastOfFirst
  <2> QED BY <1>1, <2>1, <2>2 DEF IsLoop
<1> QED BY <1>2, <1>3 DEF F

\* What holds at 0 and goes on from each number to the next holds up to the last.
LEMMA StepByStep ==
    ASSUME NEW len \in Nat, NEW T, 0 \in T, \A m \in 1 .. len : m - 1 \in T => m \in T
    PROVE  \A m \in 0 .. len : m \in T
<1> DEFINE Fails == {m \in 0 .. len : m \notin T}
<1> SUFFICES ASSUME Fails # {} PROVE FALSE
  OBVIOUS
<1>1. PICK m \in Fails : \A k \in Fails : m <= k
  <2>1. Fails \subseteq Nat
    OBVIOUS
  <2> HIDE DEF Fails
  <2> QED BY <2>1, LeastNatural
<1>2. m \in 1 .. len /\ m - 1 \in 0 .. len /\ ~ (m <= m - 1)
  OBVIOUS
<1>3. m - 1 \notin Fails
  <2> HIDE DEF Fails
  <2> QED BY <1>1, <1>2
<1> QED BY <1>2, <1>3

\* What the search of so many plies makes of a question, and minimax of a position, given
\* those of fewer plies.
level(kind, m, F) ==
    IF kind = "pruned"
    THEN [q \in Query |->
            IF q.budget <= 0 THEN [score |-> q.alpha, budget |-> q.budget]
            ELSE IF replies(q.at) = {} THEN [score |-> loseScore - m, budget |-> q.budget - 1]
            ELSE IF m = 0 THEN [score |-> mobility(Cardinality(replies(q.at))),
                                budget |-> q.budget - 1]
            ELSE explore(q, F[m - 1])]
    ELSE [p \in Position |->
            IF replies(p) = {} THEN -1000 - m
            ELSE IF m = 0 THEN Cardinality(replies(p))
            ELSE Max({-F[m - 1][after(p, w)] : w \in replies(p)})]

IsLevels(kind, F, N) == F = [m \in N |-> level(kind, m, F)]

\* A level depends on the one below it alone.
LEMMA LevelIs ==
    ASSUME NEW kind, NEW m, NEW F, NEW G, m = 0 \/ F[m - 1] = G[m - 1]
    PROVE  level(kind, m, F) = level(kind, m, G)
<1>1. CASE m = 0
  BY <1>1 DEF level
<1>2. CASE m # 0 /\ F[m - 1] = G[m - 1]
  BY <1>2 DEF level
<1> QED BY <1>1, <1>2

\* Two towers of levels agree as far as both go.
LEMMA LevelsAgree ==
    ASSUME NEW kind, NEW m \in Nat, NEW u \in Nat, m <= u,
           NEW F, IsLevels(kind, F, 0 .. m), NEW G, IsLevels(kind, G, 0 .. u)
    PROVE  \A k \in 0 .. m : F[k] = G[k]
<1> DEFINE T == {k \in 0 .. m : F[k] = G[k]}
<1>1. \A k \in 0 .. m : F[k] = level(kind, k, F) /\ G[k] = level(kind, k, G)
  <2>1. \A k \in 0 .. m : k \in 0 .. u
    OBVIOUS
  <2>2. \A k \in 0 .. m : F[k] = level(kind, k, F)
    BY DEF IsLevels
  <2>3. \A k \in 0 .. u : G[k] = level(kind, k, G)
    BY DEF IsLevels
  <2> QED BY <2>1, <2>2, <2>3
<1>2. 0 \in T
  <2>1. level(kind, 0, F) = level(kind, 0, G)
    BY LevelIs
  <2> QED BY <1>1, <2>1
<1>3. ASSUME NEW k \in 1 .. m, k - 1 \in T
      PROVE  k \in T
  <2>1. level(kind, k, F) = level(kind, k, G)
    <3>1. F[k - 1] = G[k - 1]
      BY <1>3
    <3> QED BY <3>1, LevelIs
  <2> QED BY <1>1, <2>1
<1>4. \A k \in 0 .. m : k \in T
  <2> HIDE DEF T
  <2> QED BY <1>2, <1>3, StepByStep
<1> QED BY <1>4

\* There is a tower of any height.
LEMMA LevelsExist ==
    ASSUME NEW kind, NEW u \in Nat
    PROVE  \E F : IsLevels(kind, F, 0 .. u)
<1> DEFINE T == {m \in 0 .. u : \E F : IsLevels(kind, F, 0 .. m)}
<1>1. 0 \in T
  <2> DEFINE F == [k \in 0 .. 0 |-> level(kind, 0, 0)]
  <2>1. \A k \in 0 .. 0 : k = 0
    OBVIOUS
  <2>2. level(kind, 0, F) = level(kind, 0, 0)
    <3> HIDE DEF F
    <3> QED BY LevelIs
  <2>3. IsLevels(kind, F, 0 .. 0)
    BY <2>1, <2>2 DEF IsLevels
  <2> QED BY <2>3
<1>2. ASSUME NEW m \in 1 .. u, m - 1 \in T
      PROVE  m \in T
  <2>1. PICK F : IsLevels(kind, F, 0 .. m - 1)
    BY <1>2
  <2> DEFINE G == [k \in 0 .. m |-> level(kind, k, F)]
  <2>2. \A k \in 0 .. m - 1 : G[k] = F[k]
    <3>1. \A k \in 0 .. m - 1 : k \in 0 .. m
      OBVIOUS
    <3>2. \A k \in 0 .. m - 1 : F[k] = level(kind, k, F)
      BY <2>1 DEF IsLevels
    <3> QED BY <3>1, <3>2
  <2>3. \A k \in 0 .. m : level(kind, k, G) = level(kind, k, F)
    <3> SUFFICES ASSUME NEW k \in 0 .. m PROVE level(kind, k, G) = level(kind, k, F)
      OBVIOUS
    <3>1. k # 0 => k - 1 \in 0 .. m - 1
      OBVIOUS
    <3>2. k = 0 \/ G[k - 1] = F[k - 1]
      BY <2>2, <3>1
    <3> HIDE DEF G
    <3> QED BY <3>2, LevelIs
  <2>4. IsLevels(kind, G, 0 .. m)
    <3> DEFINE H == [k \in 0 .. m |-> level(kind, k, G)]
    <3>1. G = H
      BY <2>3
    <3> QED BY <3>1 DEF IsLevels
  <2> QED BY <2>4
<1>3. u \in T
  <2>1. u \in 0 .. u
    OBVIOUS
  <2> HIDE DEF T
  <2> QED BY <1>1, <1>2, <2>1, StepByStep
<1> QED BY <1>3

\* And one without end, of which every level is made from the one below.
LEMMA LevelsHold ==
    ASSUME NEW kind, NEW S, S = CHOOSE F : IsLevels(kind, F, Nat), NEW u \in Nat
    PROVE  S[u] = level(kind, u, S)
<1> DEFINE tower(m) == CHOOSE F : IsLevels(kind, F, 0 .. m)
           G == [m \in Nat |-> tower(m)[m]]
<1>1. \A m \in Nat : IsLevels(kind, tower(m), 0 .. m)
  BY LevelsExist
<1> HIDE DEF tower
<1>2. \A m \in Nat : G[m] = level(kind, m, G)
  <2> SUFFICES ASSUME NEW m \in Nat PROVE G[m] = level(kind, m, G)
    OBVIOUS
  <2>1. G[m] = level(kind, m, tower(m))
    <3>1. m \in 0 .. m
      OBVIOUS
    <3>2. tower(m)[m] = level(kind, m, tower(m))
      BY <1>1, <3>1 DEF IsLevels
    <3> QED BY <3>2
  <2>2. m = 0 \/ G[m - 1] = tower(m)[m - 1]
    <3> SUFFICES ASSUME m # 0 PROVE G[m - 1] = tower(m)[m - 1]
      OBVIOUS
    <3>1. m - 1 \in Nat /\ m - 1 <= m /\ m - 1 \in 0 .. m - 1
      OBVIOUS
    <3>2. tower(m - 1)[m - 1] = tower(m)[m - 1]
      BY <1>1, <3>1, LevelsAgree
    <3> QED BY <3>1, <3>2
  <2> HIDE DEF G
  <2>3. level(kind, m, G) = level(kind, m, tower(m))
    BY <2>2, LevelIs
  <2> QED BY <2>1, <2>3
<1>3. IsLevels(kind, G, Nat)
  <2> DEFINE H == [m \in Nat |-> level(kind, m, G)]
  <2>1. G = H
    BY <1>2
  <2> QED BY <2>1 DEF IsLevels
<1> HIDE DEF G
<1>4. IsLevels(kind, S, Nat)
  BY <1>3
<1> QED BY <1>4 DEF IsLevels

\* Both searches are such towers.
LEMMA SearchesAre ==
    ASSUME NEW m \in Nat
    PROVE  /\ negamax[m] = level("pruned", m, negamax)
           /\ minimax[m] = level("full", m, minimax)
<1>1. negamax = CHOOSE F : IsLevels("pruned", F, Nat)
  BY DEF negamax, IsLevels, level
<1>2. minimax = CHOOSE F : IsLevels("full", F, Nat)
  BY DEF minimax, IsLevels, level
<1> QED BY <1>1, <1>2, LevelsHold

----------------------------------------------------------------------------
(***************************************************************************)
(* What is asked of a search is a question, and it answers with a score    *)
(* and with no more budget than it was given.                              *)
(***************************************************************************)
Answer == [score : Int, budget : Int]
Search == {f \in [Query -> Answer] : \A q \in Query : f[q].budget <= q.budget}
LoopState == [best : Int, alpha : Int, budget : Int, cut : BOOLEAN]

\* What a candidate's line is asked.
asked(q, loop, w) ==
    [at |-> after(q.at, w), alpha |-> -q.beta, beta |-> -loop.alpha, budget |-> loop.budget]

\* The larger of two integers is one of them, and neither is above it.
LEMMA LargerIs ==
    ASSUME NEW x \in Int, NEW y \in Int
    PROVE  /\ larger(x, y) \in Int /\ larger(x, y) \in {x, y}
           /\ larger(x, y) >= x /\ larger(x, y) >= y
BY DEF larger

\* It is a question.
LEMMA AskedIs ==
    ASSUME NEW q \in Query, NEW loop \in LoopState, NEW w \in Word
    PROVE  /\ asked(q, loop, w) \in Query
           /\ asked(q, loop, w).at = after(q.at, w)
           /\ asked(q, loop, w).alpha = -q.beta
           /\ asked(q, loop, w).beta = -loop.alpha
           /\ asked(q, loop, w).budget = loop.budget
<1>1. after(q.at, w) \in Position
  BY RepliesAre DEF Query
<1>2. -q.beta \in Int /\ -loop.alpha \in Int /\ loop.budget \in Int
  BY DEF Query, LoopState
<1> QED BY <1>1, <1>2 DEF asked, Query

\* What a candidate makes of the loop: nothing once it is cut.
LEMMA CandidateIs ==
    ASSUME NEW q \in Query, NEW below \in Search, NEW loop \in LoopState, NEW w \in Word,
           NEW new, new = candidate(q, below, loop, w),
           NEW r, r = below[asked(q, loop, w)]
    PROVE  /\ r \in Answer /\ r.budget <= loop.budget
           /\ loop.cut => new = loop
           /\ ~ loop.cut => /\ new.best = larger(loop.best, -r.score)
                            /\ new.alpha = larger(loop.alpha, new.best)
                            /\ new.budget = r.budget
                            /\ new.cut <=> new.alpha >= q.beta
           /\ new \in LoopState /\ new.budget <= loop.budget
<1>1. r \in Answer /\ r.budget <= loop.budget
  <2>1. asked(q, loop, w) \in Query /\ asked(q, loop, w).budget = loop.budget
    BY AskedIs
  <2> QED BY <2>1 DEF Search
<1>2. loop.cut => new = loop
  BY DEF candidate
<1> DEFINE best == larger(loop.best, -r.score)
           alpha == larger(loop.alpha, best)
           cut == alpha >= q.beta
<1>3. ~ loop.cut => new = [best |-> best, alpha |-> alpha, budget |-> r.budget, cut |-> cut]
  BY DEF candidate, asked
<1>5. loop.best \in Int /\ loop.alpha \in Int /\ loop.budget \in Int /\ r.score \in Int /\ r.budget \in Int
  BY <1>1 DEF LoopState, Answer
<1>6. best \in Int /\ alpha \in Int /\ cut \in BOOLEAN
  <2>1. best \in Int
    <3>1. \A x, y \in Int : larger(x, y) \in Int
      BY LargerIs
    <3>2. -r.score \in Int
      BY <1>5
    <3> QED BY <1>5, <3>1, <3>2
  <2> HIDE DEF best
  <2>2. alpha \in Int
    BY <1>5, <2>1, LargerIs
  <2> QED BY <2>1, <2>2
<1> HIDE DEF best, alpha, cut
<1>7. ~ loop.cut => new.best = best /\ new.alpha = alpha /\ new.budget = r.budget /\ new.cut = cut
  BY <1>3
<1>4. ~ loop.cut => /\ new.best = larger(loop.best, -r.score)
                    /\ new.alpha = larger(loop.alpha, new.best)
                    /\ new.budget = r.budget
                    /\ new.cut <=> new.alpha >= q.beta
  <2>1. best = larger(loop.best, -r.score) /\ alpha = larger(loop.alpha, best)
    BY DEF best, alpha
  <2>2. cut <=> alpha >= q.beta
    BY DEF cut
  <2> QED BY <1>7, <2>1, <2>2
<1>8. new \in LoopState
  <2>1. CASE loop.cut
    BY <1>2, <2>1
  <2>2. CASE ~ loop.cut
    <3>1. new = [best |-> best, alpha |-> alpha, budget |-> r.budget, cut |-> cut]
      BY <1>3, <2>2
    <3> QED BY <1>5, <1>6, <3>1 DEF LoopState
  <2> QED BY <2>1, <2>2
<1>9. new.budget <= loop.budget
  <2>1. CASE loop.cut
    BY <1>2, <1>5, <2>1
  <2>2. CASE ~ loop.cut
    BY <1>1, <1>4, <2>2
  <2> QED BY <2>1, <2>2
<1> QED BY <1>1, <1>2, <1>4, <1>8, <1>9

\* The replies that are tried are words that can be played.
LEMMA TriedAre ==
    ASSUME NEW p \in Position, NEW moves \in SUBSET Word
    PROVE  /\ tried(p, moves) \in Seq(moves)
           /\ Len(tried(p, moves)) \in Nat
           /\ DOMAIN tried(p, moves) = 1 .. Len(tried(p, moves))
           /\ \A k \in 1 .. Len(tried(p, moves)) :
                 tried(p, moves)[k] \in moves /\ tried(p, moves)[k] \in Word
           /\ moves # {} => /\ 1 \in 1 .. Len(tried(p, moves))
                            /\ tightestFirst(p, moves)[1] \in moves
           /\ Cardinality(moves) <= branchCap =>
                 \A w \in moves : \E k \in 1 .. Len(tried(p, moves)) : tried(p, moves)[k] = w
<1> DEFINE t == tightestFirst(p, moves)
           c == Cardinality(moves)
           s == tried(p, moves)
<1>1. /\ c \in Nat /\ t \in Seq(moves) /\ Len(t) = c /\ DOMAIN t = 1 .. c
      /\ \A w \in moves : \E k \in 1 .. c : t[k] = w
      /\ moves # {} => 1 \in 1 .. c
  BY TightestAre
<1>2. branchCap \in Nat \ {0}
  BY SearchLimits
<1> HIDE DEF c
<1>3. s = atMost(t, branchCap)
  BY DEF tried
<1> HIDE DEF t, s
<1>4. /\ s \in Seq(moves) /\ DOMAIN s = 1 .. Len(s)
      /\ Len(t) <= branchCap => s = t
      /\ 1 \in DOMAIN t => 1 \in DOMAIN s
  BY <1>1, <1>2, <1>3, AtMostIs
<1>5. Len(s) \in Nat /\ \A k \in 1 .. Len(s) : s[k] \in moves /\ s[k] \in Word
  BY <1>4
<1>6. moves # {} => 1 \in 1 .. Len(s) /\ t[1] \in moves
  BY <1>1, <1>4
<1>7. ASSUME c <= branchCap, NEW w \in moves
      PROVE  \E k \in 1 .. Len(s) : s[k] = w
  BY <1>1, <1>4, <1>7
<1> QED BY <1>4, <1>5, <1>6, <1>7 DEF s, c, t

\* The loop over the replies to a position, one state after another.
LEMMA NodeLoop ==
    ASSUME NEW q \in Query, NEW below \in Search
    PROVE  LET seq == tried(q.at, replies(q.at))
               len == Len(seq)
           IN  \E L \in [0 .. len -> LoopState] :
                  /\ L[0] = inWindow(q)
                  /\ \A k \in 1 .. len : L[k] = candidate(q, below, L[k - 1], seq[k])
                  /\ \A k \in 0 .. len : L[k].budget <= q.budget - 1
                  /\ explore(q, below) = [score |-> L[len].best, budget |-> L[len].budget]
<1> DEFINE seq == tried(q.at, replies(q.at))
           len == Len(seq)
           base == inWindow(q)
           F == Loop("replies", q, below, base, seq)
           L == [k \in 0 .. len |-> F[1 .. k]]
           T == {k \in 0 .. len : F[1 .. k] \in LoopState /\ F[1 .. k].budget <= q.budget - 1}
<1>1. len \in Nat /\ DOMAIN seq = 1 .. len /\ \A k \in 1 .. len : seq[k] \in Word
  <2>1. q.at \in Position
    BY DEF Query
  <2>2. replies(q.at) \in SUBSET Word
    BY <2>1, RepliesAre
  <2> QED BY <2>1, <2>2, TriedAre
<1>2. base \in LoopState /\ base.budget = q.budget - 1 /\ q.budget - 1 \in Int
  BY DEF inWindow, LoopState, Query, loseScore
<1>3. explore(q, below) = [score |-> F[1 .. len].best, budget |-> F[1 .. len].budget]
  <2>1. explore(q, below) = [score |-> F[DOMAIN seq].best, budget |-> F[DOMAIN seq].budget]
    BY ExploreIs
  <2> HIDE DEF F, seq
  <2> QED BY <1>1, <2>1
<1> HIDE DEF seq, base, len
<1>4. F[1 .. 0] = base /\ \A k \in 1 .. len : F[1 .. k] = candidate(q, below, F[1 .. k - 1], seq[k])
  <2>1. /\ F[1 .. 0] = base
        /\ \A k \in 1 .. len : F[1 .. k] = turn("replies", q, below, F[1 .. k - 1], seq[k])
    BY <1>1, LoopGoesOn
  <2>2. \A loop, w : turn("replies", q, below, loop, w) = candidate(q, below, loop, w)
    BY DEF turn
  <2> HIDE DEF F
  <2> QED BY <2>1, <2>2
<1> HIDE DEF F
<1>5. 0 \in T
  BY <1>1, <1>2, <1>4
<1>6. ASSUME NEW k \in 1 .. len, k - 1 \in T
      PROVE  k \in T
  <2>1. F[1 .. k - 1] \in LoopState /\ F[1 .. k - 1].budget <= q.budget - 1
    BY <1>6
  <2>2. F[1 .. k] = candidate(q, below, F[1 .. k - 1], seq[k]) /\ seq[k] \in Word
    BY <1>1, <1>4
  <2>3. F[1 .. k] \in LoopState /\ F[1 .. k].budget <= F[1 .. k - 1].budget
    BY <2>1, <2>2, CandidateIs
  <2>4. F[1 .. k].budget \in Int /\ F[1 .. k - 1].budget \in Int
    BY <2>1, <2>3 DEF LoopState
  <2>5. F[1 .. k].budget <= q.budget - 1
    BY <1>2, <2>1, <2>3, <2>4
  <2> QED BY <2>3, <2>5
<1>7. \A k \in 0 .. len : k \in T
  <2> HIDE DEF T
  <2> QED BY <1>1, <1>5, <1>6, StepByStep
<1>8. L \in [0 .. len -> LoopState] /\ \A k \in 0 .. len : L[k] = F[1 .. k] /\ L[k].budget <= q.budget - 1
  BY <1>7
<1>9. \A k \in 1 .. len : k \in 0 .. len /\ k - 1 \in 0 .. len
  BY <1>1
<1>10. 0 \in 0 .. len /\ len \in 0 .. len
  BY <1>1
<1> HIDE DEF L, T
<1>11. /\ L[0] = base
       /\ \A k \in 1 .. len : L[k] = candidate(q, below, L[k - 1], seq[k])
       /\ explore(q, below) = [score |-> L[len].best, budget |-> L[len].budget]
  BY <1>3, <1>4, <1>8, <1>9, <1>10
<1>12. \A k \in 0 .. len : L[k].budget <= q.budget - 1
  BY <1>8
<1> QED BY <1>8, <1>11, <1>12 DEF seq, len, base

\* The search of any number of plies answers so.
LEMMA NegamaxIsASearch ==
    ASSUME NEW u \in Nat
    PROVE  negamax[u] \in Search
<1> DEFINE T == {m \in 0 .. u : negamax[m] \in Search}
<1>1. ASSUME NEW m \in Nat, m = 0 \/ negamax[m - 1] \in Search
      PROVE  negamax[m] \in Search
  <2> DEFINE ans(q) == IF q.budget <= 0 THEN [score |-> q.alpha, budget |-> q.budget]
                       ELSE IF replies(q.at) = {} THEN [score |-> loseScore - m, budget |-> q.budget - 1]
                       ELSE IF m = 0 THEN [score |-> mobility(Cardinality(replies(q.at))),
                                           budget |-> q.budget - 1]
                       ELSE explore(q, negamax[m - 1])
  <2>1. negamax[m] = [q \in Query |-> ans(q)]
    BY SearchesAre DEF level
  <2>2. ASSUME NEW q \in Query
        PROVE  ans(q) \in Answer /\ ans(q).budget <= q.budget
    <3>1. q.at \in Position /\ q.alpha \in Int /\ q.budget \in Int /\ q.budget - 1 \in Int
      BY DEF Query
    <3>2. Cardinality(replies(q.at)) \in Nat
      BY <3>1, RepliesAre
    <3>3. CASE q.budget <= 0
      BY <3>1, <3>3 DEF Answer
    <3>4. CASE ~ (q.budget <= 0) /\ replies(q.at) = {}
      <4>1. loseScore - m \in Int
        BY DEF loseScore
      <4> QED BY <3>1, <3>4, <4>1 DEF Answer
    <3>5. CASE ~ (q.budget <= 0) /\ replies(q.at) # {} /\ m = 0
      <4>1. mobility(Cardinality(replies(q.at))) \in Int
        BY <3>2 DEF mobility
      <4> QED BY <3>1, <3>5, <4>1 DEF Answer
    <3>6. CASE ~ (q.budget <= 0) /\ replies(q.at) # {} /\ m # 0
      <4>1. ans(q) = explore(q, negamax[m - 1])
        BY <3>6
      <4> DEFINE len == Len(tried(q.at, replies(q.at)))
      <4>2. PICK L \in [0 .. len -> LoopState] :
               /\ \A k \in 0 .. len : L[k].budget <= q.budget - 1
               /\ explore(q, negamax[m - 1]) = [score |-> L[len].best, budget |-> L[len].budget]
        BY <1>1, <3>6, NodeLoop
      <4>3. len \in 0 .. len
        <5>1. replies(q.at) \in SUBSET Word
          BY <3>1, RepliesAre
        <5>2. len \in Nat
          BY <3>1, <5>1, TriedAre
        <5> QED BY <5>2
      <4> HIDE DEF len, ans
      <4>4. L[len] \in LoopState /\ L[len].budget <= q.budget - 1
        BY <4>2, <4>3
      <4>5. L[len].best \in Int /\ L[len].budget \in Int
        BY <4>4 DEF LoopState
      <4>6. ans(q).score = L[len].best /\ ans(q).budget = L[len].budget /\ ans(q) \in Answer
        BY <4>1, <4>2, <4>5 DEF Answer
      <4> QED BY <3>1, <4>4, <4>5, <4>6
    <3> HIDE DEF ans
    <3> QED BY <3>3, <3>4, <3>5, <3>6
  <2> HIDE DEF ans
  <2> QED BY <2>1, <2>2 DEF Search
<1>2. 0 \in T
  BY <1>1
<1>3. ASSUME NEW m \in 1 .. u, m - 1 \in T
      PROVE  m \in T
  BY <1>1, <1>3
<1>4. u \in T
  <2>1. u \in 0 .. u
    OBVIOUS
  <2> HIDE DEF T
  <2> QED BY <1>2, <1>3, <2>1, StepByStep
<1> QED BY <1>4

----------------------------------------------------------------------------
(***************************************************************************)
(* What minimax makes of a position none of whose syllables starts more    *)
(* words than are tried, up to the depth that is searched.  The values of  *)
(* each depth are few: losses, wins, and the mobility of the side that     *)
(* moves last.  The floor of the search is felt at one value of one depth. *)
(***************************************************************************)
Roomy == {p \in Position : \A s \in Syllable : Cardinality(wordsStartingWith(p.words, s)) <= branchCap}

\* Such a position stays so, and all replies to it are tried.
LEMMA RoomyAre ==
    ASSUME NEW p \in Roomy
    PROVE  /\ p \in Position
           /\ Cardinality(replies(p)) \in 0 .. 999 /\ Cardinality(replies(p)) <= branchCap
           /\ replies(p) # {} => Cardinality(replies(p)) # 0
           /\ \A w \in Word : after(p, w) \in Roomy
<1>1. p \in Position /\ \A s \in Syllable : Cardinality(wordsStartingWith(p.words, s)) <= branchCap
  BY DEF Roomy
<1>2. p.words \in SUBSET Word /\ p.current \in Syllable
  BY <1>1 DEF Position
<1> DEFINE all == wordsStartingWith(p.words, p.current)
<1>3. IsFiniteSet(all) /\ replies(p) \in SUBSET all
  <2>1. all \in SUBSET Word
    BY <1>2 DEF wordsStartingWith
  <2> QED BY <2>1, WordsAre, FS_Subset DEF replies
<1>4. Cardinality(replies(p)) <= Cardinality(all) /\ Cardinality(all) <= branchCap
  <2>1. Cardinality(all) <= branchCap
    BY <1>1, <1>2
  <2> QED BY <1>3, <2>1, FS_Subset
<1>5. /\ Cardinality(replies(p)) \in Nat /\ Cardinality(all) \in Nat /\ IsFiniteSet(replies(p))
  BY <1>1, <1>3, RepliesAre, FS_CardinalityType
<1>6. branchCap \in 1 .. 999
  BY SearchLimits
<1> HIDE DEF all
<1>7. Cardinality(replies(p)) \in 0 .. 999 /\ Cardinality(replies(p)) <= branchCap
  <2> DEFINE c == Cardinality(replies(p))
             d == Cardinality(all)
  <2>1. c \in Nat /\ d \in Nat /\ c <= d /\ d <= branchCap
    BY <1>4, <1>5
  <2> HIDE DEF c, d
  <2>2. c \in 0 .. 999 /\ c <= branchCap
    BY <1>6, <2>1
  <2> QED BY <2>2 DEF c
<1>8. replies(p) # {} => Cardinality(replies(p)) # 0
  BY <1>5, FS_EmptySet
<1>9. ASSUME NEW w \in Word
      PROVE  after(p, w) \in Roomy
  <2>1. after(p, w) \in Position
    BY <1>1, RepliesAre
  <2>2. after(p, w).words = p.words
    BY <1>1 DEF after, Position
  <2> QED BY <1>1, <2>1, <2>2 DEF Roomy
<1> QED BY <1>1, <1>7, <1>8, <1>9

Values(m) ==
    IF m = 0 THEN {-1000} \cup 1 .. 999
    ELSE IF m = 1 THEN {-1001, 1000} \cup (-999) .. (-1)
    ELSE IF m = 2 THEN {-1002, -1000, 1001} \cup 1 .. 999
    ELSE {-1003, -1001, 1000, 1002} \cup (-999) .. (-1)

\* The values of one depth are what the last one's are to the other side, or a loss.
LEMMA ValuesTurn ==
    ASSUME NEW m \in 1 .. 3, NEW x \in Values(m - 1)
    PROVE  -x \in Values(m) /\ -x \in Int /\ -x <= 2000 /\ (m # 3 => -x >= -1000)
<1>1. m = 1 \/ m = 2 \/ m = 3
  OBVIOUS
<1>2. CASE m = 1
  <2>1. x \in {-1000} \cup 1 .. 999
    BY <1>2 DEF Values
  <2>2. -x \in {-1001, 1000} \cup (-999) .. (-1)
    BY <2>1
  <2>3. -x \in Int /\ -x <= 2000 /\ -x >= -1000
    BY <2>1
  <2> QED BY <1>2, <2>2, <2>3 DEF Values
<1>3. CASE m = 2
  <2>1. x \in {-1001, 1000} \cup (-999) .. (-1)
    BY <1>3 DEF Values
  <2>2. -x \in {-1002, -1000, 1001} \cup 1 .. 999
    BY <2>1
  <2>3. -x \in Int /\ -x <= 2000 /\ -x >= -1000
    BY <2>1
  <2> QED BY <1>3, <2>2, <2>3 DEF Values
<1>4. CASE m = 3
  <2>1. x \in {-1002, -1000, 1001} \cup 1 .. 999
    BY <1>4 DEF Values
  <2>2. -x \in {-1003, -1001, 1000, 1002} \cup (-999) .. (-1)
    BY <2>1
  <2>3. -x \in Int /\ -x <= 2000
    BY <2>1
  <2> QED BY <1>4, <2>2, <2>3 DEF Values
<1> QED BY <1>1, <1>2, <1>3, <1>4

\* The value of a position to the player to move, from what the replies lead to.
ValueIs(m, p) ==
    LET v == minimax[m][p]
    IN  /\ v \in Values(m)
        /\ replies(p) = {} => v = -1000 - m
        /\ replies(p) # {} /\ m = 0 => v = Cardinality(replies(p))
        /\ replies(p) # {} /\ m # 0 =>
              /\ \E w \in replies(p) : v = -minimax[m - 1][after(p, w)]
              /\ \A w \in replies(p) : v >= -minimax[m - 1][after(p, w)]

\* It is so at every depth.
LEMMA ValuesAre ==
    ASSUME NEW u \in 0 .. 3
    PROVE  \A p \in Roomy : ValueIs(u, p)
<1>1. ASSUME NEW m \in 0 .. 3, NEW p \in Roomy,
             m = 0 \/ \A x \in Roomy : minimax[m - 1][x] \in Values(m - 1)
      PROVE  ValueIs(m, p)
  <2> DEFINE v == minimax[m][p]
             lines == {-minimax[m - 1][after(p, w)] : w \in replies(p)}
  <2>1. p \in Position /\ Cardinality(replies(p)) \in 0 .. 999
        /\ (replies(p) # {} => Cardinality(replies(p)) # 0)
    BY RoomyAre
  <2>2. v = IF replies(p) = {} THEN -1000 - m
            ELSE IF m = 0 THEN Cardinality(replies(p)) ELSE Max(lines)
    <3> DEFINE val(x) == IF replies(x) = {} THEN -1000 - m
                         ELSE IF m = 0 THEN Cardinality(replies(x))
                         ELSE Max({-minimax[m - 1][after(x, w)] : w \in replies(x)})
    <3>1. minimax[m] = [x \in Position |-> val(x)]
      <4>1. minimax[m] = level("full", m, minimax)
        BY SearchesAre
      <4> QED BY <4>1 DEF level
    <3>2. v = val(p)
      <4> HIDE DEF val
      <4> QED BY <2>1, <3>1
    <3> QED BY <3>2
  <2> HIDE DEF v
  <2>3. CASE replies(p) = {}
    <3>1. v = -1000 - m
      BY <2>2, <2>3
    <3>2. m = 0 \/ m = 1 \/ m = 2 \/ m = 3
      OBVIOUS
    <3>3. v \in Values(m)
      BY <3>1, <3>2 DEF Values
    <3> QED BY <2>3, <3>1, <3>3 DEF ValueIs, v
  <2>4. CASE replies(p) # {} /\ m = 0
    <3>1. v = Cardinality(replies(p))
      BY <2>2, <2>4
    <3>2. v \in 1 .. 999
      <4> DEFINE c == Cardinality(replies(p))
      <4>1. c \in 0 .. 999 /\ c # 0 /\ v = c
        BY <2>1, <2>4, <3>1
      <4> HIDE DEF c
      <4> QED BY <4>1
    <3>3. v \in Values(m)
      BY <2>4, <3>2 DEF Values
    <3> QED BY <2>4, <3>1, <3>3 DEF ValueIs, v
  <2>5. CASE replies(p) # {} /\ m # 0
    <3>1. v = Max(lines)
      BY <2>2, <2>5
    <3>2. ASSUME NEW w \in replies(p)
          PROVE  /\ -minimax[m - 1][after(p, w)] \in Values(m)
                 /\ -minimax[m - 1][after(p, w)] \in Int
                 /\ -minimax[m - 1][after(p, w)] <= 2000
      <4>1. w \in Word
        BY <2>1, RepliesAre
      <4>2. after(p, w) \in Roomy
        BY <4>1, RoomyAre
      <4>3. minimax[m - 1][after(p, w)] \in Values(m - 1)
        BY <1>1, <2>5, <4>2
      <4>4. m \in 1 .. 3
        BY <2>5
      <4> QED BY <4>3, <4>4, ValuesTurn
    <3>3. lines # {} /\ \A x \in lines : x \in Int /\ x <= 2000
      BY <2>5, <3>2
    <3>4. Max(lines) \in lines /\ \A y \in lines : Max(lines) >= y
      <4> HIDE DEF lines
      <4>1. 2000 \in Int
        OBVIOUS
      <4> QED BY <3>3, <4>1, GreatestOf
    <3>5. /\ \E w \in replies(p) : v = -minimax[m - 1][after(p, w)]
          /\ \A w \in replies(p) : v >= -minimax[m - 1][after(p, w)]
      BY <3>1, <3>4
    <3>6. v \in Values(m)
      BY <3>2, <3>5
    <3> HIDE DEF lines
    <3> QED BY <2>5, <3>5, <3>6 DEF ValueIs, v
  <2> QED BY <2>3, <2>4, <2>5
<1> DEFINE T == {m \in 0 .. u : \A p \in Roomy : ValueIs(m, p)}
<1>2. 0 \in T
  BY <1>1
<1>3. ASSUME NEW m \in 1 .. u, m - 1 \in T
      PROVE  m \in T
  <2>1. m \in 0 .. 3 /\ m \in 0 .. u
    OBVIOUS
  <2>2. \A x \in Roomy : ValueIs(m - 1, x)
    BY <1>3
  <2>3. \A x \in Roomy : minimax[m - 1][x] \in Values(m - 1)
    BY <2>2 DEF ValueIs
  <2> HIDE DEF T
  <2>4. \A p \in Roomy : ValueIs(m, p)
    BY <1>1, <2>1, <2>3
  <2> QED BY <2>1, <2>4 DEF T
<1>4. u \in T
  <2>1. u \in 0 .. u
    OBVIOUS
  <2> HIDE DEF T
  <2> QED BY <1>2, <1>3, <2>1, StepByStep
<1> QED BY <1>4

\* The value the search finds, no less than a loss when there is a reply.
floored(m, p) ==
    IF m = 0 \/ replies(p) = {} THEN minimax[m][p] ELSE larger(loseScore, minimax[m][p])

\* Up to two plies the floor is not felt; at three it takes one value to the one above.
LEMMA FlooredIs ==
    ASSUME NEW m \in 0 .. 3, NEW p \in Roomy
    PROVE  /\ floored(m, p) \in Int /\ floored(m, p) >= -1003 /\ floored(m, p) <= 1002
           /\ m # 3 => floored(m, p) = minimax[m][p]
           /\ \/ floored(m, p) = minimax[m][p] /\ (m = 3 => minimax[m][p] # -1000)
              \/ floored(m, p) = -1000 /\ minimax[m][p] = -1001
           /\ m # 0 /\ replies(p) # {} =>
                 /\ floored(m, p) >= -1000
                 /\ \A w \in replies(p) : floored(m, p) >= -floored(m - 1, after(p, w))
                 /\ \/ floored(m, p) = -1000
                    \/ \E w \in replies(p) : floored(m, p) = -floored(m - 1, after(p, w))
<1> DEFINE v == minimax[m][p]
<1>1. ValueIs(m, p)
  BY ValuesAre
<1>2. v \in Values(m) /\ (replies(p) = {} => v = -1000 - m)
  BY <1>1 DEF ValueIs
<1>3. floored(m, p) = IF m = 0 \/ replies(p) = {} THEN v ELSE IF -1000 > v THEN -1000 ELSE v
  BY DEF floored, larger, loseScore
<1>4. m # 0 /\ replies(p) # {} =>
         /\ \E w \in replies(p) : v = -minimax[m - 1][after(p, w)]
         /\ \A w \in replies(p) : v >= -minimax[m - 1][after(p, w)]
  BY <1>1 DEF ValueIs
<1>5. ASSUME m # 0, NEW w \in replies(p)
      PROVE  /\ minimax[m - 1][after(p, w)] \in Values(m - 1)
             /\ floored(m - 1, after(p, w)) = minimax[m - 1][after(p, w)]
  <2> DEFINE x == after(p, w)
             y == minimax[m - 1][x]
  <2>1. x \in Roomy
    <3>1. w \in Word
      BY RoomyAre, RepliesAre
    <3> QED BY <3>1, RoomyAre
  <2>2. m - 1 \in 0 .. 2 /\ m - 1 \in 0 .. 3
    BY <1>5
  <2>3. ValueIs(m - 1, x)
    BY <2>1, <2>2, ValuesAre
  <2> HIDE DEF x
  <2>4. y \in Values(m - 1)
    BY <2>3 DEF ValueIs
  <2>5. m - 1 # 0 /\ replies(x) # {} => y >= -1000
    <3> SUFFICES ASSUME m - 1 # 0, replies(x) # {} PROVE y >= -1000
      OBVIOUS
    <3>1. PICK z \in replies(x) : y = -minimax[m - 1 - 1][after(x, z)]
      BY <2>3 DEF ValueIs
    <3>2. after(x, z) \in Roomy
      <4>1. z \in Word
        BY <2>1, RoomyAre, RepliesAre
      <4> QED BY <2>1, <4>1, RoomyAre
    <3>3. m - 1 \in 1 .. 3 /\ m - 1 # 3 /\ m - 1 - 1 \in 0 .. 3
      BY <2>2
    <3>4. ValueIs(m - 1 - 1, after(x, z))
      BY <3>2, <3>3, ValuesAre
    <3>5. minimax[m - 1 - 1][after(x, z)] \in Values(m - 1 - 1)
      BY <3>4 DEF ValueIs
    <3>6. -minimax[m - 1 - 1][after(x, z)] >= -1000
      BY <3>3, <3>5, ValuesTurn
    <3> QED BY <3>1, <3>6
  <2>6. y \in Int
    <3>1. m - 1 = 0 \/ m - 1 = 1 \/ m - 1 = 2
      BY <2>2
    <3> HIDE DEF y
    <3> QED BY <2>4, <3>1 DEF Values
  <2>7. floored(m - 1, x) = IF m - 1 = 0 \/ replies(x) = {} THEN y ELSE IF -1000 > y THEN -1000 ELSE y
    BY DEF floored, larger, loseScore
  <2> HIDE DEF y
  <2>8. floored(m - 1, x) = y
    BY <2>5, <2>6, <2>7
  <2> QED BY <2>4, <2>8 DEF x, y
<1>6. m = 0 \/ m = 1 \/ m = 2 \/ m = 3
  OBVIOUS
<1> HIDE DEF v
<1>7. v \in Int /\ v >= -1003 /\ v <= 1002
  BY <1>2, <1>6 DEF Values
<1>8. m # 0 /\ m # 3 /\ replies(p) # {} => v >= -1000
  <2> SUFFICES ASSUME m # 0, m # 3, replies(p) # {} PROVE v >= -1000
    OBVIOUS
  <2>1. PICK w \in replies(p) : v = -minimax[m - 1][after(p, w)]
    BY <1>4
  <2>2. minimax[m - 1][after(p, w)] \in Values(m - 1) /\ m \in 1 .. 3
    BY <1>5
  <2>3. -minimax[m - 1][after(p, w)] >= -1000
    BY <2>2, ValuesTurn
  <2> QED BY <2>1, <2>3
<1>9. m = 3 => v # -1000 /\ (v < -1000 => v = -1001 \/ v = -1003)
  BY <1>2 DEF Values
<1>10. m = 3 /\ replies(p) # {} => v # -1003
  <2> SUFFICES ASSUME m = 3, replies(p) # {} PROVE v # -1003
    OBVIOUS
  <2>1. PICK w \in replies(p) : v = -minimax[m - 1][after(p, w)]
    BY <1>4
  <2>2. minimax[m - 1][after(p, w)] \in Values(m - 1)
    BY <1>5
  <2> DEFINE y == minimax[m - 1][after(p, w)]
  <2> HIDE DEF y
  <2>3. y \in {-1002, -1000, 1001} \cup 1 .. 999 /\ v = -y
    BY <2>1, <2>2 DEF Values, y
  <2> QED BY <2>3
<1> DEFINE f == floored(m, p)
<1> HIDE DEF f
<1>11. f = IF m = 0 \/ replies(p) = {} THEN v ELSE IF -1000 > v THEN -1000 ELSE v
  BY <1>3 DEF f
<1>12. f \in Int /\ f >= -1003 /\ f <= 1002
  BY <1>7, <1>11
<1>13. m # 3 => f = v
  BY <1>7, <1>8, <1>11
<1>14. \/ f = v /\ (m = 3 => v # -1000)
       \/ f = -1000 /\ v = -1001
  BY <1>7, <1>9, <1>10, <1>11, <1>13
<1>15. ASSUME m # 0, replies(p) # {}
       PROVE  /\ f >= -1000
              /\ \A w \in replies(p) : f >= -floored(m - 1, after(p, w))
              /\ f = -1000 \/ \E w \in replies(p) : f = -floored(m - 1, after(p, w))
  <2>1. f >= -1000 /\ f >= v /\ (f = -1000 \/ f = v)
    BY <1>7, <1>11, <1>15
  <2>2. ASSUME NEW w \in replies(p)
        PROVE  f >= -floored(m - 1, after(p, w))
    <3> DEFINE y == minimax[m - 1][after(p, w)]
    <3>1. y \in Values(m - 1) /\ floored(m - 1, after(p, w)) = y /\ v >= -y
      BY <1>4, <1>5, <1>15
    <3>2. -y \in Int
      <4>1. m \in 1 .. 3
        BY <1>15
      <4> HIDE DEF y
      <4> QED BY <3>1, <4>1, ValuesTurn
    <3> HIDE DEF y
    <3>3. f >= -y
      BY <1>7, <1>12, <2>1, <3>1, <3>2
    <3> QED BY <3>1, <3>3
  <2>3. f = v => \E w \in replies(p) : f = -floored(m - 1, after(p, w))
    BY <1>4, <1>5, <1>15
  <2> QED BY <2>1, <2>2, <2>3
<1> QED BY <1>12, <1>13, <1>14, <1>15 DEF f, v

----------------------------------------------------------------------------
(***************************************************************************)
(* Pruning.  A search that has ended within its budget is right about      *)
(* every value inside its window, and about the side on which a value is   *)
(* that lies outside.  The window narrows from line to line: a line that   *)
(* turns out no better than the best so far may be worse than was found,   *)
(* and one that the opponent would avoid ends the loop.                    *)
(***************************************************************************)
IsRight(q, x, score) ==
    /\ score < q.beta => x <= score
    /\ score > q.alpha => score <= x

RightAt(m) ==
    \A q \in Query :
        q.at \in Roomy /\ q.alpha < q.beta /\ negamax[m][q].budget > 0 =>
            IsRight(q, floored(m, q.at), negamax[m][q].score)

\* One line tried: the loop over the replies takes best and alpha to best2 and alpha2, s is
\* what the line was found to be worth, and z what it is worth, to the player to move.
LEMMA LineTried ==
    ASSUME NEW a \in Int, NEW b \in Int, a < b,
           NEW best \in Int, NEW alpha \in Int, alpha \in {a, best}, alpha >= a, alpha < b,
           NEW s \in Int, NEW z \in Int,
           s > alpha => s <= z, s < b => z <= s,
           NEW best2 \in Int, best2 \in {best, s}, best2 >= best, best2 >= s,
           NEW alpha2 \in Int, alpha2 \in {alpha, best2}, alpha2 >= alpha, alpha2 >= best2
    PROVE  /\ alpha2 \in {a, best2} /\ alpha2 >= a
           /\ best2 < b => z <= best2
           /\ best2 > a => best2 = best \/ best2 <= z
           /\ alpha2 >= b => best2 >= b
OBVIOUS

\* A node that has looked at all its lines is right if the nodes below are.
LEMMA NodeIsRight ==
    ASSUME NEW m \in 1 .. 3, RightAt(m - 1), NEW q \in Query, q.at \in Roomy, q.alpha < q.beta,
           replies(q.at) # {}, explore(q, negamax[m - 1]).budget > 0
    PROVE  IsRight(q, floored(m, q.at), explore(q, negamax[m - 1]).score)
<1> DEFINE below == negamax[m - 1]
           seq == tried(q.at, replies(q.at))
           len == Len(seq)
           worthOf(w) == -floored(m - 1, after(q.at, w))
<1>1. m - 1 \in Nat /\ below \in Search
  BY NegamaxIsASearch
<1>2. /\ replies(q.at) \in SUBSET Word
      /\ len \in Nat
      /\ \A k \in 1 .. len : seq[k] \in Word
      /\ \A w \in replies(q.at) : \E k \in 1 .. len : seq[k] = w
      /\ \A k \in 1 .. len : seq[k] \in replies(q.at)
  <2>1. q.at \in Position /\ Cardinality(replies(q.at)) <= branchCap
    BY RoomyAre
  <2>2. replies(q.at) \in SUBSET Word
    BY <2>1, RepliesAre
  <2> QED BY <2>1, <2>2, TriedAre
<1>3. PICK L \in [0 .. len -> LoopState] :
         /\ L[0] = inWindow(q)
         /\ \A k \in 1 .. len : L[k] = candidate(q, below, L[k - 1], seq[k])
         /\ explore(q, below) = [score |-> L[len].best, budget |-> L[len].budget]
  BY <1>1, NodeLoop
<1>4. q.alpha \in Int /\ q.beta \in Int
  BY DEF Query
<1>5. \A w \in Word : worthOf(w) \in Int
  <2> SUFFICES ASSUME NEW w \in Word PROVE worthOf(w) \in Int
    OBVIOUS
  <2>1. after(q.at, w) \in Roomy
    BY RoomyAre
  <2>2. m - 1 \in 0 .. 3
    OBVIOUS
  <2>3. floored(m - 1, after(q.at, w)) \in Int
    BY <2>1, <2>2, FlooredIs
  <2> QED BY <2>3
<1> HIDE DEF below, seq, len, worthOf
<1> DEFINE I(k) == L[k].budget > 0 =>
                     /\ L[k].best >= -1000
                     /\ L[k].alpha \in {q.alpha, L[k].best} /\ L[k].alpha >= q.alpha
                     /\ L[k].cut => L[k].best >= q.beta
                     /\ ~ L[k].cut => L[k].alpha < q.beta
                     /\ L[k].best < q.beta => \A j \in 1 .. k : worthOf(seq[j]) <= L[k].best
                     /\ L[k].best > q.alpha =>
                           L[k].best = -1000 \/ \E w \in replies(q.at) : L[k].best <= worthOf(w)
           T == {k \in 0 .. len : I(k)}
<1>6. 0 \in T
  <2>1. L[0].best = -1000 /\ L[0].alpha = q.alpha /\ ~ L[0].cut
    BY <1>3 DEF inWindow, loseScore
  <2>2. \A j \in 1 .. 0 : FALSE
    OBVIOUS
  <2>3. 0 \in 0 .. len
    BY <1>2
  <2> QED BY <1>4, <2>1, <2>2, <2>3
<1>7. ASSUME NEW k \in 1 .. len, k - 1 \in T
      PROVE  k \in T
  <2> DEFINE old == L[k - 1]
             new == L[k]
             w == seq[k]
             r == below[asked(q, old, w)]
             z == worthOf(w)
  <2>1. /\ old \in LoopState /\ new \in LoopState /\ w \in Word /\ w \in replies(q.at)
        /\ new = candidate(q, below, old, w)
        /\ k \in 0 .. len /\ k - 1 \in 0 .. len /\ k \in Nat
    BY <1>2, <1>3
  <2>2. /\ r \in Answer /\ r.budget <= old.budget
        /\ old.cut => new = old
        /\ ~ old.cut => /\ new.best = larger(old.best, -r.score)
                        /\ new.alpha = larger(old.alpha, new.best)
                        /\ new.budget = r.budget
                        /\ new.cut <=> new.alpha >= q.beta
        /\ new.budget <= old.budget
    BY <1>1, <2>1, CandidateIs
  <2>3. z \in Int
    BY <1>5, <2>1
  <2>4. /\ old.best \in Int /\ old.alpha \in Int /\ old.budget \in Int /\ r.score \in Int
        /\ new.best \in Int /\ new.alpha \in Int /\ new.budget \in Int
    BY <2>1, <2>2 DEF LoopState, Answer
  <2>5. I(k - 1)
    BY <1>7
  <2>6. ASSUME new.budget > 0
        PROVE  /\ new.best >= -1000
               /\ new.alpha \in {q.alpha, new.best} /\ new.alpha >= q.alpha
               /\ new.cut => new.best >= q.beta
               /\ ~ new.cut => new.alpha < q.beta
               /\ new.best < q.beta => \A j \in 1 .. k : worthOf(seq[j]) <= new.best
               /\ new.best > q.alpha =>
                     new.best = -1000 \/ \E x \in replies(q.at) : new.best <= worthOf(x)
    <3>1. old.budget > 0
      <4> HIDE DEF old, new, r
      <4> QED BY <2>2, <2>4, <2>6
    <3>2. /\ old.best >= -1000
          /\ old.alpha \in {q.alpha, old.best} /\ old.alpha >= q.alpha
          /\ old.cut => old.best >= q.beta
          /\ ~ old.cut => old.alpha < q.beta
          /\ old.best < q.beta => \A j \in 1 .. k - 1 : worthOf(seq[j]) <= old.best
          /\ old.best > q.alpha =>
                old.best = -1000 \/ \E x \in replies(q.at) : old.best <= worthOf(x)
      BY <2>5, <3>1
    <3>3. CASE old.cut
      <4>1. new = old
        BY <2>2, <3>3
      <4> HIDE DEF old, new
      <4>2. ~ (new.best < q.beta)
        BY <1>4, <2>4, <3>2, <3>3, <4>1
      <4> QED BY <3>2, <3>3, <4>1, <4>2
    <3>4. CASE ~ old.cut
      <4>1. old.alpha < q.beta
        BY <3>2, <3>4
      <4>2. (-r.score > old.alpha => -r.score <= z) /\ (-r.score < q.beta => z <= -r.score)
        <5> DEFINE a == asked(q, old, w)
        <5>1. /\ a \in Query /\ a.at = after(q.at, w) /\ a.alpha = -q.beta /\ a.beta = -old.alpha
          BY <2>1, AskedIs
        <5>2. a.at \in Roomy
          BY <2>1, <5>1, RoomyAre
        <5>3. a.alpha < a.beta
          BY <1>4, <2>4, <4>1, <5>1
        <5>4. r = negamax[m - 1][a]
          BY DEF r, below
        <5>5. r.budget > 0
          BY <2>2, <2>6, <3>4
        <5> HIDE DEF a, r
        <5>6. IsRight(a, floored(m - 1, a.at), r.score)
          BY <5>1, <5>2, <5>3, <5>4, <5>5 DEF RightAt
        <5>7. z = -floored(m - 1, a.at)
          BY <5>1 DEF worthOf
        <5> DEFINE f == floored(m - 1, a.at)
        <5>8. f \in Int
          BY <5>2, FlooredIs
        <5>9. (r.score < -old.alpha => f <= r.score) /\ (r.score > -q.beta => r.score <= f) /\ z = -f
          BY <5>1, <5>6, <5>7 DEF IsRight
        <5> HIDE DEF f, old, z
        <5> QED BY <1>4, <2>4, <5>8, <5>9
      <4> HIDE DEF old, new, r, z, w
      <4> DEFINE s == -r.score
      <4>3. s \in Int
        BY <2>4
      <4>4. new.best = larger(old.best, s) /\ new.alpha = larger(old.alpha, new.best)
        BY <2>2, <3>4
      <4>5. (s > old.alpha => s <= z) /\ (s < q.beta => z <= s)
        BY <4>2
      <4> HIDE DEF s
      <4>6. /\ new.best >= old.best
            /\ new.alpha \in {q.alpha, new.best} /\ new.alpha >= q.alpha
            /\ new.best < q.beta => z <= new.best
            /\ new.best > q.alpha => new.best = old.best \/ new.best <= z
            /\ new.alpha >= q.beta => new.best >= q.beta
        <5> DEFINE qa == q.alpha
                   qb == q.beta
                   ob == old.best
                   oa == old.alpha
                   nb == new.best
                   na == new.alpha
        <5>1. /\ qa \in Int /\ qb \in Int /\ qa < qb
              /\ ob \in Int /\ oa \in Int /\ nb \in Int /\ na \in Int
          BY <1>4, <2>4
        <5>2. oa \in {qa, ob} /\ oa >= qa /\ oa < qb
          BY <3>2, <4>1
        <5>3. nb \in {ob, s} /\ nb >= ob /\ nb >= s
          <6>1. nb = larger(ob, s)
            BY <4>4
          <6> HIDE DEF nb, ob
          <6> QED BY <4>3, <5>1, <6>1, LargerIs
        <5>4. na \in {oa, nb} /\ na >= oa /\ na >= nb
          <6>1. na = larger(oa, nb)
            BY <4>4
          <6> HIDE DEF na, oa, nb
          <6> QED BY <5>1, <6>1, LargerIs
        <5>5. (s > oa => s <= z) /\ (s < qb => z <= s)
          BY <4>5
        <5> HIDE DEF qa, qb, ob, oa, nb, na
        <5>6. /\ na \in {qa, nb} /\ na >= qa
              /\ nb < qb => z <= nb
              /\ nb > qa => nb = ob \/ nb <= z
              /\ na >= qb => nb >= qb
          BY <2>3, <4>3, <5>1, <5>2, <5>3, <5>4, <5>5, LineTried
        <5> QED BY <5>3, <5>6 DEF qa, qb, ob, oa, nb, na
      <4>7. new.cut <=> new.alpha >= q.beta
        BY <2>2, <3>4
      <4>8. new.best >= -1000
        BY <2>4, <3>2, <4>6
      <4>9. (new.cut => new.best >= q.beta) /\ (~ new.cut => new.alpha < q.beta)
        BY <1>4, <2>4, <4>6, <4>7
      <4>10. ASSUME new.best < q.beta, NEW j \in 1 .. k
             PROVE  worthOf(seq[j]) <= new.best
        <5>1. CASE j = k
          BY <4>6, <4>10, <5>1 DEF z, w
        <5>2. CASE j # k
          <6>1. j \in 1 .. k - 1 /\ j \in 1 .. len
            BY <1>2, <5>2
          <6>2. old.best < q.beta
            BY <1>4, <2>4, <4>6, <4>10
          <6>3. worthOf(seq[j]) <= old.best /\ worthOf(seq[j]) \in Int
            BY <1>2, <1>5, <3>2, <6>1, <6>2
          <6> QED BY <2>4, <4>6, <6>3
        <5> QED BY <5>1, <5>2
      <4>11. ASSUME new.best > q.alpha
             PROVE  new.best = -1000 \/ \E x \in replies(q.at) : new.best <= worthOf(x)
        <5>1. CASE new.best = old.best
          BY <3>2, <4>11, <5>1
        <5>2. CASE new.best <= z
          BY <2>1, <5>2 DEF z
        <5> QED BY <4>6, <4>11, <5>1, <5>2
      <4> QED BY <4>6, <4>8, <4>9, <4>10, <4>11
    <3> QED BY <3>3, <3>4
  <2>7. I(k)
    BY <2>6
  <2> HIDE DEF I
  <2> QED BY <2>1, <2>7
<1>8. I(len)
  <2>1. len \in 0 .. len
    BY <1>2
  <2>2. \A k \in 0 .. len : k \in T
    <3> HIDE DEF T
    <3> QED BY <1>2, <1>6, <1>7, StepByStep
  <2> HIDE DEF I
  <2> QED BY <2>1, <2>2
<1> DEFINE score == L[len].best
           f == floored(m, q.at)
<1>9. explore(q, negamax[m - 1]).score = score /\ L[len].budget > 0
  BY <1>3 DEF below
<1>10. score \in Int /\ score >= -1000
  <2>1. L[len] \in LoopState
    BY <1>2, <1>3
  <2> QED BY <1>8, <1>9, <2>1 DEF LoopState
<1>11. /\ score < q.beta => \A w \in replies(q.at) : worthOf(w) <= score
       /\ score > q.alpha => score = -1000 \/ \E w \in replies(q.at) : score <= worthOf(w)
  <2>1. /\ score < q.beta => \A j \in 1 .. len : worthOf(seq[j]) <= score
        /\ score > q.alpha => score = -1000 \/ \E w \in replies(q.at) : score <= worthOf(w)
    BY <1>8, <1>9
  <2> HIDE DEF score
  <2> QED BY <1>2, <2>1
<1>12. /\ f \in Int /\ f >= -1000
       /\ \A w \in replies(q.at) : f >= worthOf(w)
       /\ f = -1000 \/ \E w \in replies(q.at) : f = worthOf(w)
  <2>1. m \in 0 .. 3 /\ m # 0
    OBVIOUS
  <2> QED BY <2>1, FlooredIs DEF worthOf
<1>13. \A w \in replies(q.at) : worthOf(w) \in Int
  BY <1>2, <1>5
<1> HIDE DEF score, f
<1>14. score < q.beta => f <= score
  BY <1>10, <1>11, <1>12, <1>13
<1>15. score > q.alpha => score <= f
  BY <1>10, <1>11, <1>12, <1>13
<1> QED BY <1>9, <1>14, <1>15 DEF IsRight, f

\* So the search is right at every depth it is used at.
LEMMA SearchIsRight ==
    ASSUME NEW u \in 0 .. 3
    PROVE  RightAt(u)
<1>1. ASSUME NEW m \in 0 .. 3, m = 0 \/ RightAt(m - 1)
      PROVE  RightAt(m)
  <2> SUFFICES ASSUME NEW q \in Query, q.at \in Roomy, q.alpha < q.beta, negamax[m][q].budget > 0
               PROVE  IsRight(q, floored(m, q.at), negamax[m][q].score)
    BY DEF RightAt
  <2> DEFINE r == negamax[m][q]
             f == floored(m, q.at)
  <2>1. r = IF q.budget <= 0 THEN [score |-> q.alpha, budget |-> q.budget]
            ELSE IF replies(q.at) = {} THEN [score |-> loseScore - m, budget |-> q.budget - 1]
            ELSE IF m = 0 THEN [score |-> mobility(Cardinality(replies(q.at))),
                                budget |-> q.budget - 1]
            ELSE explore(q, negamax[m - 1])
    <3> DEFINE ans(x) == IF x.budget <= 0 THEN [score |-> x.alpha, budget |-> x.budget]
                         ELSE IF replies(x.at) = {} THEN [score |-> loseScore - m, budget |-> x.budget - 1]
                         ELSE IF m = 0 THEN [score |-> mobility(Cardinality(replies(x.at))),
                                             budget |-> x.budget - 1]
                         ELSE explore(x, negamax[m - 1])
    <3>1. negamax[m] = [x \in Query |-> ans(x)]
      <4>1. negamax[m] = level("pruned", m, negamax)
        BY SearchesAre
      <4> QED BY <4>1 DEF level
    <3>2. r = ans(q)
      <4> HIDE DEF ans
      <4> QED BY <3>1
    <3> QED BY <3>2
  <2>2. ValueIs(m, q.at)
    BY ValuesAre
  <2>3. f \in Int /\ q.budget \in Int
    BY FlooredIs DEF Query
  <2> HIDE DEF r
  <2>4. ~ (q.budget <= 0)
    <3> SUFFICES ASSUME q.budget <= 0 PROVE FALSE
      OBVIOUS
    <3>1. r.budget = q.budget
      BY <2>1
    <3> QED BY <2>3, <3>1 DEF r
  <2>5. CASE replies(q.at) = {}
    <3>1. r.score = -1000 - m
      BY <2>1, <2>4, <2>5 DEF loseScore
    <3>2. f = -1000 - m
      BY <2>2, <2>5 DEF ValueIs, floored
    <3> HIDE DEF f
    <3>3. r.score = f
      BY <3>1, <3>2
    <3> QED BY <2>3, <3>3 DEF IsRight, r, f
  <2>6. CASE replies(q.at) # {} /\ m = 0
    <3>1. r.score = Cardinality(replies(q.at))
      BY <2>1, <2>4, <2>6 DEF mobility
    <3>2. f = Cardinality(replies(q.at))
      BY <2>2, <2>6 DEF ValueIs, floored
    <3> HIDE DEF f
    <3>3. r.score = f
      BY <3>1, <3>2
    <3> QED BY <2>3, <3>3 DEF IsRight, r, f
  <2>7. CASE replies(q.at) # {} /\ m # 0
    <3>1. r = explore(q, negamax[m - 1])
      BY <2>1, <2>4, <2>7
    <3>2. explore(q, negamax[m - 1]).budget > 0
      BY <3>1 DEF r
    <3>3. m \in 1 .. 3 /\ RightAt(m - 1)
      BY <1>1, <2>7
    <3>4. IsRight(q, floored(m, q.at), explore(q, negamax[m - 1]).score)
      BY <2>7, <3>2, <3>3, NodeIsRight
    <3> QED BY <3>1, <3>4 DEF r
  <2> QED BY <2>5, <2>6, <2>7
<1> DEFINE T == {m \in 0 .. u : RightAt(m)}
<1>2. 0 \in T
  BY <1>1
<1>3. ASSUME NEW m \in 1 .. u, m - 1 \in T
      PROVE  m \in T
  <2>1. m \in 0 .. 3 /\ m \in 0 .. u
    OBVIOUS
  <2> QED BY <1>1, <1>3, <2>1
<1>4. u \in T
  <2>1. u \in 0 .. u
    OBVIOUS
  <2> HIDE DEF T
  <2> QED BY <1>2, <1>3, <2>1, StepByStep
<1> QED BY <1>4

----------------------------------------------------------------------------
(***************************************************************************)
(* The root.  A move is taken when it is worth more than the best so far,  *)
(* and the window closes on that from below: what is found to be no        *)
(* better is not, and what is found to be better is worth what was found.  *)
(***************************************************************************)
RootState == [alpha : Int, best : Word, budget : Int]

\* What a move at the root is asked.
askedAtRoot(b, loop, w) ==
    [at |-> after(b, w), alpha |-> -Inf, beta |-> -loop.alpha, budget |-> loop.budget]

\* What a move makes of the loop: nothing once the budget is spent.
LEMMA RootMoveIs ==
    ASSUME NEW b \in Position, NEW loop \in RootState, NEW w \in Word
    PROVE  LET r == negamax[searchDepth - 1][askedAtRoot(b, loop, w)]
               next == rootMove(b, loop, w)
           IN  /\ askedAtRoot(b, loop, w) \in Query
               /\ r \in Answer
               /\ next \in RootState /\ next.budget <= loop.budget
               /\ next.best \in {loop.best, w}
               /\ loop.budget <= 0 => next = loop
               /\ loop.budget > 0 =>
                     /\ next.budget = r.budget
                     /\ -r.score > loop.alpha => next.alpha = -r.score /\ next.best = w
                     /\ ~ (-r.score > loop.alpha) => next.alpha = loop.alpha /\ next.best = loop.best
<1> DEFINE q == askedAtRoot(b, loop, w)
           f == negamax[searchDepth - 1]
           r == f[q]
           next == rootMove(b, loop, w)
<1>1. q \in Query /\ q.budget = loop.budget
  <2>1. after(b, w) \in Position
    BY RepliesAre
  <2>2. -loop.alpha \in Int /\ loop.budget \in Int
    BY DEF RootState
  <2>3. -Inf \in Int
    BY DEF Inf
  <2> QED BY <2>1, <2>2, <2>3 DEF askedAtRoot, Query
<1>2. f \in Search
  <2>1. searchDepth - 1 \in Nat
    BY SearchLimits
  <2> QED BY <2>1, NegamaxIsASearch
<1>3. r \in Answer /\ r.budget <= loop.budget
  <2> HIDE DEF q, f
  <2> QED BY <1>1, <1>2 DEF Search
<1>4. r.score \in Int /\ r.budget \in Int /\ -r.score \in Int
  <2>1. r.score \in Int /\ r.budget \in Int
    <3> HIDE DEF q, f
    <3> QED BY <1>3 DEF Answer
  <2> HIDE DEF q, f, r
  <2> QED BY <2>1
<1>5. loop.alpha \in Int /\ loop.best \in Word /\ loop.budget \in Int
      /\ loop = [alpha |-> loop.alpha, best |-> loop.best, budget |-> loop.budget]
  BY DEF RootState
<1>6. next = IF loop.budget <= 0 THEN loop
             ELSE IF -r.score > loop.alpha
                  THEN [alpha |-> -r.score, best |-> w, budget |-> r.budget]
                  ELSE [loop EXCEPT !.budget = r.budget]
  BY DEF rootMove, askedAtRoot
<1> HIDE DEF q, f, r, next
<1>7. CASE loop.budget <= 0
  <2>1. next = loop /\ ~ (loop.budget > 0)
    BY <1>5, <1>6, <1>7
  <2> QED BY <1>1, <1>3, <1>5, <2>1 DEF q, f, r, next
<1>8. CASE ~ (loop.budget <= 0) /\ -r.score > loop.alpha
  <2>1. next = [alpha |-> -r.score, best |-> w, budget |-> r.budget]
    BY <1>6, <1>8
  <2>2. next \in RootState
    BY <1>4, <2>1 DEF RootState
  <2>3. next.alpha = -r.score /\ next.best = w /\ next.budget = r.budget
    BY <2>1
  <2> QED BY <1>1, <1>3, <1>8, <2>2, <2>3 DEF q, f, r, next
<1>9. CASE ~ (loop.budget <= 0) /\ ~ (-r.score > loop.alpha)
  <2>1. next = [alpha |-> loop.alpha, best |-> loop.best, budget |-> r.budget]
    BY <1>5, <1>6, <1>9
  <2>2. next \in RootState
    BY <1>4, <1>5, <2>1 DEF RootState
  <2>3. next.alpha = loop.alpha /\ next.best = loop.best /\ next.budget = r.budget
    BY <2>1
  <2> QED BY <1>1, <1>3, <1>9, <2>2, <2>3 DEF q, f, r, next
<1> QED BY <1>7, <1>8, <1>9

\* The loop over the moves at the root, one state after another.
LEMMA RootLoop ==
    ASSUME NEW b \in Position, NEW moves \in SUBSET Word, moves # {}
    PROVE  LET seq == tried(b, moves)
               len == Len(seq)
           IN  \E L \in [0 .. len -> RootState] :
                  /\ L[0] = atRoot(b, moves)
                  /\ \A k \in 1 .. len : L[k] = rootMove(b, L[k - 1], seq[k])
                  /\ \A k \in 0 .. len : L[k].best \in moves
                  /\ searched(b, moves) = L[len]
<1> DEFINE seq == tried(b, moves)
           len == Len(seq)
           base == atRoot(b, moves)
           F == Loop("moves", b, 0, base, seq)
           L == [k \in 0 .. len |-> F[1 .. k]]
           T == {k \in 0 .. len : F[1 .. k] \in RootState /\ F[1 .. k].best \in moves}
<1>1. /\ len \in Nat /\ DOMAIN seq = 1 .. len
      /\ \A k \in 1 .. len : seq[k] \in Word /\ seq[k] \in moves
      /\ tightestFirst(b, moves)[1] \in moves
  BY TriedAre
<1>2. base \in RootState /\ base.best \in moves
  <2>1. -Inf \in Int /\ nodeCap \in Int
    BY SearchLimits DEF Inf
  <2>2. tightestFirst(b, moves)[1] \in Word
    BY <1>1
  <2> QED BY <1>1, <2>1, <2>2 DEF atRoot, RootState
<1>3. searched(b, moves) = F[1 .. len]
  <2>1. searched(b, moves) = F[DOMAIN seq]
    BY SearchedIs
  <2> HIDE DEF F, seq
  <2> QED BY <1>1, <2>1
<1> HIDE DEF seq, base, len
<1>4. F[1 .. 0] = base /\ \A k \in 1 .. len : F[1 .. k] = rootMove(b, F[1 .. k - 1], seq[k])
  <2>1. /\ F[1 .. 0] = base
        /\ \A k \in 1 .. len : F[1 .. k] = turn("moves", b, 0, F[1 .. k - 1], seq[k])
    BY <1>1, LoopGoesOn
  <2>2. \A loop, w : turn("moves", b, 0, loop, w) = rootMove(b, loop, w)
    BY DEF turn
  <2> HIDE DEF F
  <2> QED BY <2>1, <2>2
<1> HIDE DEF F
<1>5. 0 \in T
  BY <1>1, <1>2, <1>4
<1>6. ASSUME NEW k \in 1 .. len, k - 1 \in T
      PROVE  k \in T
  <2>1. F[1 .. k - 1] \in RootState /\ F[1 .. k - 1].best \in moves
    BY <1>6
  <2>2. F[1 .. k] = rootMove(b, F[1 .. k - 1], seq[k]) /\ seq[k] \in Word /\ seq[k] \in moves
    BY <1>1, <1>4
  <2>3. F[1 .. k] \in RootState /\ F[1 .. k].best \in {F[1 .. k - 1].best, seq[k]}
    BY <2>1, <2>2, RootMoveIs
  <2> QED BY <2>1, <2>2, <2>3
<1>7. \A k \in 0 .. len : k \in T
  <2> HIDE DEF T
  <2> QED BY <1>1, <1>5, <1>6, StepByStep
<1>8. L \in [0 .. len -> RootState] /\ \A k \in 0 .. len : L[k] = F[1 .. k] /\ L[k].best \in moves
  BY <1>7
<1>9. \A k \in 1 .. len : k \in 0 .. len /\ k - 1 \in 0 .. len
  BY <1>1
<1>10. 0 \in 0 .. len /\ len \in 0 .. len
  BY <1>1
<1> HIDE DEF L, T
<1>11. /\ L[0] = base
       /\ \A k \in 1 .. len : L[k] = rootMove(b, L[k - 1], seq[k])
       /\ searched(b, moves) = L[len]
  BY <1>3, <1>4, <1>8, <1>9, <1>10
<1>12. \A k \in 0 .. len : L[k].best \in moves
  BY <1>8
<1> QED BY <1>8, <1>11, <1>12 DEF seq, len, base

\* What is answered at the root is worth as much as any move, if all were looked at.
LEMMA RootIsRight ==
    ASSUME NEW b \in Roomy, NEW moves \in SUBSET Word, moves # {},
           Cardinality(moves) <= branchCap, searched(b, moves).budget > 0
    PROVE  \A w \in moves : floored(searchDepth - 1, after(b, searched(b, moves).best))
                                <= floored(searchDepth - 1, after(b, w))
<1> DEFINE m == searchDepth - 1
           seq == tried(b, moves)
           len == Len(seq)
           left(w) == floored(m, after(b, w))
<1>0. Inf \in Int /\ Inf > 1003
  BY SMT DEF Inf
<1>1. b \in Position /\ m \in 0 .. 3 /\ RightAt(m)
  <2>1. b \in Position
    BY RoomyAre
  <2>2. m \in 0 .. 3
    BY SearchLimits
  <2> HIDE DEF m
  <2> QED BY <2>1, <2>2, SearchIsRight
<1>2. \A w \in Word : after(b, w) \in Roomy /\ left(w) \in Int /\ left(w) >= -1003 /\ left(w) <= 1002
  <2> SUFFICES ASSUME NEW w \in Word
               PROVE  after(b, w) \in Roomy /\ left(w) \in Int /\ left(w) >= -1003 /\ left(w) <= 1002
    OBVIOUS
  <2>1. after(b, w) \in Roomy
    BY RoomyAre
  <2> HIDE DEF m
  <2>2. left(w) \in Int /\ left(w) >= -1003 /\ left(w) <= 1002
    BY <1>1, <2>1, FlooredIs
  <2> HIDE DEF left
  <2> QED BY <2>1, <2>2
<1>3. /\ len \in Nat
      /\ \A k \in 1 .. len : seq[k] \in Word /\ seq[k] \in moves
      /\ 1 \in 1 .. len
      /\ \A w \in moves : \E k \in 1 .. len : seq[k] = w
  BY <1>1, TriedAre
<1>4. PICK L \in [0 .. len -> RootState] :
         /\ L[0] = atRoot(b, moves)
         /\ \A k \in 1 .. len : L[k] = rootMove(b, L[k - 1], seq[k])
         /\ \A k \in 0 .. len : L[k].best \in moves
         /\ searched(b, moves) = L[len]
  BY <1>1, RootLoop
<1> HIDE DEF m, seq, len, left
<1> DEFINE I(k) == L[k].budget > 0 =>
                     /\ L[k].alpha < Inf
                     /\ k = 0 \/ L[k].alpha = -left(L[k].best)
                     /\ k = 0 => L[k].alpha = -Inf
                     /\ \A j \in 1 .. k : -left(seq[j]) <= L[k].alpha
           T == {k \in 0 .. len : I(k)}
<1>5. 0 \in T
  <2>1. L[0].alpha = -Inf
    BY <1>4 DEF atRoot
  <2>2. \A j \in 1 .. 0 : FALSE
    OBVIOUS
  <2>3. 0 \in 0 .. len
    BY <1>3
  <2> QED BY <1>0, <2>1, <2>2, <2>3
<1>6. ASSUME NEW k \in 1 .. len, k - 1 \in T
      PROVE  k \in T
  <2> DEFINE old == L[k - 1]
             new == L[k]
             w == seq[k]
             a == askedAtRoot(b, old, w)
             r == negamax[m][a]
             x == left(w)
  <2>1. /\ old \in RootState /\ new \in RootState /\ w \in Word
        /\ new = rootMove(b, old, w)
        /\ k \in 0 .. len /\ k - 1 \in 0 .. len /\ k \in Nat
    BY <1>3, <1>4
  <2>2. /\ a \in Query /\ r \in Answer
        /\ new.budget <= old.budget
        /\ old.budget <= 0 => new = old
        /\ old.budget > 0 =>
              /\ new.budget = r.budget
              /\ -r.score > old.alpha => new.alpha = -r.score /\ new.best = w
              /\ ~ (-r.score > old.alpha) => new.alpha = old.alpha /\ new.best = old.best
    BY <1>1, <2>1, RootMoveIs DEF m
  <2>3. /\ old.alpha \in Int /\ old.budget \in Int /\ new.alpha \in Int /\ new.budget \in Int
        /\ r.score \in Int /\ old.best \in Word
    <3> HIDE DEF old, new, r
    <3> QED BY <2>1, <2>2 DEF RootState, Answer
  <2>4. x \in Int /\ x >= -1003 /\ x <= 1002 /\ after(b, w) \in Roomy
    BY <1>2, <2>1
  <2>5. ASSUME new.budget > 0
        PROVE  /\ new.alpha < Inf
               /\ new.alpha = -left(new.best)
               /\ \A j \in 1 .. k : -left(seq[j]) <= new.alpha
    <3>1. old.budget > 0
      <4> HIDE DEF old, new, r
      <4> QED BY <2>2, <2>3, <2>5
    <3>2. /\ old.alpha < Inf
          /\ k - 1 = 0 \/ old.alpha = -left(old.best)
          /\ k - 1 = 0 => old.alpha = -Inf
          /\ \A j \in 1 .. k - 1 : -left(seq[j]) <= old.alpha
      <4>1. I(k - 1)
        BY <1>6
      <4> QED BY <3>1, <4>1
    <3>3. (r.score < -old.alpha => x <= r.score) /\ (r.score > -Inf => r.score <= x)
      <4>1. a.at = after(b, w) /\ a.alpha = -Inf /\ a.beta = -old.alpha
        BY DEF askedAtRoot
      <4>2. a.alpha < a.beta /\ a.at \in Roomy
        BY <1>0, <2>3, <2>4, <3>2, <4>1
      <4>3. r.budget > 0
        BY <2>2, <2>5, <3>1
      <4>4. r = negamax[m][a] /\ x = floored(m, a.at)
        BY <4>1 DEF left
      <4> HIDE DEF a, r, x
      <4>5. IsRight(a, floored(m, a.at), r.score)
        BY <1>1, <2>2, <4>2, <4>3, <4>4 DEF RightAt
      <4> QED BY <4>1, <4>4, <4>5 DEF IsRight
    <3> HIDE DEF old, new, r, x, w, a
    <3>4. /\ -r.score > old.alpha => r.score = x
          /\ ~ (-r.score > old.alpha) => -x <= old.alpha /\ old.alpha # -Inf
      <4> DEFINE oa == old.alpha
                 f == r.score
      <4>1. oa \in Int /\ oa < Inf /\ f \in Int
        BY <2>3, <3>2
      <4>2. (f < -oa => x <= f) /\ (f > -Inf => f <= x)
        BY <3>3
      <4> HIDE DEF oa, f
      <4>3. /\ -f > oa => f = x
            /\ ~ (-f > oa) => -x <= oa /\ oa # -Inf
        BY <1>0, <2>4, <4>1, <4>2
      <4> QED BY <4>3 DEF oa, f
    <3>5. CASE -r.score > old.alpha
      <4>1. new.alpha = -x /\ new.best = w /\ new.alpha > old.alpha
        BY <2>2, <2>3, <3>1, <3>4, <3>5
      <4>2. new.alpha = -left(new.best)
        BY <4>1 DEF x
      <4>3. new.alpha < Inf
        BY <1>0, <2>4, <4>1
      <4>4. ASSUME NEW j \in 1 .. k
            PROVE  -left(seq[j]) <= new.alpha
        <5>1. CASE j = k
          BY <2>3, <4>1, <5>1 DEF x, w
        <5>2. CASE j # k
          <6>1. j \in 1 .. k - 1 /\ j \in 1 .. len
            BY <1>3, <5>2
          <6> DEFINE y == left(seq[j])
          <6>2. -y <= old.alpha /\ y \in Int
            BY <1>2, <1>3, <3>2, <6>1
          <6> HIDE DEF y
          <6>3. -y <= new.alpha
            BY <2>3, <4>1, <6>2
          <6> QED BY <6>3 DEF y
        <5> QED BY <5>1, <5>2
      <4> QED BY <4>2, <4>3, <4>4
    <3>6. CASE ~ (-r.score > old.alpha)
      <4>1. new.alpha = old.alpha /\ new.best = old.best /\ -x <= old.alpha /\ k - 1 # 0
        BY <2>2, <3>1, <3>2, <3>4, <3>6
      <4>2. ASSUME NEW j \in 1 .. k
            PROVE  -left(seq[j]) <= new.alpha
        <5>1. CASE j = k
          BY <4>1, <5>1 DEF x, w
        <5>2. CASE j # k
          <6>1. j \in 1 .. k - 1
            BY <1>3, <5>2
          <6> QED BY <3>2, <4>1, <6>1
        <5> QED BY <5>1, <5>2
      <4>3. new.alpha = -left(new.best)
        BY <3>2, <4>1
      <4> QED BY <3>2, <4>1, <4>2, <4>3
    <3> QED BY <3>5, <3>6
  <2>6. I(k)
    <3>1. k # 0
      OBVIOUS
    <3> QED BY <2>5, <3>1
  <2> HIDE DEF I
  <2> QED BY <2>1, <2>6
<1>7. I(len)
  <2>1. len \in 0 .. len
    BY <1>3
  <2>2. \A k \in 0 .. len : k \in T
    <3> HIDE DEF T
    <3> QED BY <1>3, <1>5, <1>6, StepByStep
  <2> HIDE DEF I
  <2> QED BY <2>1, <2>2
<1>8. L[len].budget > 0 /\ len # 0 /\ L[len].best \in moves
  <2>1. len \in 0 .. len
    BY <1>3
  <2> QED BY <1>3, <1>4, <2>1
<1>9. L[len].alpha = -left(L[len].best) /\ \A j \in 1 .. len : -left(seq[j]) <= L[len].alpha
  BY <1>7, <1>8
<1>10. ASSUME NEW w \in moves
       PROVE  left(L[len].best) <= left(w)
  <2>1. -left(w) <= -left(L[len].best)
    BY <1>3, <1>9
  <2>2. left(w) \in Int /\ left(L[len].best) \in Int /\ w \in Word /\ L[len].best \in Word
    BY <1>2, <1>8
  <2> DEFINE x == left(w)
             y == left(L[len].best)
  <2>3. -x <= -y /\ x \in Int /\ y \in Int
    BY <2>1, <2>2
  <2> HIDE DEF x, y
  <2>4. y <= x
    BY <2>3
  <2> QED BY <2>4 DEF x, y
<1> QED BY <1>4, <1>10 DEF left, m

\* What no move is better than for the search, no move is better than for minimax: the floor
\* of the search changes no comparison.
LEMMA WorthAsFound ==
    ASSUME NEW b \in Roomy, NEW v \in Word, NEW w \in Word,
           floored(searchDepth - 1, after(b, v)) <= floored(searchDepth - 1, after(b, w))
    PROVE  worth(b, v) >= worth(b, w)
<1> DEFINE m == searchDepth - 1
           fv == floored(m, after(b, v))
           fw == floored(m, after(b, w))
           mv == minimax[m][after(b, v)]
           mw == minimax[m][after(b, w)]
<1>1. m \in 0 .. 3 /\ after(b, v) \in Roomy /\ after(b, w) \in Roomy
  BY SearchLimits, RoomyAre
<1> HIDE DEF m
<1>2. /\ fv \in Int /\ (m # 3 => fv = mv)
      /\ \/ fv = mv /\ (m = 3 => mv # -1000)
         \/ fv = -1000 /\ mv = -1001
  BY <1>1, FlooredIs
<1>3. /\ fw \in Int /\ (m # 3 => fw = mw)
      /\ \/ fw = mw /\ (m = 3 => mw # -1000)
         \/ fw = -1000 /\ mw = -1001
  BY <1>1, FlooredIs
<1>4. fv <= fw
  BY DEF m
<1> HIDE DEF fv, fw, mv, mw
<1>5. mv \in Int /\ mw \in Int /\ mv <= mw
  BY <1>2, <1>3, <1>4
<1>6. -mv >= -mw
  BY <1>5
<1> QED BY <1>6 DEF worth, mv, mw, m

----------------------------------------------------------------------------
(***************************************************************************)
(* The three strategies.                                                   *)
(***************************************************************************)
LEMMA MovesAre ==
    ASSUME NEW b \in Position
    PROVE  /\ legalMoves(b) \in SUBSET Word
           /\ kills(b) \in SUBSET legalMoves(b)
           /\ declined(b) \in SUBSET legalMoves(b)
           /\ legalMoves(b) # {} => declined(b) # {}
<1>1. legalMoves(b) \in SUBSET Word
  BY RepliesAre DEF legalMoves
<1>2. kills(b) \in SUBSET legalMoves(b) /\ spared(b) \in SUBSET legalMoves(b)
  BY DEF kills, spared
<1> QED BY <1>1, <1>2 DEF declined

\* Medium answers a legal word, one whenever there is one, and a kill when there is one: no
\* move comes before the tightest, and it sees no further than the quarter that does.
LEMMA MediumIs ==
    ASSUME NEW b \in Position
    PROVE  /\ medium(b) \subseteq legalMoves(b)
           /\ medium(b) = {} <=> legalMoves(b) = {}
           /\ kills(b) # {} => medium(b) \subseteq kills(b)
<1> DEFINE moves == legalMoves(b)
           scored == tightestFirst(b, moves)
           tightest == scored[1]
           quarter == larger(Len(scored) \div 4, 1)
           seen == atMost(scored, quarter)
<1>1. moves \in SUBSET Word /\ kills(b) \in SUBSET moves
  BY MovesAre
<1>2. CASE moves = {}
  <2>1. medium(b) = {}
    BY <1>2 DEF medium
  <2> QED BY <1>1, <1>2, <2>1
<1>3. CASE moves # {}
  <2>1. /\ Len(scored) \in Nat /\ scored \in Seq(moves) /\ 1 \in DOMAIN scored
        /\ \A w \in moves : ~ comesBefore(b, w, tightest)
    <3> HIDE DEF moves
    <3> QED BY <1>1, <1>3, TightestAre
  <2>2. tightest \in moves
    <3> HIDE DEF moves, scored
    <3>1. scored \in Seq(moves) /\ 1 \in DOMAIN scored
      BY <2>1
    <3> QED BY <3>1, ElementOfSeq, <2>1
  <2>3. ASSUME kills(b) # {}
        PROVE  handsOver(b, tightest) = 0
    <3>1. PICK w \in moves : handsOver(b, w) = 0
      BY <2>3 DEF kills
    <3>2. ~ (handsOver(b, w) < handsOver(b, tightest))
      <4>1. ~ comesBefore(b, w, tightest)
        BY <2>1, <3>1
      <4> QED BY <4>1 DEF comesBefore
    <3>3. handsOver(b, tightest) \in Nat
      BY <1>1, <2>2, RepliesAre
    <3> HIDE DEF tightest
    <3> QED BY <3>1, <3>2, <3>3
  <2>4. CASE handsOver(b, tightest) = 0
    <3>1. medium(b) = {tightest}
      BY <1>3, <2>4 DEF medium
    <3>2. tightest \in kills(b)
      BY <2>2, <2>4 DEF kills
    <3> HIDE DEF tightest
    <3> QED BY <1>1, <1>3, <3>1, <3>2
  <2>5. CASE handsOver(b, tightest) # 0
    <3>1. medium(b) = ToSet(seen)
      BY <1>3, <2>5 DEF medium
    <3>2. quarter \in Nat \ {0}
      <4> DEFINE len == Len(scored)
                 d == len \div 4
      <4>1. len \in Nat
        BY <2>1
      <4> HIDE DEF len
      <4>2. d \in Int
        BY <4>1
      <4> HIDE DEF d
      <4>3. larger(d, 1) \in Nat \ {0}
        BY <4>2 DEF larger
      <4> QED BY <4>3 DEF d, len
    <3>3. 1 \in DOMAIN seen /\ \A k \in DOMAIN seen : seen[k] \in moves
      <4> HIDE DEF quarter, scored, moves
      <4>1. 1 \in DOMAIN seen /\ seen \in Seq(moves)
        BY <2>1, <3>2, AtMostIs
      <4> HIDE DEF seen
      <4> QED BY <4>1
    <3> HIDE DEF seen
    <3>4. medium(b) \subseteq moves /\ medium(b) # {}
      BY <3>1, <3>3 DEF ToSet
    <3>5. kills(b) = {}
      BY <2>3, <2>5
    <3> QED BY <1>3, <3>4, <3>5
  <2> QED BY <2>4, <2>5
<1> QED BY <1>2, <1>3

\* Hard answers a legal word, one whenever there is one, and a kill or, if the caps cut
\* nothing, a word no other beats.
LEMMA HardIs ==
    ASSUME NEW b \in Position
    PROVE  /\ hard(b) \subseteq legalMoves(b)
           /\ hard(b) = {} <=> legalMoves(b) = {}
           /\ \A w \in hard(b) : uncapped(b) => w \in kills(b) \/ isBest(b, w, declined(b))
<1> DEFINE moves == declined(b)
           answer == searched(b, moves).best
<1>1. /\ legalMoves(b) \in SUBSET Word /\ kills(b) \in SUBSET legalMoves(b)
      /\ moves \in SUBSET legalMoves(b) /\ moves \in SUBSET Word
      /\ legalMoves(b) # {} => moves # {}
  BY MovesAre
<1>2. CASE legalMoves(b) = {}
  <2>1. hard(b) = {}
    BY <1>2 DEF hard
  <2> QED BY <1>2, <2>1
<1>3. CASE legalMoves(b) # {}
  <2>1. hard(b) = kills(b) \cup {answer}
    BY <1>3 DEF hard
  <2>2. answer \in moves
    <3> DEFINE len == Len(tried(b, moves))
    <3> HIDE DEF moves
    <3>1. len \in Nat
      BY <1>1, TriedAre
    <3>2. PICK L \in [0 .. len -> RootState] :
             /\ \A k \in 0 .. len : L[k].best \in moves
             /\ searched(b, moves) = L[len]
      BY <1>1, <1>3, RootLoop
    <3>3. len \in 0 .. len
      BY <3>1
    <3> QED BY <3>2, <3>3
  <2>3. ASSUME uncapped(b)
        PROVE  isBest(b, answer, moves)
    <3>1. b \in Roomy /\ searched(b, moves).budget > 0
      BY <2>3 DEF uncapped, Roomy
    <3>2. Cardinality(moves) <= branchCap
      <4>1. IsFiniteSet(replies(b)) /\ Cardinality(replies(b)) <= branchCap
            /\ Cardinality(replies(b)) \in Nat
        BY <3>1, RepliesAre, RoomyAre
      <4>2. moves \in SUBSET replies(b)
        BY <1>1 DEF legalMoves
      <4>3. Cardinality(moves) <= Cardinality(replies(b)) /\ Cardinality(moves) \in Nat
        <5> HIDE DEF moves
        <5>1. IsFiniteSet(moves)
          BY <4>1, <4>2, FS_Subset
        <5> QED BY <4>1, <4>2, <5>1, FS_Subset, FS_CardinalityType
      <4>4. branchCap \in Nat
        BY SearchLimits
      <4> HIDE DEF moves
      <4> QED BY <4>1, <4>3, <4>4
    <3> HIDE DEF moves
    <3>3. \A w \in moves : floored(searchDepth - 1, after(b, answer))
                              <= floored(searchDepth - 1, after(b, w))
      BY <1>1, <1>3, <3>1, <3>2, RootIsRight
    <3>4. \A w \in moves : worth(b, answer) >= worth(b, w)
      <4> HIDE DEF answer
      <4> QED BY <1>1, <2>2, <3>1, <3>3, WorthAsFound
    <3> QED BY <3>4 DEF isBest
  <2> HIDE DEF answer, moves
  <2>4. hard(b) \subseteq legalMoves(b) /\ hard(b) # {}
    BY <1>1, <2>1, <2>2
  <2>5. \A w \in hard(b) : uncapped(b) => w \in kills(b) \/ isBest(b, w, moves)
    BY <2>1, <2>3
  <2> QED BY <1>3, <2>4, <2>5 DEF moves
<1> QED BY <1>2, <1>3

\* What a bot that is asked and then answers may be: on a position, with no answer yet or
\* with that of the three strategies.
BotInv ==
    /\ board \in Position
    /\ phase \in {"asked", "answered"}
    /\ phase = "answered" =>
          picks = [easy |-> easy(board), medium |-> medium(board), hard |-> hard(board)]

\* It is inductive.
THEOREM BotInvariant == BotSpec => []BotInv
<1>1. BotInit => BotInv
  <2> SUFFICES ASSUME BotInit PROVE BotInv
    OBVIOUS
  <2>1. PICK words \in SUBSET Word :
           \E played \in SUBSET words, w \in words :
              board = [words |-> words, current |-> first(w), spent |-> played]
    BY DEF BotInit
  <2>2. PICK played \in SUBSET words, w \in words :
           board = [words |-> words, current |-> first(w), spent |-> played]
    BY <2>1
  <2>3. first(w) \in Syllable
    BY WordsAre
  <2>4. board \in Position
    BY <2>2, <2>3 DEF Position
  <2>5. phase = "asked"
    BY DEF BotInit
  <2> QED BY <2>4, <2>5 DEF BotInv
<1>2. BotInv /\ [choose]_botVars => BotInv'
  <2> SUFFICES ASSUME BotInv, [choose]_botVars PROVE BotInv'
    OBVIOUS
  <2>1. CASE choose
    <3>1. /\ board' = board /\ phase' = "answered"
          /\ picks' = [easy |-> easy(board), medium |-> medium(board), hard |-> hard(board)]
      BY <2>1 DEF choose
    <3>2. board \in Position
      BY DEF BotInv
    <3> QED BY <3>1, <3>2 DEF BotInv
  <2>2. CASE UNCHANGED botVars
    BY <2>2 DEF BotInv, botVars
  <2> QED BY <2>1, <2>2
<1> QED BY <1>1, <1>2, PTL DEF BotSpec

\* Every strategy answers a legal word and one whenever there is one, medium takes a win when
\* it sees one, and hard answers a kill or, if the caps cut nothing, a word that plain
\* minimax at that many plies rates no lower than any other: for every dictionary, every
\* position and all caps the theorem allows (server/internal/bot).
THEOREM BotsChooseWellAlways == BotSpec => []BotsChooseWell
<1>1. BotInv => BotsChooseWell
  <2> SUFFICES ASSUME BotInv, phase = "answered" PROVE BotsChooseWell
    BY DEF BotsChooseWell
  <2> DEFINE e == easy(board)
             med == medium(board)
             h == hard(board)
             moves == legalMoves(board)
  <2>1. board \in Position /\ picks = [easy |-> e, medium |-> med, hard |-> h]
    BY DEF BotInv
  <2>2. e = moves
    BY DEF easy
  <2>3. /\ med \subseteq moves /\ (med = {} <=> moves = {})
        /\ kills(board) # {} => med \subseteq kills(board)
    BY <2>1, MediumIs
  <2>4. /\ h \subseteq moves /\ (h = {} <=> moves = {})
        /\ \A w \in h : uncapped(board) => w \in kills(board) \/ isBest(board, w, declined(board))
    BY <2>1, HardIs
  <2> HIDE DEF e, med, h, moves
  <2>5. /\ DOMAIN picks = {"easy", "medium", "hard"}
        /\ picks["easy"] = e /\ picks["medium"] = med /\ picks["hard"] = h
    BY <2>1
  <2>6. \A d \in DOMAIN picks : picks[d] \subseteq moves /\ (picks[d] = {} <=> moves = {})
    BY <2>2, <2>3, <2>4, <2>5
  <2>7. picks.medium = med /\ picks.hard = h
    BY <2>1
  <2> QED BY <2>3, <2>4, <2>6, <2>7 DEF BotsChooseWell, moves
<1> QED BY <1>1, BotInvariant, PTL
=============================================================================
