----------------------------- MODULE BuildProofs -----------------------------
(***************************************************************************)
(* The builder, for any words, any spellings, any dumps and lists and any  *)
(* number of builds.                                                       *)
(*                                                                         *)
(* The alias table does not depend on the order in which the builder comes *)
(* to the words: AliasInv adds to the table's own contents what `poisoned` *)
(* remembers, the variants that more than one of the words gone through    *)
(* claims.  Without it a third claimant would be taken for the first.      *)
(*                                                                         *)
(* Then the files of a build, what a corpus line holds and is read back    *)
(* as, and last how a page is read: its section, its headings and what is  *)
(* left of a definition once its templates are stripped.                   *)
(***************************************************************************)
EXTENDS WikiBuild, FiniteSetTheorems, SequenceTheorems, WellFoundedInduction, TLAPS

AliasTypes ==
    /\ words \subseteq Spelling
    /\ todo \subseteq words

PoisonedAreClaimedTwice ==
    \A v \in Spelling \ words :
        v \in poisoned <=> \E u, w \in claimants(v) : u # w

AliasInv == AliasTypes /\ TableIsOrderFree /\ PoisonedAreClaimedTwice

\* Whoever has a variant in the table is its one claimant.
LEMMA TakenMeansClaimed ==
    ASSUME AliasInv, NEW v \in Spelling \ words
    PROVE  taken(v) <=> \E u \in words : claimants(v) = {u}
BY DEF AliasInv, AliasTypes, TableIsOrderFree, taken

\* A word that claims is added to the claimants of its variants, and to no others.
LEMMA ClaimantsGrow ==
    ASSUME AliasInv, NEW w \in todo, claim(w), NEW v \in Spelling
    PROVE  /\ w \notin claimants(v)
           /\ claimants(v)' = IF v \in variantsFor(w) THEN claimants(v) \cup {w} ELSE claimants(v)
BY DEF AliasInv, AliasTypes, claim, claimants

\* What a word claims is known spelling.
LEMMA ClaimsAreSpellings ==
    ASSUME AliasInv, NEW w \in todo
    PROVE  /\ w \in Spelling /\ w \in words
           /\ variantsFor(w) \subseteq Spelling
BY VariantsAssumption DEF AliasInv, AliasTypes

\* One turn of the loop keeps the table exact.
LEMMA ClaimKeepsTable ==
    ASSUME AliasInv, NEW w \in todo, claim(w)
    PROVE  TableIsOrderFree'
<1>1. words' = words
  BY DEF claim
<1>2. ASSUME NEW v \in Spelling, NEW u \in words
      PROVE  <<v, u>> \in aliases' <=> v \notin words /\ claimants(v)' = {u}
  <2>0. <<v, u>> \in aliases <=> v \notin words /\ claimants(v) = {u}
    BY DEF AliasInv, TableIsOrderFree
  <2>1. <<v, u>> \in aliases' <=>
           \/ <<v, u>> \in aliases /\ v \notin second(w)
           \/ v \in fresh(w) /\ u = w
    BY DEF claim
  <2>2. CASE v \in words
    BY <2>0, <2>1, <2>2 DEF fresh, second
  <2>3. CASE v \notin words /\ v \notin variantsFor(w)
    BY <2>0, <2>1, <2>3, ClaimantsGrow DEF fresh, second
  <2>4. CASE v \notin words /\ v \in variantsFor(w) /\ v \in poisoned
    <3>1. PICK x, y \in claimants(v) : x # y
      BY <2>4 DEF AliasInv, PoisonedAreClaimedTwice
    <3>2. <<v, u>> \notin aliases /\ claimants(v)' # {u}
      BY <2>0, <2>4, <3>1, ClaimantsGrow
    <3> QED
      BY <2>1, <2>4, <3>2 DEF fresh
  <2>5. CASE v \notin words /\ v \in variantsFor(w) /\ v \notin poisoned /\ taken(v)
    <3>1. PICK x \in words : claimants(v) = {x}
      BY <2>5, TakenMeansClaimed
    <3>2. x # w /\ claimants(v)' = {x, w}
      BY <2>5, <3>1, ClaimantsGrow
    <3>3. v \in second(w) /\ v \notin fresh(w)
      BY <2>5 DEF second, fresh
    <3> QED
      BY <2>1, <3>2, <3>3
  <2>6. CASE v \notin words /\ v \in variantsFor(w) /\ v \notin poisoned /\ ~taken(v)
    <3>1. claimants(v) = {}
      BY <2>6, TakenMeansClaimed DEF AliasInv, PoisonedAreClaimedTwice, claimants
    <3>2. claimants(v)' = {w} /\ v \in fresh(w) /\ <<v, u>> \notin aliases
      BY <2>0, <2>6, <3>1, ClaimantsGrow DEF fresh
    <3> QED
      BY <2>1, <2>6, <3>2
  <2> QED
    BY <2>2, <2>3, <2>4, <2>5, <2>6
<1>3. aliases' \subseteq Spelling \X words
  BY ClaimsAreSpellings DEF claim, fresh, AliasInv, TableIsOrderFree
<1> QED
  BY <1>1, <1>2, <1>3 DEF TableIsOrderFree

\* One turn of the loop poisons exactly the variants it is the second to claim.
LEMMA ClaimKeepsPoisoned ==
    ASSUME AliasInv, NEW w \in todo, claim(w)
    PROVE  PoisonedAreClaimedTwice'
<1>1. words' = words /\ poisoned' = poisoned \cup second(w)
  BY DEF claim
<1>2. ASSUME NEW v \in Spelling \ words
      PROVE  v \in poisoned' <=> \E x, y \in claimants(v)' : x # y
  <2>0. v \in poisoned <=> \E x, y \in claimants(v) : x # y
    BY DEF AliasInv, PoisonedAreClaimedTwice
  <2>1. CASE v \notin variantsFor(w)
    BY <1>1, <2>0, <2>1, ClaimantsGrow DEF second
  <2>2. CASE v \in variantsFor(w) /\ v \in poisoned
    BY <1>1, <2>0, <2>2, ClaimantsGrow
  <2>3. CASE v \in variantsFor(w) /\ v \notin poisoned /\ taken(v)
    <3>1. PICK x \in words : claimants(v) = {x}
      BY TakenMeansClaimed, <2>3
    <3> QED
      BY <1>1, <2>3, <3>1, ClaimantsGrow DEF second
  <2>4. CASE v \in variantsFor(w) /\ v \notin poisoned /\ ~taken(v)
    <3>1. claimants(v) = {}
      BY <2>4, TakenMeansClaimed DEF AliasInv, PoisonedAreClaimedTwice, claimants
    <3> QED
      BY <1>1, <2>4, <3>1, ClaimantsGrow DEF second
  <2> QED
    BY <2>1, <2>2, <2>3, <2>4
<1> QED
  BY <1>1, <1>2 DEF PoisonedAreClaimedTwice

\* The table and what is poisoned are right after every turn of the loop.
THEOREM AliasInvariance == AliasSpec => []AliasInv
<1>1. ASSUME NEW start \in SUBSET Spelling, AliasInit(start)
      PROVE  AliasInv
  BY <1>1 DEF AliasInit, AliasInv, AliasTypes, TableIsOrderFree, PoisonedAreClaimedTwice, claimants
<1>2. AliasInv /\ [AliasNext]_aliasVars => AliasInv'
  <2> SUFFICES ASSUME AliasInv, [AliasNext]_aliasVars
               PROVE  AliasInv'
    OBVIOUS
  <2>1. CASE UNCHANGED aliasVars
    BY <2>1 DEF aliasVars, AliasInv, AliasTypes, TableIsOrderFree, PoisonedAreClaimedTwice, claimants
  <2>2. ASSUME NEW w \in todo, claim(w)
        PROVE  AliasInv'
    <3>1. AliasTypes'
      BY <2>2 DEF AliasInv, AliasTypes, claim
    <3> QED
      BY <2>2, <3>1, ClaimKeepsTable, ClaimKeepsPoisoned DEF AliasInv
  <2> QED
    BY <2>1, <2>2 DEF AliasNext
<1>3. AliasSpec => AliasInv
  BY <1>1 DEF AliasSpec
<1>4. AliasSpec => [][AliasNext]_aliasVars
  BY DEF AliasSpec
<1> QED
  BY <1>2, <1>3, <1>4, PTL

\* Whatever order the words come in, the table holds after each of them exactly the
\* spellings that are no words and that one word alone of those gone through claims.
THEOREM TableIsOrderFreeAlways == AliasSpec => []TableIsOrderFree
<1>1. AliasInv => TableIsOrderFree
  BY DEF AliasInv
<1> QED
  BY <1>1, AliasInvariance, PTL

----------------------------------------------------------------------------
(***************************************************************************)
(* The loops of the readers.                                               *)
(***************************************************************************)

\* A set of naturals that is not empty has a least element.
LEMMA LeastNatural ==
    ASSUME NEW T, T \subseteq Nat, T # {}
    PROVE  \E m \in T : \A k \in T : m <= k
<1> DEFINE R == OpToRel(<, Nat)
<1>1. \E m \in T : \A k \in T : ~ (<<k, m>> \in R)
  <2>1. IsWellFoundedOn(R, Nat)
    BY NatLessThanWellFounded
  <2> HIDE DEF R
  <2> QED BY <2>1, WFMin
<1>2. ASSUME NEW m \in T, NEW k \in T, ~ (<<k, m>> \in R)
      PROVE  m <= k
  <2>1. <<k, m>> \in Nat \X Nat
    OBVIOUS
  <2>2. ~ (k < m)
    BY <1>2, <2>1 DEF R, OpToRel
  <2> QED BY <2>2
<1> QED BY <1>1, <1>2

\* One round of a reader's loop, by what it reads; `inner` is what a template's
\* parameters become, for the loop that meets templates.
round(kind, inner, acc, x) ==
    IF kind = "pages" THEN addPage(acc, x)
    ELSE IF kind = "cells" THEN addCell(acc, x)
    ELSE IF kind = "codes" THEN label(acc, x)
    ELSE IF kind = "lines" THEN define(acc, x)
    ELSE IF kind = "parts" THEN split(acc, x)
    ELSE IF kind = "params" THEN join(acc, x)
    ELSE IF kind = "links" THEN readLink(acc, x)
    ELSE scan(acc, x, inner)

\* F has what the loop has made of the elements with given indices.
IsLoop(F, kind, inner, base, seq) ==
    F = [I \in SUBSET DOMAIN seq |->
            IF I = {} THEN base ELSE round(kind, inner, F[I \ {Max(I)}], seq[Max(I)])]
Loop(kind, inner, base, seq) == CHOOSE F : IsLoop(F, kind, inner, base, seq)

\* What the folds are.
LEMMA FoldsAreLoops ==
    ASSUME NEW base, NEW seq, NEW inner
    PROVE  /\ FoldLeft(addPage, base, seq) = Loop("pages", 0, base, seq)[DOMAIN seq]
           /\ FoldLeft(addCell, base, seq) = Loop("cells", 0, base, seq)[DOMAIN seq]
           /\ FoldLeft(label, base, seq) = Loop("codes", 0, base, seq)[DOMAIN seq]
           /\ FoldLeft(define, base, seq) = Loop("lines", 0, base, seq)[DOMAIN seq]
           /\ FoldLeft(split, base, seq) = Loop("parts", 0, base, seq)[DOMAIN seq]
           /\ FoldLeft(join, base, seq) = Loop("params", 0, base, seq)[DOMAIN seq]
           /\ FoldLeft(readLink, base, seq) = Loop("links", 0, base, seq)[DOMAIN seq]
           /\ FoldLeft(LAMBDA acc, t : scan(acc, t, inner), base, seq) =
                 Loop("tokens", inner, base, seq)[DOMAIN seq]
<1>1. FoldLeft(addPage, base, seq) = Loop("pages", 0, base, seq)[DOMAIN seq]
  BY DEF FoldLeft, MapThenFoldSet, IsLoop, Loop, round
<1>2. FoldLeft(addCell, base, seq) = Loop("cells", 0, base, seq)[DOMAIN seq]
  BY DEF FoldLeft, MapThenFoldSet, IsLoop, Loop, round
<1>3. FoldLeft(label, base, seq) = Loop("codes", 0, base, seq)[DOMAIN seq]
  BY DEF FoldLeft, MapThenFoldSet, IsLoop, Loop, round
<1>4. FoldLeft(define, base, seq) = Loop("lines", 0, base, seq)[DOMAIN seq]
  BY DEF FoldLeft, MapThenFoldSet, IsLoop, Loop, round
<1>5. FoldLeft(split, base, seq) = Loop("parts", 0, base, seq)[DOMAIN seq]
  BY DEF FoldLeft, MapThenFoldSet, IsLoop, Loop, round
<1>6. FoldLeft(join, base, seq) = Loop("params", 0, base, seq)[DOMAIN seq]
  BY DEF FoldLeft, MapThenFoldSet, IsLoop, Loop, round
<1>7. FoldLeft(LAMBDA acc, t : scan(acc, t, inner), base, seq) =
                 Loop("tokens", inner, base, seq)[DOMAIN seq]
  BY DEF FoldLeft, MapThenFoldSet, IsLoop, Loop, round
<1>8. FoldLeft(readLink, base, seq) = Loop("links", 0, base, seq)[DOMAIN seq]
  BY DEF FoldLeft, MapThenFoldSet, IsLoop, Loop, round
<1> QED BY <1>1, <1>2, <1>3, <1>4, <1>5, <1>6, <1>7, <1>8

\* The last of the first n indices.
LEMMA LastOfFirst ==
    ASSUME NEW n \in Nat \ {0}
    PROVE  Max(1 .. n) = n /\ (1 .. n) \ {n} = 1 .. n - 1
<1>1. n \in 1 .. n /\ \A y \in 1 .. n : n >= y
  OBVIOUS
<1>2. \A x \in 1 .. n : (\A y \in 1 .. n : x >= y) => x = n
  BY <1>1
<1>3. Max(1 .. n) = n
  BY <1>1, <1>2 DEF Max
<1> QED BY <1>3

\* A set of the first n indices has a last one, and the others are among the first n - 1.
LEMMA LastIndex ==
    ASSUME NEW n \in Nat, NEW I \in SUBSET (1 .. n), I # {}
    PROVE  /\ Max(I) \in I
           /\ I \ {Max(I)} \in SUBSET (1 .. n - 1)
<1> DEFINE T == {n - i : i \in I}
<1>1. T \subseteq Nat /\ T # {}
  OBVIOUS
<1>2. PICK m \in T : \A k \in T : m <= k
  <2> HIDE DEF T
  <2> QED BY <1>1, LeastNatural
<1>3. PICK x \in I : m = n - x
  OBVIOUS
<1>4. \A y \in I : x >= y
  BY <1>2, <1>3
<1>5. Max(I) \in I /\ \A y \in I : Max(I) >= y
  BY <1>4 DEF Max
<1>6. ASSUME NEW y \in I, y # Max(I)
      PROVE  y \in 1 .. n - 1
  <2>1. y \in 1 .. n /\ Max(I) \in 1 .. n /\ Max(I) >= y
    BY <1>5
  <2> HIDE DEF T
  <2> QED BY <1>6, <2>1
<1> QED BY <1>5, <1>6

\* There is such a function: one for the first n gives one for the first n + 1.
LEMMA LoopExists ==
    ASSUME NEW kind, NEW inner, NEW base, NEW seq, NEW len \in Nat, DOMAIN seq = 1 .. len
    PROVE  \E F : IsLoop(F, kind, inner, base, seq)
<1> DEFINE Upto(F, n) ==
              F = [I \in SUBSET (1 .. n) |->
                      IF I = {} THEN base ELSE round(kind, inner, F[I \ {Max(I)}], seq[Max(I)])]
           Fails == {n \in Nat : ~ \E F : Upto(F, n)}
<1>1. Fails = {}
  <2> SUFFICES ASSUME Fails # {} PROVE FALSE
    OBVIOUS
  <2>1. PICK m \in Fails : \A k \in Fails : m <= k
    <3>1. Fails \subseteq Nat
      OBVIOUS
    <3> HIDE DEF Fails
    <3> QED BY <3>1, LeastNatural
  <2>2. m \in Nat /\ ~ \E F : Upto(F, m)
    OBVIOUS
  <2>3. m # 0
    <3>1. \A I \in SUBSET (1 .. 0) : I = {}
      OBVIOUS
    <3>2. Upto([I \in SUBSET (1 .. 0) |-> base], 0)
      BY <3>1
    <3> QED BY <2>2, <3>2
  <2>4. m - 1 \in Nat /\ m - 1 \notin Fails
    <3>1. m - 1 \in Nat /\ ~ (m <= m - 1)
      BY <2>2, <2>3
    <3> HIDE DEF Fails
    <3> QED BY <2>1, <3>1
  <2>5. PICK F : Upto(F, m - 1)
    BY <2>4
  <2> DEFINE G == [I \in SUBSET (1 .. m) |->
                      IF I = {} THEN base ELSE round(kind, inner, F[I \ {Max(I)}], seq[Max(I)])]
  <2>6. \A I \in SUBSET (1 .. m) : I # {} => I \ {Max(I)} \in SUBSET (1 .. m - 1)
    BY <2>2, LastIndex
  <2>7. \A I \in SUBSET (1 .. m - 1) : I \in SUBSET (1 .. m) /\ G[I] = F[I]
    <3> SUFFICES ASSUME NEW I \in SUBSET (1 .. m - 1)
                 PROVE  I \in SUBSET (1 .. m) /\ G[I] = F[I]
      OBVIOUS
    <3>1. I \in SUBSET (1 .. m)
      BY <2>2
    <3>2. F[I] = IF I = {} THEN base ELSE round(kind, inner, F[I \ {Max(I)}], seq[Max(I)])
      BY <2>5
    <3> QED BY <3>1, <3>2
  <2>8. Upto(G, m)
    <3>1. \A I \in SUBSET (1 .. m) : I # {} => G[I \ {Max(I)}] = F[I \ {Max(I)}]
      BY <2>6, <2>7
    <3> QED BY <3>1
  <2> QED BY <2>2, <2>8
<1>2. PICK F : Upto(F, len)
  BY <1>1
<1> QED BY <1>2 DEF IsLoop

\* A loop starts with its base, and goes on one element at a time.
LEMMA LoopGoesOn ==
    ASSUME NEW kind, NEW inner, NEW base, NEW seq, NEW len \in Nat, DOMAIN seq = 1 .. len
    PROVE  /\ Loop(kind, inner, base, seq)[1 .. 0] = base
           /\ \A m \in 1 .. len :
                 Loop(kind, inner, base, seq)[1 .. m] =
                     round(kind, inner, Loop(kind, inner, base, seq)[1 .. m - 1], seq[m])
<1> DEFINE F == Loop(kind, inner, base, seq)
<1>1. IsLoop(F, kind, inner, base, seq)
  BY LoopExists DEF Loop
<1> HIDE DEF F
<1>2. F[1 .. 0] = base
  <2>1. 1 .. 0 = {}
    OBVIOUS
  <2> QED BY <1>1, <2>1 DEF IsLoop
<1>3. ASSUME NEW m \in 1 .. len
      PROVE  F[1 .. m] = round(kind, inner, F[1 .. m - 1], seq[m])
  <2>1. 1 .. m \in SUBSET DOMAIN seq /\ 1 .. m # {}
    <3>1. \A x \in 1 .. m : x \in 1 .. len
      OBVIOUS
    <3>2. 1 \in 1 .. m
      OBVIOUS
    <3> QED BY <3>1, <3>2
  <2>2. Max(1 .. m) = m /\ (1 .. m) \ {m} = 1 .. m - 1
    BY LastOfFirst
  <2> QED BY <1>1, <2>1, <2>2 DEF IsLoop
<1> QED BY <1>2, <1>3 DEF F

----------------------------------------------------------------------------
(***************************************************************************)
(* Reading a dump, and reading back what was written.                      *)
(***************************************************************************)
Senses == {s \in Seq(Sense) : Len(s) <= maxSenses}

\* The cap leaves senses, and no more than it says.
LEMMA CappedIs ==
    ASSUME NEW s \in Seq(Sense)
    PROVE  capped(s) \in Senses
<1> DEFINE n == Len(s)
           m == Min({n, maxSenses})
<1>1. n \in Nat /\ maxSenses \in Nat \ {0}
  BY SensesAssumption
<1>2. m \in Nat /\ m <= n /\ m <= maxSenses
  <2>1. \E x \in {n, maxSenses} : \A y \in {n, maxSenses} : x <= y
    BY <1>1
  <2>2. m \in {n, maxSenses} /\ \A y \in {n, maxSenses} : m <= y
    BY <2>1 DEF Min
  <2> QED BY <1>1, <2>2
<1> HIDE DEF m
<1>3. SubSeq(s, 1, m) \in Seq(Sense) /\ Len(SubSeq(s, 1, m)) = m
  BY <1>1, <1>2
<1> QED BY <1>2, <1>3 DEF Senses, capped, m

\* A dump gives each of its words its senses, some or none.
LEMMA DumpSenses ==
    ASSUME NEW dump \in Seq(Page), NEW all,
           all = {page.word : page \in {p \in ToSet(dump) : accepted(p)}}
    PROVE  FoldLeft(addPage, [w \in all |-> <<>>], dump) \in [all -> Senses]
<1> DEFINE base == [w \in all |-> <<>>]
           F == Loop("pages", 0, base, dump)
           len == Len(dump)
           Fails == {i \in 0 .. len : F[1 .. i] \notin [all -> Senses]}
<1>1. len \in Nat /\ DOMAIN dump = 1 .. len /\ \A i \in 1 .. len : dump[i] \in Page
  OBVIOUS
<1>2. /\ F[1 .. 0] = base
      /\ \A m \in 1 .. len : F[1 .. m] = round("pages", 0, F[1 .. m - 1], dump[m])
  <2> HIDE DEF base
  <2> QED BY <1>1, LoopGoesOn
<1>3. base \in [all -> Senses]
  <2>1. <<>> \in Seq(Sense) /\ Len(<<>>) = 0 /\ 0 <= maxSenses
    BY SensesAssumption
  <2> QED BY <2>1 DEF Senses
<1> HIDE DEF F
<1>4. ASSUME NEW m \in 1 .. len, F[1 .. m - 1] \in [all -> Senses]
      PROVE  F[1 .. m] \in [all -> Senses]
  <2> DEFINE old == F[1 .. m - 1]
             page == dump[m]
  <2>1. F[1 .. m] = addPage(old, page)
    BY <1>2 DEF round
  <2>2. CASE ~ accepted(page)
    BY <1>4, <2>1, <2>2 DEF addPage
  <2>3. CASE accepted(page)
    <3>1. page.word \in all
      <4>1. page \in ToSet(dump)
        BY <1>1 DEF ToSet
      <4> QED BY <2>3, <4>1
    <3>2. sensesOf(page.lines) \in Seq(Sense) /\ old[page.word] \in Seq(Sense)
      BY <1>1, <1>4, <3>1, BuildAssumption DEF Page, Senses
    <3>3. old[page.word] \o sensesOf(page.lines) \in Seq(Sense)
      BY <3>2
    <3>4. capped(old[page.word] \o sensesOf(page.lines)) \in Senses
      BY <3>3, CappedIs
    <3> QED BY <1>4, <2>1, <2>3, <3>4 DEF addPage
  <2> QED BY <2>2, <2>3
<1>5. Fails = {}
  <2> SUFFICES ASSUME Fails # {} PROVE FALSE
    OBVIOUS
  <2>1. PICK m \in Fails : \A k \in Fails : m <= k
    <3>1. Fails \subseteq Nat
      BY <1>1
    <3> HIDE DEF Fails
    <3> QED BY <3>1, LeastNatural
  <2>2. m \in 0 .. len /\ F[1 .. m] \notin [all -> Senses]
    OBVIOUS
  <2>3. m # 0
    <3> HIDE DEF base
    <3> QED BY <1>2, <1>3, <2>2
  <2>4. m \in 1 .. len /\ m - 1 \in 0 .. len /\ ~ (m <= m - 1)
    BY <1>1, <2>2, <2>3
  <2>5. m - 1 \notin Fails
    <3> HIDE DEF Fails
    <3> QED BY <2>1, <2>4
  <2> QED BY <1>4, <2>2, <2>4, <2>5
<1>6. F[1 .. len] \in [all -> Senses]
  <2>1. len \in 0 .. len
    BY <1>1
  <2> QED BY <1>5, <2>1
<1>7. FoldLeft(addPage, base, dump) = Loop("pages", 0, base, dump)[DOMAIN dump]
  <2> HIDE DEF base
  <2> QED BY FoldsAreLoops
<1> QED BY <1>1, <1>6, <1>7 DEF F

\* A cell written of a sense is read as that sense.
LEMMA SenseReadBack ==
    ASSUME NEW s \in Sense
    PROVE  sense(s.pos \o <<bar>> \o s.gloss) = s
<1> DEFINE cell == s.pos \o <<bar>> \o s.gloss
           p == Len(s.pos)
           g == Len(s.gloss)
<1> DEFINE T == Token \cup {bar}
<1>1. /\ s \in [pos : Seq(Token), gloss : Seq(Token)]
      /\ s.pos \in Seq(T) /\ s.gloss \in Seq(T) /\ bar \in T
      /\ p \in Nat /\ g \in Nat
  <2>1. s \in [pos : Seq(Token), gloss : Seq(Token)]
    BY DEF Sense, Label
  <2>2. \A t \in Seq(Token) : t \in Seq(T)
    OBVIOUS
  <2>3. s.pos \in Seq(Token) /\ s.gloss \in Seq(Token)
    BY <2>1
  <2> QED BY <2>1, <2>2, <2>3
<1> HIDE DEF T
<1>2. cell \in Seq(T) /\ Len(cell) = p + 1 + g
  BY <1>1
<1>3. /\ \A i \in 1 .. p : cell[i] = s.pos[i]
      /\ cell[p + 1] = bar
      /\ \A i \in 1 .. g : cell[p + 1 + i] = s.gloss[i]
  BY <1>1
<1> HIDE DEF cell
<1>4. \A i \in 1 .. p : s.pos[i] # bar
  BY <1>1 DEF Sense, Label, ToSet
<1>5. p + 1 \in bars(cell) /\ \A i \in bars(cell) : p + 1 <= i
  <2>1. DOMAIN cell = 1 .. p + 1 + g
    BY <1>2
  <2>2. p + 1 \in bars(cell)
    BY <1>1, <1>3, <2>1 DEF bars
  <2>3. ASSUME NEW i \in bars(cell), ~ (p + 1 <= i)
        PROVE  FALSE
    <3>1. i \in 1 .. p + 1 + g /\ cell[i] = bar
      BY <2>1 DEF bars
    <3>2. i \in 1 .. p
      BY <1>1, <2>3, <3>1
    <3> QED BY <1>3, <1>4, <3>1, <3>2
  <2> QED BY <2>2, <2>3
<1>6. Min(bars(cell)) = p + 1
  <2>1. \A i \in bars(cell) : i \in Int
    BY <1>1, <1>2 DEF bars
  <2>2. \A x \in bars(cell) : (\A y \in bars(cell) : x <= y) => x = p + 1
    BY <1>1, <1>5, <2>1
  <2> QED BY <1>5, <2>2 DEF Min
<1>7. SubSeq(cell, 1, p) = s.pos
  <2>1. p \in 0 .. Len(cell)
    BY <1>1, <1>2
  <2>2. /\ SubSeq(cell, 1, p) \in Seq(T) /\ Len(SubSeq(cell, 1, p)) = p
        /\ \A i \in 1 .. p : SubSeq(cell, 1, p)[i] = cell[i]
    BY <1>1, <1>2
  <2> QED BY <1>1, <1>3, <2>1, <2>2
<1>8. SubSeq(cell, p + 2, Len(cell)) = s.gloss
  <2> DEFINE rest == SubSeq(cell, p + 2, p + 1 + g)
  <2>1. rest \in Seq(T) /\ Len(rest) = g /\ \A i \in 1 .. g : rest[i] = cell[p + 1 + i]
    BY <1>1, <1>2
  <2> HIDE DEF rest
  <2>2. \A i \in 1 .. g : rest[i] = s.gloss[i]
    BY <1>3, <2>1
  <2>3. rest = s.gloss
    BY <1>1, <2>1, <2>2
  <2> QED BY <1>2, <2>3 DEF rest
<1>9. sense(cell) = [pos |-> s.pos, gloss |-> s.gloss]
  <2> DEFINE cut == Min(bars(cell))
  <2>1. bars(cell) # {}
    BY <1>5
  <2>2. sense(cell) = [pos |-> SubSeq(cell, 1, cut - 1),
                       gloss |-> SubSeq(cell, cut + 1, Len(cell))]
    BY <2>1 DEF sense
  <2>3. cut - 1 = p /\ cut + 1 = p + 2
    BY <1>1, <1>6
  <2> HIDE DEF cut
  <2> QED BY <1>7, <1>8, <2>2, <2>3
<1> QED BY <1>1, <1>9 DEF cell

\* Cells each of which is read as one of the senses are read as the senses.
LEMMA CellsReadBack ==
    ASSUME NEW senses \in Senses, NEW cells,
           DOMAIN cells = DOMAIN senses,
           \A j \in DOMAIN senses : sense(cells[j]) = senses[j]
    PROVE  parseSenses(cells) = senses
<1> DEFINE none == <<>>
           F == Loop("cells", 0, none, cells)
           len == Len(senses)
           First(i) == [k \in 1 .. i |-> senses[k]]
           Fails == {i \in 0 .. len : F[1 .. i] # First(i)}
<1>1. /\ senses \in Seq(Sense) /\ len \in Nat /\ len <= maxSenses /\ maxSenses \in Nat
      /\ DOMAIN senses = 1 .. len /\ DOMAIN cells = 1 .. len
      /\ \A i \in 1 .. len : senses[i] \in Sense
  BY SensesAssumption DEF Senses
<1>2. \A i \in 1 .. len : sense(cells[i]) = senses[i] /\ senses[i].gloss # <<>>
  BY <1>1 DEF Sense
<1>3. /\ F[1 .. 0] = none
      /\ \A m \in 1 .. len : F[1 .. m] = round("cells", 0, F[1 .. m - 1], cells[m])
  <2> HIDE DEF none, len
  <2>1. len \in Nat /\ DOMAIN cells = 1 .. len
    BY <1>1
  <2>2. /\ Loop("cells", 0, none, cells)[1 .. 0] = none
        /\ \A m \in 1 .. len :
              Loop("cells", 0, none, cells)[1 .. m] =
                  round("cells", 0, Loop("cells", 0, none, cells)[1 .. m - 1], cells[m])
    BY <2>1, LoopGoesOn
  <2> QED BY <2>2
<1> HIDE DEF F
<1>4. ASSUME NEW m \in 1 .. len, F[1 .. m - 1] = First(m - 1)
      PROVE  F[1 .. m] = First(m)
  <2>1. m - 1 \in Nat /\ First(m - 1) \in Seq(Sense) /\ Len(First(m - 1)) = m - 1
    BY <1>1
  <2>2. ~ (m - 1 >= maxSenses)
    BY <1>1
  <2>3. F[1 .. m] = Append(First(m - 1), senses[m])
    BY <1>2, <1>3, <1>4, <2>1, <2>2 DEF round, addCell
  <2>4. Append(First(m - 1), senses[m]) = First(m)
    <3>1. DOMAIN Append(First(m - 1), senses[m]) = 1 .. m
      BY <2>1
    <3>2. \A k \in 1 .. m - 1 : Append(First(m - 1), senses[m])[k] = First(m)[k]
      BY <2>1
    <3>3. Append(First(m - 1), senses[m])[m] = First(m)[m]
      BY <2>1
    <3> QED BY <2>1, <3>1, <3>2, <3>3
  <2> QED BY <2>3, <2>4
<1>5. Fails = {}
  <2> SUFFICES ASSUME Fails # {} PROVE FALSE
    OBVIOUS
  <2>1. PICK m \in Fails : \A k \in Fails : m <= k
    <3>1. Fails \subseteq Nat
      BY <1>1
    <3> HIDE DEF Fails
    <3> QED BY <3>1, LeastNatural
  <2>2. m \in 0 .. len /\ F[1 .. m] # First(m)
    OBVIOUS
  <2>3. m # 0
    <3>1. 1 .. 0 = {}
      OBVIOUS
    <3>2. First(0) = <<>>
      BY <3>1
    <3> QED BY <1>3, <2>2, <3>2
  <2>4. m \in 1 .. len /\ m - 1 \in 0 .. len /\ ~ (m <= m - 1)
    BY <1>1, <2>2, <2>3
  <2>5. m - 1 \notin Fails
    <3> HIDE DEF Fails
    <3> QED BY <2>1, <2>4
  <2> QED BY <1>4, <2>2, <2>4, <2>5
<1>6. F[1 .. len] = First(len)
  <2>1. len \in 0 .. len
    BY <1>1
  <2> HIDE DEF First
  <2> QED BY <1>5, <2>1
<1>7. First(len) = senses
  BY <1>1
<1>8. FoldLeft(addCell, none, cells) = Loop("cells", 0, none, cells)[DOMAIN cells]
  <2> HIDE DEF none
  <2> QED BY FoldsAreLoops
<1> QED BY <1>1, <1>6, <1>7, <1>8 DEF F, parseSenses

----------------------------------------------------------------------------
(***************************************************************************)
(* The words a game may open with.                                         *)
(***************************************************************************)

\* The sequence made of a finite set holds each of its elements, once.
LEMMA SequenceOfSet ==
    ASSUME NEW S, IsFiniteSet(S)
    PROVE  /\ Cardinality(S) \in Nat
           /\ DOMAIN SetToSeq(S) = 1 .. Cardinality(S)
           /\ \A i \in 1 .. Cardinality(S) : SetToSeq(S)[i] \in S
           /\ \A x \in S : \E i \in 1 .. Cardinality(S) : SetToSeq(S)[i] = x
<1> DEFINE n == Cardinality(S)
<1>1. n \in Nat /\ ExistsBijection(1 .. n, S)
  BY FS_CardinalityType
<1>2. \E f \in [1 .. n -> S] : IsInjective(f)
  BY <1>1 DEF ExistsBijection, Bijection, Injection
<1>3. SetToSeq(S) \in [1 .. n -> S] /\ IsInjective(SetToSeq(S))
  BY <1>2 DEF SetToSeq
<1>4. SetToSeq(S) \in Injection(1 .. n, S)
  BY <1>3 DEF Injection
<1>5. IsFiniteSet(1 .. n) /\ Cardinality(1 .. n) = n
  BY <1>1, FS_Interval
<1>6. SetToSeq(S) \in Surjection(1 .. n, S)
  BY <1>4, <1>5, FS_Injection
<1> QED BY <1>1, <1>3, <1>6 DEF Surjection

\* The places of an earlier element and of a later one, when the first n are sorted by
\* degree, the sort being stable.
before(n, degree, i) ==
    {j \in 1 .. n : degree[j] > degree[i] \/ (degree[j] = degree[i] /\ j < i)}

\* Fewer elements come before an earlier one, all of those that come before it.
LEMMA EarlierHasFewer ==
    ASSUME NEW n \in Nat, NEW degree \in [1 .. n -> Nat],
           NEW i \in 1 .. n, NEW j \in before(n, degree, i)
    PROVE  Cardinality(before(n, degree, j)) < Cardinality(before(n, degree, i))
<1>1. IsFiniteSet(1 .. n)
  BY FS_Interval
<1>2. before(n, degree, i) \subseteq 1 .. n /\ before(n, degree, j) \subseteq 1 .. n
  BY DEF before
<1>3. IsFiniteSet(before(n, degree, i)) /\ IsFiniteSet(before(n, degree, j))
  BY <1>1, <1>2, FS_Subset
<1>4. j \notin before(n, degree, j)
  BY DEF before
<1>5. ASSUME NEW k \in before(n, degree, j)
      PROVE  k \in before(n, degree, i)
  <2>1. j \in 1 .. n /\ k \in 1 .. n
    BY DEF before
  <2>2. degree[i] \in Nat /\ degree[j] \in Nat /\ degree[k] \in Nat
    BY <2>1
  <2>3. /\ degree[j] > degree[i] \/ (degree[j] = degree[i] /\ j < i)
        /\ degree[k] > degree[j] \/ (degree[k] = degree[j] /\ k < j)
    BY <1>5 DEF before
  <2>4. degree[k] > degree[i] \/ (degree[k] = degree[i] /\ k < i)
    BY <2>1, <2>2, <2>3
  <2> QED BY <2>1, <2>4 DEF before
<1>6. before(n, degree, j) \in SUBSET before(n, degree, i) /\ before(n, degree, j) # before(n, degree, i)
  BY <1>4, <1>5
<1>7. /\ Cardinality(before(n, degree, j)) <= Cardinality(before(n, degree, i))
      /\ Cardinality(before(n, degree, j)) # Cardinality(before(n, degree, i))
  BY <1>3, <1>6, FS_Subset
<1>8. Cardinality(before(n, degree, i)) \in Nat /\ Cardinality(before(n, degree, j)) \in Nat
  BY <1>3, FS_CardinalityType
<1> QED BY <1>7, <1>8

\* So every place is taken.
LEMMA EveryPlaceIsTaken ==
    ASSUME NEW n \in Nat, NEW degree \in [1 .. n -> Nat]
    PROVE  /\ \A i \in 1 .. n : Cardinality(before(n, degree, i)) \in 0 .. n - 1
           /\ \A i, j \in 1 .. n :
                 Cardinality(before(n, degree, i)) = Cardinality(before(n, degree, j)) => i = j
           /\ \A k \in 1 .. n : \E i \in 1 .. n : Cardinality(before(n, degree, i)) = k - 1
<1> DEFINE rank(i) == Cardinality(before(n, degree, i))
<1>1. IsFiniteSet(1 .. n) /\ Cardinality(1 .. n) = n
  BY FS_Interval
<1>2. ASSUME NEW i \in 1 .. n
      PROVE  rank(i) \in 0 .. n - 1
  <2>1. before(n, degree, i) \subseteq 1 .. n /\ i \notin before(n, degree, i)
    BY DEF before
  <2>2. IsFiniteSet(before(n, degree, i)) /\ rank(i) <= n /\ rank(i) # n
    BY <1>1, <2>1, FS_Subset
  <2>3. rank(i) \in Nat
    BY <2>2, FS_CardinalityType
  <2> QED BY <2>2, <2>3
<1>3. ASSUME NEW i \in 1 .. n, NEW j \in 1 .. n, rank(i) = rank(j)
      PROVE  i = j
  <2>1. i = j \/ i \in before(n, degree, j) \/ j \in before(n, degree, i)
    <3>1. degree[i] \in Nat /\ degree[j] \in Nat /\ i \in Int /\ j \in Int
      OBVIOUS
    <3>2. \/ i = j
          \/ degree[i] > degree[j] \/ (degree[i] = degree[j] /\ i < j)
          \/ degree[j] > degree[i] \/ (degree[j] = degree[i] /\ j < i)
      BY <3>1
    <3> QED BY <3>2 DEF before
  <2>2. rank(i) \in Int /\ rank(j) \in Int
    BY <1>2
  <2>3. ~ (rank(i) < rank(j)) /\ ~ (rank(j) < rank(i))
    BY <1>3, <2>2
  <2> QED BY <2>1, <2>3, EarlierHasFewer
<1> DEFINE f == [i \in 1 .. n |-> rank(i) + 1]
<1>4. f \in Injection(1 .. n, 1 .. n)
  <2>1. \A i \in 1 .. n : rank(i) + 1 \in 1 .. n
    BY <1>2
  <2>2. \A i, j \in 1 .. n : rank(i) + 1 = rank(j) + 1 => i = j
    <3>1. \A i \in 1 .. n : rank(i) \in Int
      BY <1>2
    <3> HIDE DEF rank
    <3> QED BY <1>3, <3>1
  <2> HIDE DEF rank
  <2> QED BY <2>1, <2>2 DEF Injection, IsInjective
<1>5. f \in Surjection(1 .. n, 1 .. n)
  <2> HIDE DEF f
  <2> QED BY <1>1, <1>4, FS_Injection
<1>6. ASSUME NEW k \in 1 .. n
      PROVE  \E i \in 1 .. n : rank(i) = k - 1
  <2>1. PICK i \in 1 .. n : f[i] = k
    BY <1>5 DEF Surjection
  <2>2. rank(i) + 1 = k /\ rank(i) \in Int
    BY <1>2, <2>1
  <2> HIDE DEF rank
  <2> QED BY <2>2
<1> QED BY <1>2, <1>3, <1>6

Degree(db, w) == db.outDegree[lastOf(w)]
Eligible(db) == {w \in db.words : Degree(db, w) > 0}

\* The openers are the words that can be followed, each of them, and the further back
\* the fewer the continuations.
LEMMA OpenersAreSorted ==
    ASSUME NEW db, IsFiniteSet(db.words), \A w \in db.words : Degree(db, w) \in Nat
    PROVE  \E n \in Nat :
              /\ DOMAIN openers(db) = 1 .. n /\ Len(openers(db)) = n
              /\ \A i \in 1 .. n : openers(db)[i] \in Eligible(db)
              /\ \A w \in Eligible(db) : \E i \in 1 .. n : openers(db)[i] = w
              /\ \A i, j \in 1 .. n :
                    i < j => Degree(db, openers(db)[j]) <= Degree(db, openers(db)[i])
<1> DEFINE E == Eligible(db)
           loaded == SetToSeq(E)
           n == Cardinality(E)
           degree == [i \in 1 .. n |-> Degree(db, loaded[i])]
           at(k) == CHOOSE i \in 1 .. n : Cardinality(before(n, degree, i)) = k - 1
<1>1. IsFiniteSet(E) /\ E \subseteq db.words
  <2>1. E \in SUBSET db.words
    BY DEF Eligible
  <2> QED BY <2>1, FS_Subset
<1>2. /\ n \in Nat /\ DOMAIN loaded = 1 .. n
      /\ \A i \in 1 .. n : loaded[i] \in E
      /\ \A w \in E : \E i \in 1 .. n : loaded[i] = w
  BY <1>1, SequenceOfSet
<1>3. degree \in [1 .. n -> Nat]
  BY <1>1, <1>2
<1>4. openers(db) = [k \in 1 .. n |-> loaded[at(k)]]
  <2> DEFINE ahead(i) == {j \in DOMAIN loaded :
                 db.outDegree[lastOf(loaded[j])] > db.outDegree[lastOf(loaded[i])]
                 \/ (db.outDegree[lastOf(loaded[j])] = db.outDegree[lastOf(loaded[i])] /\ j < i)}
  <2>1. openers(db) = [k \in DOMAIN loaded |->
                          loaded[CHOOSE i \in DOMAIN loaded : Cardinality(ahead(i)) = k - 1]]
    BY DEF openers, Eligible, Degree
  <2>2. \A i \in 1 .. n : ahead(i) = before(n, degree, i)
    BY <1>2 DEF before, Degree
  <2> HIDE DEF ahead, degree, n, loaded
  <2>3. ASSUME NEW k
        PROVE  (CHOOSE i \in DOMAIN loaded : Cardinality(ahead(i)) = k - 1) = at(k)
    BY <1>2, <2>2
  <2> HIDE DEF at
  <2> QED BY <1>2, <2>1, <2>3
<1> HIDE DEF degree, n, loaded, E
<1>5. ASSUME NEW k \in 1 .. n
      PROVE  at(k) \in 1 .. n /\ Cardinality(before(n, degree, at(k))) = k - 1
  <2>1. \E i \in 1 .. n : Cardinality(before(n, degree, i)) = k - 1
    BY <1>2, <1>3, EveryPlaceIsTaken
  <2> QED BY <2>1
<1> HIDE DEF at
<1>6. \A k \in 1 .. n : openers(db)[k] \in E
  BY <1>2, <1>4, <1>5
<1>7. ASSUME NEW w \in E
      PROVE  \E k \in 1 .. n : openers(db)[k] = w
  <2>1. PICK i \in 1 .. n : loaded[i] = w
    BY <1>2
  <2> DEFINE r == Cardinality(before(n, degree, i))
  <2>2. r \in 0 .. n - 1
    BY <1>2, <1>3, EveryPlaceIsTaken
  <2>3. PICK q \in 1 .. n : q - 1 = r
    <3> HIDE DEF r
    <3>1. r + 1 \in 1 .. n /\ (r + 1) - 1 = r
      BY <1>2, <2>2
    <3> QED BY <3>1
  <2>4. Cardinality(before(n, degree, at(q))) = r /\ at(q) \in 1 .. n
    BY <1>5, <2>3
  <2>5. at(q) = i
    BY <1>2, <1>3, <2>4, EveryPlaceIsTaken
  <2> HIDE DEF r
  <2> QED BY <1>4, <2>1, <2>3, <2>5
<1>8. ASSUME NEW k \in 1 .. n, NEW l \in 1 .. n, k < l
      PROVE  Degree(db, openers(db)[l]) <= Degree(db, openers(db)[k])
  <2>1. at(k) \in 1 .. n /\ at(l) \in 1 .. n
    BY <1>5
  <2>2. degree[at(k)] = Degree(db, openers(db)[k]) /\ degree[at(l)] = Degree(db, openers(db)[l])
    BY <1>4, <2>1 DEF degree
  <2>3. degree[at(k)] \in Nat /\ degree[at(l)] \in Nat
    BY <1>3, <2>1
  <2>4. ASSUME degree[at(l)] > degree[at(k)]
        PROVE  FALSE
    <3>1. at(l) \in before(n, degree, at(k))
      BY <2>1, <2>4 DEF before
    <3>2. Cardinality(before(n, degree, at(l))) < Cardinality(before(n, degree, at(k)))
      BY <1>2, <1>3, <2>1, <3>1, EarlierHasFewer
    <3>3. l - 1 < k - 1
      BY <1>5, <3>2
    <3> QED BY <1>2, <1>8, <3>3
  <2> QED BY <2>2, <2>3, <2>4
<1>9. DOMAIN openers(db) = 1 .. n /\ Len(openers(db)) = n
  <2>1. openers(db) \in [1 .. n -> E]
    BY <1>4, <1>6
  <2>2. openers(db) \in Seq(E)
    BY <1>2, <2>1
  <2> QED BY <1>2, <2>1, <2>2
<1> QED BY <1>2, <1>6, <1>7, <1>8, <1>9 DEF E

\* A game that asks for words with m continuations draws from all of those, and from
\* no others.
LEMMA PickIs ==
    ASSUME NEW db, IsFiniteSet(db.words), \A w \in db.words : Degree(db, w) \in Nat,
           NEW m \in Nat \ {0}
    PROVE  pickOpeningWord(db, m) = {w \in db.words : Degree(db, w) >= m}
<1> DEFINE sorted == openers(db)
<1>1. PICK n \in Nat :
         /\ DOMAIN sorted = 1 .. n /\ Len(sorted) = n
         /\ \A i \in 1 .. n : sorted[i] \in Eligible(db)
         /\ \A w \in Eligible(db) : \E i \in 1 .. n : sorted[i] = w
         /\ \A i, j \in 1 .. n : i < j => Degree(db, sorted[j]) <= Degree(db, sorted[i])
  BY OpenersAreSorted
<1> DEFINE short == {i \in DOMAIN sorted : Degree(db, sorted[i]) < m}
           last == IF short = {} THEN Len(sorted) ELSE Min(short) - 1
<1>2. pickOpeningWord(db, m) = {sorted[i] : i \in 1 .. last}
  BY DEF pickOpeningWord, Degree
<1> HIDE DEF sorted
<1>3. \A i \in 1 .. n : Degree(db, sorted[i]) \in Nat /\ sorted[i] \in db.words
  BY <1>1 DEF Eligible
<1>4. \A i \in 1 .. n : i <= last <=> Degree(db, sorted[i]) >= m
  <2>1. CASE short = {}
    <3>1. last = n
      BY <1>1, <2>1
    <3>2. \A i \in 1 .. n : ~ (Degree(db, sorted[i]) < m)
      BY <1>1, <2>1
    <3> QED BY <1>3, <3>1, <3>2
  <2>2. CASE short # {}
    <3>1. short \subseteq 1 .. n /\ short \subseteq Nat
      BY <1>1
    <3>2. PICK x \in short : \A y \in short : x <= y
      <4> HIDE DEF short
      <4> QED BY <2>2, <3>1, LeastNatural
    <3>3. Min(short) \in short /\ \A y \in short : Min(short) <= y
      BY <3>2 DEF Min
    <3> DEFINE s == Min(short)
    <3>4. s \in 1 .. n /\ Degree(db, sorted[s]) < m /\ last = s - 1
      BY <2>2, <3>1, <3>3
    <3>5. \A i \in 1 .. n : Degree(db, sorted[i]) < m => s <= i
      BY <1>1, <3>3
    <3> HIDE DEF s, short, last
    <3>6. ASSUME NEW i \in 1 .. n
          PROVE  i <= last <=> Degree(db, sorted[i]) >= m
      <4>1. CASE i <= s - 1
        <5>1. ~ (s <= i)
          BY <3>4, <4>1
        <5> QED BY <1>3, <3>4, <3>5, <4>1, <5>1
      <4>2. CASE ~ (i <= s - 1)
        <5>1. i = s \/ s < i
          BY <3>4, <4>2
        <5>2. Degree(db, sorted[i]) <= Degree(db, sorted[s])
          BY <1>1, <1>3, <3>4, <5>1
        <5> QED BY <1>3, <3>4, <4>2, <5>2
      <4> QED BY <4>1, <4>2
    <3> QED BY <3>6
  <2> QED BY <2>1, <2>2
<1>5. 1 .. last = {i \in 1 .. n : i <= last}
  <2>1. last \in Int /\ last <= n
    <3>1. CASE short = {}
      BY <1>1, <3>1
    <3>2. CASE short # {}
      <4>1. short \subseteq 1 .. n /\ short \subseteq Nat
        BY <1>1
      <4>2. PICK x \in short : \A y \in short : x <= y
        <5> HIDE DEF short
        <5> QED BY <3>2, <4>1, LeastNatural
      <4>3. Min(short) \in short
        BY <4>2 DEF Min
      <4> QED BY <1>1, <3>2, <4>1, <4>3
    <3> QED BY <3>1, <3>2
  <2> HIDE DEF last
  <2> QED BY <1>1, <2>1
<1> HIDE DEF last
<1>6. ASSUME NEW w \in db.words, Degree(db, w) >= m
      PROVE  \E i \in 1 .. last : sorted[i] = w
  <2>1. w \in Eligible(db)
    BY <1>6 DEF Eligible
  <2> QED BY <1>1, <1>4, <1>5, <1>6, <2>1
<1>7. \A i \in 1 .. last : sorted[i] \in db.words /\ Degree(db, sorted[i]) >= m
  BY <1>3, <1>4, <1>5
<1> QED BY <1>2, <1>6, <1>7

----------------------------------------------------------------------------
(***************************************************************************)
(* What a reader makes of a dump or of a list, and of the corpus.          *)
(***************************************************************************)

\* A read that a build may go on with, but for the number of its words.
Readable(ws, ms) ==
    /\ ws \subseteq Spelling /\ IsFiniteSet(ws)
    /\ ms = [w \in DOMAIN ms |-> ms[w]] /\ DOMAIN ms \subseteq ws

\* Every word that has an entry among the meanings has senses, as the builder writes
\* them.
Explained(ms) == \A w \in DOMAIN ms : ms[w] \in Senses /\ ms[w] # <<>>

\* What stands on some of the lines of a sequence is finitely much.
LEMMA FewOnTheLines ==
    ASSUME NEW n \in Nat, NEW I \in SUBSET (1 .. n), NEW f, DOMAIN f = I
    PROVE  IsFiniteSet({f[i] : i \in I})
<1> DEFINE T == {f[i] : i \in I}
           g == [i \in I |-> f[i]]
<1>1. IsFiniteSet(I)
  <2>1. IsFiniteSet(1 .. n)
    BY FS_Interval
  <2> QED BY <2>1, FS_Subset
<1>2. g \in Surjection(I, T)
  BY DEF Surjection
<1> HIDE DEF T, g
<1>3. IsFiniteSet(T)
  BY <1>1, <1>2, FS_Surjection
<1> QED BY <1>3 DEF T

\* What is read from a dump.
LEMMA DumpIsReadable ==
    ASSUME NEW dump \in Seq(Page)
    PROVE  /\ Readable(readDump(dump).words, readDump(dump).meanings)
           /\ Explained(readDump(dump).meanings)
<1> DEFINE all == {page.word : page \in {p \in ToSet(dump) : accepted(p)}}
           f == FoldLeft(addPage, [w \in all |-> <<>>], dump)
           I == {i \in 1 .. Len(dump) : accepted(dump[i])}
           g == [i \in I |-> dump[i].word]
<1>1. readDump(dump).words = all /\ readDump(dump).meanings = withSenses(f)
  BY DEF readDump
<1>2. f \in [all -> Senses]
  BY DumpSenses
<1>3. Len(dump) \in Nat /\ DOMAIN dump = 1 .. Len(dump) /\ \A i \in 1 .. Len(dump) : dump[i] \in Page
  OBVIOUS
<1>4. all = {g[i] : i \in I}
  BY <1>3 DEF ToSet
<1>5. all \subseteq Spelling
  <2>1. \A i \in I : dump[i].word \in Spelling
    BY <1>3 DEF accepted, Page
  <2> QED BY <1>4, <2>1
<1>6. IsFiniteSet(all)
  <2>1. I \in SUBSET (1 .. Len(dump)) /\ DOMAIN g = I
    OBVIOUS
  <2> HIDE DEF I, g, all
  <2> QED BY <1>3, <1>4, <2>1, FewOnTheLines
<1> HIDE DEF f, all
<1>7. withSenses(f) = [w \in {x \in all : f[x] # <<>>} |-> f[w]]
  BY <1>2 DEF withSenses, Restrict
<1>8. Explained(withSenses(f))
  BY <1>2, <1>7 DEF Explained
<1> QED BY <1>1, <1>5, <1>6, <1>7, <1>8 DEF Readable

\* What is read from a list.
LEMMA ListIsReadable ==
    ASSUME NEW lines \in Seq(Line)
    PROVE  Readable(readWordList(lines).words, readWordList(lines).meanings)
<1> DEFINE given == {i \in DOMAIN lines : lines[i].word # <<>>}
           explained == {i \in given : parseSenses(lines[i].cells) # <<>>}
           lastOn(w) == Max({i \in explained : lines[i].word = w})
           g == [i \in given |-> lines[i].word]
           ws == {lines[i].word : i \in given}
           ms == [w \in {lines[i].word : i \in explained} |-> parseSenses(lines[lastOn(w)].cells)]
<1>1. readWordList(lines).words = ws /\ readWordList(lines).meanings = ms
  BY DEF readWordList
<1>2. /\ Len(lines) \in Nat /\ DOMAIN lines = 1 .. Len(lines)
      /\ \A i \in 1 .. Len(lines) : lines[i] \in Line
  OBVIOUS
<1>3. ws \subseteq Spelling
  BY <1>2 DEF Line
<1>4. IsFiniteSet(ws)
  <2>1. given \in SUBSET (1 .. Len(lines)) /\ DOMAIN g = given /\ ws = {g[i] : i \in given}
    BY <1>2
  <2> HIDE DEF given, g, ws
  <2> QED BY <1>2, <2>1, FewOnTheLines
<1>5. ms = [w \in DOMAIN ms |-> ms[w]] /\ DOMAIN ms \subseteq ws
  <2>1. DOMAIN ms = {lines[i].word : i \in explained}
    OBVIOUS
  <2>2. {lines[i].word : i \in explained} \subseteq ws
    OBVIOUS
  <2>3. ms = [w \in DOMAIN ms |-> ms[w]]
    <3> HIDE DEF explained, lastOn
    <3> QED OBVIOUS
  <2> HIDE DEF ms, ws, explained
  <2> QED BY <2>1, <2>2, <2>3
<1> HIDE DEF ms, ws
<1> QED BY <1>1, <1>3, <1>4, <1>5 DEF Readable

\* Cells written of senses, each with its label, are read as those senses.
LEMMA WrittenIsReadBack ==
    ASSUME NEW senses \in Senses
    PROVE  parseSenses([j \in DOMAIN senses |-> senses[j].pos \o <<bar>> \o senses[j].gloss]) = senses
<1> DEFINE cells == [j \in DOMAIN senses |-> senses[j].pos \o <<bar>> \o senses[j].gloss]
<1>1. DOMAIN cells = DOMAIN senses
  OBVIOUS
<1>2. ASSUME NEW j \in DOMAIN senses
      PROVE  sense(cells[j]) = senses[j]
  <2>1. senses[j] \in Sense
    BY DEF Senses
  <2>2. sense(senses[j].pos \o <<bar>> \o senses[j].gloss) = senses[j]
    BY <2>1, SenseReadBack
  <2> QED BY <2>2, Zenon
<1> HIDE DEF cells
<1>3. parseSenses(cells) = senses
  BY <1>1, <1>2, CellsReadBack
<1> QED BY <1>3 DEF cells

\* The corpus is read as what it was written of.
LEMMA CorpusReadsBack ==
    ASSUME Readable(words, meanings), Explained(meanings), <<>> \notin words
    PROVE  /\ readWordList(corpusLines).words = words
           /\ readWordList(corpusLines).meanings = meanings
<1> DEFINE lines == corpusLines
           sorted == SetToSeq(words)
           n == Cardinality(words)
<1>1. /\ n \in Nat /\ DOMAIN sorted = 1 .. n
      /\ \A i \in 1 .. n : sorted[i] \in words
      /\ \A w \in words : \E i \in 1 .. n : sorted[i] = w
  BY SequenceOfSet DEF Readable
<1>2. DOMAIN lines = 1 .. n /\ \A i \in 1 .. n : lines[i].word = sorted[i]
  BY <1>1, Zenon DEF corpusLines
<1>3. \A i \in 1 .. n : lines[i].cells =
         [j \in DOMAIN sensesFor(sorted[i]) |->
             sensesFor(sorted[i])[j].pos \o <<bar>> \o sensesFor(sorted[i])[j].gloss]
  BY <1>1, Zenon DEF corpusLines
<1>4. ASSUME NEW i \in 1 .. n
      PROVE  parseSenses(lines[i].cells) = sensesFor(sorted[i])
  <2>1. sensesFor(sorted[i]) \in Senses
    <3>1. <<>> \in Seq(Sense) /\ Len(<<>>) = 0 /\ 0 <= maxSenses
      BY SensesAssumption
    <3> QED BY <3>1 DEF sensesFor, Explained, Senses
  <2> QED BY <1>3, <2>1, WrittenIsReadBack
<1> HIDE DEF lines, sorted, n
<1> DEFINE given == {i \in DOMAIN lines : lines[i].word # <<>>}
           explained == {i \in given : parseSenses(lines[i].cells) # <<>>}
           lastOn(w) == Max({i \in explained : lines[i].word = w})
<1>5. /\ readWordList(lines).words = {lines[i].word : i \in given}
      /\ readWordList(lines).meanings =
             [w \in {lines[i].word : i \in explained} |-> parseSenses(lines[lastOn(w)].cells)]
  BY DEF readWordList
<1>6. given = 1 .. n
  BY <1>1, <1>2
<1>7. readWordList(lines).words = words
  BY <1>1, <1>2, <1>5, <1>6
<1>8. explained = {i \in 1 .. n : sorted[i] \in DOMAIN meanings}
  <2>1. \A i \in 1 .. n : parseSenses(lines[i].cells) # <<>> <=> sorted[i] \in DOMAIN meanings
    BY <1>4 DEF sensesFor, Explained
  <2> HIDE DEF given
  <2> QED BY <1>6, <2>1
<1>9. {lines[i].word : i \in explained} = DOMAIN meanings
  <2> HIDE DEF explained
  <2>1. \A w \in DOMAIN meanings : \E i \in explained : lines[i].word = w
    BY <1>1, <1>2, <1>8 DEF Readable
  <2>2. \A i \in explained : lines[i].word \in DOMAIN meanings
    BY <1>2, <1>8
  <2>3. \A x : x \in {lines[i].word : i \in explained} <=> x \in DOMAIN meanings
    BY <2>1, <2>2, Zenon
  <2> QED BY <2>3, Zenon
<1>10. ASSUME NEW w \in DOMAIN meanings
      PROVE  parseSenses(lines[lastOn(w)].cells) = meanings[w]
  <2> DEFINE on == {i \in explained : lines[i].word = w}
  <2>1. on \in SUBSET (1 .. n) /\ on # {}
    <3> HIDE DEF explained
    <3>1. \E i \in explained : lines[i].word = w
      BY <1>9
    <3> QED BY <1>8, <3>1
  <2>2. Max(on) \in on
    <3> HIDE DEF on
    <3> QED BY <1>1, <2>1, LastIndex
  <2>3. lastOn(w) \in 1 .. n /\ sorted[lastOn(w)] = w
    <3> HIDE DEF explained
    <3> QED BY <1>2, <1>8, <2>2
  <2> HIDE DEF lastOn
  <2> QED BY <1>4, <2>3 DEF sensesFor
<1>11. readWordList(lines).meanings = meanings
  <2> HIDE DEF explained, lastOn
  <2>1. readWordList(lines).meanings = [w \in DOMAIN meanings |-> meanings[w]]
    BY <1>5, <1>9, <1>10
  <2> QED BY <2>1 DEF Readable
<1> QED BY <1>7, <1>11 DEF lines

----------------------------------------------------------------------------
(***************************************************************************)
(* What a committed database promises.                                     *)
(***************************************************************************)

\* The table the loop ends with, for any words.
tableOf(ws) == {a \in Spelling \X ws : a[1] \notin ws /\ {w \in ws : a[1] \in variantsFor(w)} = {a[2]}}

\* A database whose transaction committed, of words there are and with the table for
\* them.
Complete(db) ==
    /\ Readable(db.words, db.meanings) /\ db.words # {}
    /\ db.aliases = tableOf(db.words)
    /\ db = database(db.words, db.meanings, db.aliases)

\* Such a one is a file.
LEMMA CompleteIsPresent ==
    ASSUME NEW ws, NEW ms, NEW as
    PROVE  present(database(ws, ms, as)) /\ present(uncommitted)
<1>1. "words" \in DOMAIN database(ws, ms, as) /\ "words" \in DOMAIN uncommitted
  <2>1. DOMAIN database(ws, ms, as) = {"words", "meanings", "aliases", "outDegree", "meta"}
    BY DEF database
  <2>2. DOMAIN uncommitted = {"words", "meanings", "aliases", "outDegree", "meta"}
    BY DEF uncommitted
  <2> QED BY <2>1, <2>2
<1>2. "words" \notin DOMAIN Absent
  BY DEF Absent
<1> QED BY <1>1, <1>2 DEF present

\* Every syllable at the end of a word has its number of continuations on record.
LEMMA DegreesAreCounts ==
    ASSUME NEW db, Complete(db)
    PROVE  \A w \in db.words :
              /\ Degree(db, w) = Cardinality(startingWith(db.words, lastOf(w)))
              /\ Degree(db, w) \in Nat
<1>1. db.outDegree = outDegrees(db.words)
  BY DEF Complete, database
<1>2. ASSUME NEW w \in db.words
      PROVE  Degree(db, w) = Cardinality(startingWith(db.words, lastOf(w)))
  BY <1>1 DEF Degree, outDegrees
<1>3. ASSUME NEW w \in db.words
      PROVE  Cardinality(startingWith(db.words, lastOf(w))) \in Nat
  <2>1. startingWith(db.words, lastOf(w)) \in SUBSET db.words
    BY DEF startingWith
  <2>2. IsFiniteSet(startingWith(db.words, lastOf(w)))
    BY <2>1, FS_Subset DEF Complete, Readable
  <2> QED BY <2>2, FS_CardinalityType
<1> QED BY <1>2, <1>3

\* The server opens it.
LEMMA CompleteOpens ==
    ASSUME NEW db, Complete(db)
    PROVE  Open(db)
<1> DEFINE ws == db.words
           ms == db.meanings
           as == db.aliases
<1>1. /\ db.meta = [word_count |-> Cardinality(ws), meaning_count |-> senseCount(ms)]
      /\ db.outDegree = outDegrees(ws)
  BY DEF Complete, database
<1>2. db.meta # NoMeta
  <2>1. Cardinality(ws) \in Nat
    BY FS_CardinalityType DEF Complete, Readable
  <2>2. db.meta.word_count # NoMeta.word_count
    BY <1>1, <2>1 DEF NoMeta
  <2> QED BY <2>2
<1>3. \A syllable \in DOMAIN db.outDegree :
         Cardinality(startingWith(ws, syllable)) = db.outDegree[syllable]
  BY <1>1 DEF outDegrees
<1>4. \A a \in as : a[2] \in ws
  BY DEF Complete, tableOf
<1>5. db.meta.word_count = Cardinality(ws) /\ db.meta.meaning_count = senseCount(ms)
  BY <1>1
<1> QED BY <1>2, <1>3, <1>4, <1>5 DEF Open, validate, Complete, Readable

\* An alias resolves to the one word behind it.
LEMMA CompleteResolves ==
    ASSUME NEW db, Complete(db), NEW a \in db.aliases
    PROVE  Resolve(db, a[1]) = {a[2]}
<1>1. db.aliases = tableOf(db.words)
  BY DEF Complete
<1>2. a[1] \notin db.words /\ {w \in db.words : a[1] \in variantsFor(w)} = {a[2]}
  BY <1>1 DEF tableOf
<1>3. \A b \in db.aliases : b[1] = a[1] => b[2] = a[2]
  BY <1>1, <1>2 DEF tableOf
<1>4. {b[2] : b \in {c \in db.aliases : c[1] = a[1]}} = {a[2]}
  BY <1>3
<1> QED BY <1>2, <1>4 DEF Resolve

\* So a game can start and go on with it.
LEMMA CompleteServes ==
    ASSUME NEW db, Complete(db)
    PROVE  /\ Open(db)
           /\ \A n \in 1..2 : pickOpeningWord(db, n) =
                 {w \in db.words : Cardinality(startingWith(db.words, lastOf(w))) >= n}
           /\ \A a \in db.aliases : Resolve(db, a[1]) = {a[2]}
<1>1. ASSUME NEW n \in 1..2
      PROVE  pickOpeningWord(db, n) =
                 {w \in db.words : Cardinality(startingWith(db.words, lastOf(w))) >= n}
  <2>1. n \in Nat \ {0}
    OBVIOUS
  <2>2. pickOpeningWord(db, n) = {w \in db.words : Degree(db, w) >= n}
    BY <2>1, PickIs, DegreesAreCounts DEF Complete, Readable
  <2>3. \A w \in db.words : Degree(db, w) >= n <=> Cardinality(startingWith(db.words, lastOf(w))) >= n
    BY DegreesAreCounts, Zenon
  <2> QED BY <2>2, <2>3
<1> QED BY <1>1, CompleteOpens, CompleteResolves

----------------------------------------------------------------------------
(***************************************************************************)
(* The files, through any number of builds, failures and kills.            *)
(*                                                                         *)
(* OutIsAlwaysServable and CorpusRebuildsTheSame speak of what a finished  *)
(* build leaves.  BuildInv adds what is under way: what each stage has     *)
(* made so far, and that a build from the corpus works on what the corpus  *)
(* was written of.                                                         *)
(***************************************************************************)

\* A corpus that was flushed: it says what it was exported from.
Committed(corpus) ==
    /\ corpus.header
    /\ Complete(corpus.of) /\ sound(corpus.of) /\ covered(corpus.of)
    /\ readWordList(corpus.lines).words = corpus.of.words
    /\ readWordList(corpus.lines).meanings = corpus.of.meanings

FilesAreWhole ==
    /\ DOMAIN disk = {"out", "tmp", "corpus", "corpusTmp"}
    /\ present(disk.out) => Complete(disk.out)
    /\ present(disk.corpus) => Committed(disk.corpus)

\* What the build under way has read.
WorkIsReadable ==
    stage # "idle" =>
        /\ Readable(words, meanings) /\ words # {}
        /\ mode = "dump" => Explained(meanings)
        /\ mode = "corpus" =>
              /\ present(disk.corpus)
              /\ words = disk.corpus.of.words /\ meanings = disk.corpus.of.meanings

Stages ==
    {"idle", "aliases", "create", "fill", "move", "verify", "export", "flush", "moveCorpus"}
Written == {"verify", "export", "flush", "moveCorpus"}
Exporting == {"export", "flush", "moveCorpus"}

StagesFollow ==
    /\ builds \in Nat /\ stage \in Stages
    /\ stage \notin {"idle", "aliases"} => todo = {}
    /\ stage = "move" => disk.tmp = database(words, meanings, aliases)
    /\ stage \in Written => disk.out = database(words, meanings, aliases)
    /\ stage \in Exporting => mode = "dump" /\ sound(disk.out) /\ covered(disk.out)
    /\ stage = "moveCorpus" => Committed(disk.corpusTmp)
    /\ outcome = "done" => stage = "idle" /\ present(disk.out) /\ sound(disk.out)

BuildInv == AliasInv /\ FilesAreWhole /\ WorkIsReadable /\ StagesFollow

\* What the loop over the words ends with makes a complete database.
LEMMA WorkIsComplete ==
    ASSUME BuildInv, stage \notin {"idle", "aliases"}
    PROVE  /\ aliases = tableOf(words)
           /\ Complete(database(words, meanings, aliases))
<1>1. todo = {} /\ Readable(words, meanings) /\ words # {}
  BY DEF BuildInv, StagesFollow, WorkIsReadable
<1>2. aliases = {a \in Spelling \X words : a[1] \notin words /\ claimants(a[1]) = {a[2]}}
  BY DEF BuildInv, AliasInv, TableIsOrderFree
<1>3. \A v : claimants(v) = {w \in words : v \in variantsFor(w)}
  BY <1>1 DEF claimants
<1>4. aliases = tableOf(words)
  BY <1>2, <1>3 DEF tableOf
<1> DEFINE db == database(words, meanings, aliases)
<1>5. db.words = words /\ db.meanings = meanings /\ db.aliases = aliases
  BY DEF database
<1> HIDE DEF db
<1>6. Complete(db)
  <2>1. db = database(db.words, db.meanings, db.aliases)
    BY <1>5 DEF db
  <2> QED BY <1>1, <1>4, <1>5, <2>1 DEF Complete
<1> QED BY <1>4, <1>6 DEF db

\* The first build finds no files.
LEMMA BuildStarts == Init => BuildInv
<1> SUFFICES ASSUME Init PROVE BuildInv
  OBVIOUS
<1>1. AliasInv
  BY DEF Init, AliasInit, AliasInv, AliasTypes, TableIsOrderFree, PoisonedAreClaimedTwice, claimants
<1>2. FilesAreWhole
  BY DEF Init, FilesAreWhole, present
<1>3. WorkIsReadable
  BY DEF Init, WorkIsReadable
<1>4. StagesFollow
  BY DEF Init, StagesFollow, Stages, Written, Exporting
<1> QED BY <1>1, <1>2, <1>3, <1>4 DEF BuildInv

\* A build that begins works on what it read, or ends there.
LEMMA BeginKeeps ==
    ASSUME BuildInv, stage = "idle",
           NEW kind, NEW dump, NEW read, NEW enough, begin(kind, dump, read, enough),
           Readable(read.words, read.meanings),
           kind = "dump" => Explained(read.meanings),
           kind = "corpus" =>
               /\ present(disk.corpus)
               /\ read.words = disk.corpus.of.words /\ read.meanings = disk.corpus.of.meanings
    PROVE  BuildInv'
<1>1. /\ words' = read.words /\ todo' = read.words /\ aliases' = {} /\ poisoned' = {}
      /\ meanings' = read.meanings /\ mode' = kind /\ disk' = disk /\ builds' = builds + 1
  BY DEF begin
<1>2. AliasInv'
  <2>1. read.words \subseteq Spelling
    BY DEF Readable
  <2> QED BY <1>1, <2>1 DEF AliasInv, AliasTypes, TableIsOrderFree, PoisonedAreClaimedTwice, claimants
<1>3. FilesAreWhole'
  BY <1>1 DEF BuildInv, FilesAreWhole
<1>4. \/ stage' = "aliases" /\ outcome' = "none" /\ Cardinality(read.words) >= minWords
      \/ stage' = "idle" /\ outcome' = "failed"
  BY DEF begin
<1>5. WorkIsReadable'
  <2>1. CASE stage' = "idle"
    BY <2>1 DEF WorkIsReadable
  <2>2. CASE Cardinality(read.words) >= minWords
    <3>1. read.words # {}
      <4>1. Cardinality({}) = 0 /\ ~ (0 >= minWords)
        BY BuildAssumption, FS_EmptySet
      <4> QED BY <2>2, <4>1
    <3> QED BY <1>1, <3>1 DEF WorkIsReadable
  <2> QED BY <1>4, <2>1, <2>2
<1>6. StagesFollow'
  BY <1>1, <1>4 DEF BuildInv, StagesFollow, Stages, Written, Exporting
<1> QED BY <1>2, <1>3, <1>5, <1>6 DEF BuildInv

\* However a build comes by its words.
LEMMA RunsKeep ==
    ASSUME BuildInv, runFromDump \/ runFromCorpus \/ runFromWordList
    PROVE  BuildInv'
<1>0. builds \in Nat
  BY DEF BuildInv, StagesFollow
<1>1. CASE runFromDump
  <2>1. PICK dump \in Dumps[builds + 1] : begin("dump", dump, readDump(dump), enoughPages(dump))
    BY <1>1 DEF runFromDump
  <2>2. dump \in Seq(Page)
    <3>1. builds + 1 \in 1 .. Len(Dumps)
      BY <1>0, <1>1, BuildAssumption DEF runFromDump
    <3>2. Dumps[builds + 1] \in SUBSET Seq(Page)
      BY <3>1, BuildAssumption
    <3> QED BY <2>1, <3>2
  <2>3. stage = "idle"
    BY <1>1 DEF runFromDump
  <2> QED BY <2>1, <2>2, <2>3, DumpIsReadable, BeginKeeps
<1>2. CASE runFromCorpus
  <2> DEFINE read == readWordList(disk.corpus.lines)
  <2>1. stage = "idle" /\ present(disk.corpus) /\ begin("corpus", <<>>, read, disk.corpus.header)
    BY <1>2 DEF runFromCorpus
  <2>2. /\ Complete(disk.corpus.of)
        /\ read.words = disk.corpus.of.words /\ read.meanings = disk.corpus.of.meanings
    BY <2>1 DEF BuildInv, FilesAreWhole, Committed
  <2>3. Readable(read.words, read.meanings)
    BY <2>2 DEF Complete
  <2> HIDE DEF read
  <2> QED BY <2>1, <2>2, <2>3, BeginKeeps
<1>3. CASE runFromWordList
  <2>1. PICK list \in Lists[builds + 1] : begin("words", <<>>, readWordList(list), TRUE)
    BY <1>3 DEF runFromWordList
  <2>2. list \in Seq(Line)
    <3>1. builds + 1 \in 1 .. Len(Lists)
      BY <1>0, <1>3, BuildAssumption DEF runFromWordList
    <3>2. Lists[builds + 1] \in SUBSET Seq(Line)
      BY <3>1, BuildAssumption
    <3> QED BY <2>1, <3>2
  <2>3. stage = "idle"
    BY <1>3 DEF runFromWordList
  <2> QED BY <2>1, <2>2, <2>3, ListIsReadable, BeginKeeps
<1> QED BY <1>1, <1>2, <1>3

\* The loop over the words goes on, or has come to the last of them.
LEMMA AliasesKeep ==
    ASSUME BuildInv, buildAliases
    PROVE  BuildInv'
<1>1. /\ stage = "aliases"
      /\ UNCHANGED <<mode, pages, meanings, disk, outcome, builds>>
  BY DEF buildAliases
<1>2. FilesAreWhole'
  BY <1>1 DEF BuildInv, FilesAreWhole
<1>3. CASE todo = {} /\ stage' = "create" /\ UNCHANGED aliasVars
  <2>1. AliasInv'
    BY <1>3 DEF BuildInv, aliasVars, AliasInv, AliasTypes, TableIsOrderFree,
                PoisonedAreClaimedTwice, claimants
  <2>2. WorkIsReadable' /\ StagesFollow'
    BY <1>1, <1>3 DEF BuildInv, aliasVars, WorkIsReadable, StagesFollow, Stages, Written, Exporting
  <2> QED BY <1>2, <2>1, <2>2 DEF BuildInv
<1>4. ASSUME NEW w \in todo, claim(w), UNCHANGED stage
      PROVE  BuildInv'
  <2>1. AliasInv
    BY DEF BuildInv
  <2>2. AliasTypes' /\ words' = words
    BY <1>4, <2>1 DEF AliasInv, AliasTypes, claim
  <2>3. AliasInv'
    BY <1>4, <2>1, <2>2, ClaimKeepsTable, ClaimKeepsPoisoned DEF AliasInv
  <2>4. WorkIsReadable' /\ StagesFollow'
    BY <1>1, <1>4, <2>2 DEF BuildInv, WorkIsReadable, StagesFollow, Stages, Written, Exporting
  <2> QED BY <1>2, <2>3, <2>4 DEF BuildInv
<1> QED BY <1>3, <1>4 DEF buildAliases

\* What no step from the aliases on touches.
LEMMA WorkStays ==
    ASSUME BuildInv, UNCHANGED <<aliasVars, mode, pages, meanings, builds>>,
           stage # "idle" \/ stage' = "idle",
           stage' = "idle" \/ disk'.corpus = disk.corpus
    PROVE  /\ AliasInv' /\ WorkIsReadable'
           /\ words' = words /\ aliases' = aliases /\ meanings' = meanings /\ mode' = mode
           /\ todo' = todo /\ builds' = builds
<1>1. AliasInv'
  BY DEF BuildInv, aliasVars, AliasInv, AliasTypes, TableIsOrderFree,
         PoisonedAreClaimedTwice, claimants
<1>2. WorkIsReadable'
  BY DEF BuildInv, aliasVars, WorkIsReadable
<1> QED BY <1>1, <1>2 DEF aliasVars

\* The transaction: the tables, their rows, the file in its place.
LEMMA WriteKeeps ==
    ASSUME BuildInv, create \/ fill \/ move
    PROVE  BuildInv'
<1>0. DOMAIN disk = {"out", "tmp", "corpus", "corpusTmp"}
  BY DEF BuildInv, FilesAreWhole
<1>1. CASE create
  <2>1. /\ stage = "create" /\ stage' = "fill" /\ disk' = [disk EXCEPT !.tmp = uncommitted]
        /\ UNCHANGED <<aliasVars, mode, pages, meanings, outcome, builds>>
    BY <1>1 DEF create, to
  <2>2. disk'.out = disk.out /\ disk'.corpus = disk.corpus
    BY <1>0, <2>1
  <2>3. AliasInv' /\ WorkIsReadable' /\ todo' = todo /\ builds' = builds
    BY <2>1, <2>2, WorkStays
  <2>4. FilesAreWhole'
    BY <1>0, <2>1, <2>2 DEF BuildInv, FilesAreWhole
  <2>5. StagesFollow'
    BY <2>1, <2>3 DEF BuildInv, StagesFollow, Stages, Written, Exporting
  <2> QED BY <2>3, <2>4, <2>5 DEF BuildInv
<1>2. CASE fill
  <2>1. /\ stage = "fill" /\ stage' = "move"
        /\ disk' = [disk EXCEPT !.tmp = database(words, meanings, aliases)]
        /\ UNCHANGED <<aliasVars, mode, pages, meanings, outcome, builds>>
    BY <1>2 DEF fill, to
  <2>2. /\ disk'.out = disk.out /\ disk'.corpus = disk.corpus
        /\ disk'.tmp = database(words, meanings, aliases)
    BY <1>0, <2>1
  <2>3. /\ AliasInv' /\ WorkIsReadable' /\ todo' = todo /\ builds' = builds
        /\ words' = words /\ aliases' = aliases /\ meanings' = meanings
    BY <2>1, <2>2, WorkStays
  <2>4. FilesAreWhole'
    BY <1>0, <2>1, <2>2 DEF BuildInv, FilesAreWhole
  <2>5. StagesFollow'
    BY <2>1, <2>2, <2>3 DEF BuildInv, StagesFollow, Stages, Written, Exporting
  <2> QED BY <2>3, <2>4, <2>5 DEF BuildInv
<1>3. CASE move
  <2>1. /\ stage = "move" /\ stage' = "verify"
        /\ disk' = [disk EXCEPT !.out = disk.tmp, !.tmp = Absent]
        /\ UNCHANGED <<aliasVars, mode, pages, meanings, outcome, builds>>
    BY <1>3 DEF move, to
  <2>2. disk'.out = database(words, meanings, aliases) /\ disk'.corpus = disk.corpus
    BY <1>0, <2>1 DEF BuildInv, StagesFollow
  <2>3. /\ AliasInv' /\ WorkIsReadable' /\ todo' = todo /\ builds' = builds
        /\ words' = words /\ aliases' = aliases /\ meanings' = meanings
    BY <2>1, <2>2, WorkStays
  <2>4. FilesAreWhole'
    <3>1. Complete(disk'.out)
      BY <2>1, <2>2, WorkIsComplete
    <3> QED BY <1>0, <2>1, <2>2, <3>1 DEF BuildInv, FilesAreWhole
  <2>5. StagesFollow'
    BY <2>1, <2>2, <2>3 DEF BuildInv, StagesFollow, Stages, Written, Exporting
  <2> QED BY <2>3, <2>4, <2>5 DEF BuildInv
<1> QED BY <1>1, <1>2, <1>3

\* A build that ends here, having touched neither what is under out nor the corpus.
LEMMA EndKeeps ==
    ASSUME BuildInv, NEW result \in {"done", "failed", "none"}, ends(result),
           DOMAIN disk' = DOMAIN disk, disk'.out = disk.out,
           disk'.corpus = disk.corpus \/ Committed(disk'.corpus),
           result = "done" => present(disk.out) /\ sound(disk.out)
    PROVE  BuildInv'
<1>1. /\ stage' = "idle" /\ outcome' = result
      /\ UNCHANGED <<aliasVars, mode, pages, meanings, builds>>
  BY DEF ends
<1>2. AliasInv' /\ WorkIsReadable' /\ builds' = builds
  BY <1>1, WorkStays
<1>3. FilesAreWhole'
  BY DEF BuildInv, FilesAreWhole
<1>4. StagesFollow'
  BY <1>1, <1>2 DEF BuildInv, StagesFollow, Stages, Written, Exporting
<1> QED BY <1>2, <1>3, <1>4 DEF BuildInv

\* What landed is looked at.
LEMMA VerifyKeeps ==
    ASSUME BuildInv, verify
    PROVE  BuildInv'
<1> DEFINE good == sound(disk.out) /\ (mode = "words" \/ covered(disk.out))
<1>1. stage = "verify" /\ present(disk.out)
  BY CompleteIsPresent DEF verify, BuildInv, StagesFollow, Written
<1>2. CASE ends("failed") /\ UNCHANGED disk
  BY <1>2, EndKeeps
<1>3. CASE good /\ ends("done") /\ UNCHANGED disk
  BY <1>1, <1>3, EndKeeps
<1>4. CASE good /\ mode = "dump" /\ to("export", disk)
  <2>1. /\ stage' = "export" /\ disk' = disk
        /\ UNCHANGED <<aliasVars, mode, pages, meanings, outcome, builds>>
    BY <1>4 DEF to
  <2>2. /\ AliasInv' /\ WorkIsReadable' /\ todo' = todo /\ builds' = builds /\ mode' = mode
        /\ words' = words /\ aliases' = aliases /\ meanings' = meanings
    BY <1>1, <2>1, WorkStays
  <2>3. sound(disk.out) /\ covered(disk.out) /\ mode = "dump"
    BY <1>4
  <2>4. FilesAreWhole'
    BY <2>1 DEF BuildInv, FilesAreWhole
  <2>5. StagesFollow'
    BY <1>1, <2>1, <2>2, <2>3 DEF BuildInv, StagesFollow, Stages, Written, Exporting
  <2> QED BY <2>2, <2>4, <2>5 DEF BuildInv
<1> QED BY <1>2, <1>3, <1>4 DEF verify

\* What is exported is what was verified.
LEMMA ExportKeeps ==
    ASSUME BuildInv, createCorpus \/ flushCorpus \/ moveCorpus
    PROVE  BuildInv'
<1>0. DOMAIN disk = {"out", "tmp", "corpus", "corpusTmp"}
  BY DEF BuildInv, FilesAreWhole
<1>1. CASE createCorpus
  <2> DEFINE file == [header |-> FALSE, lines |-> <<>>, of |-> disk.out]
  <2>1. /\ stage = "export" /\ stage' = "flush" /\ disk' = [disk EXCEPT !.corpusTmp = file]
        /\ UNCHANGED <<aliasVars, mode, pages, meanings, outcome, builds>>
    BY <1>1 DEF createCorpus, to
  <2> HIDE DEF file
  <2>2. disk'.out = disk.out /\ disk'.corpus = disk.corpus
    BY <1>0, <2>1
  <2>3. /\ AliasInv' /\ WorkIsReadable' /\ todo' = todo /\ builds' = builds /\ mode' = mode
        /\ words' = words /\ aliases' = aliases /\ meanings' = meanings
    BY <2>1, <2>2, WorkStays
  <2>4. FilesAreWhole'
    BY <1>0, <2>1, <2>2 DEF BuildInv, FilesAreWhole
  <2>5. StagesFollow'
    BY <2>1, <2>2, <2>3 DEF BuildInv, StagesFollow, Stages, Written, Exporting
  <2> QED BY <2>3, <2>4, <2>5 DEF BuildInv
<1>2. CASE flushCorpus
  <2> DEFINE file == [header |-> TRUE, lines |-> corpusLines, of |-> disk.out]
  <2>1. /\ stage = "flush" /\ stage' = "moveCorpus" /\ disk' = [disk EXCEPT !.corpusTmp = file]
        /\ UNCHANGED <<aliasVars, mode, pages, meanings, outcome, builds>>
    BY <1>2 DEF flushCorpus, to
  <2>2. disk'.out = disk.out /\ disk'.corpus = disk.corpus /\ disk'.corpusTmp = file
    <3> HIDE DEF file
    <3> QED BY <1>0, <2>1
  <2>3. /\ AliasInv' /\ WorkIsReadable' /\ todo' = todo /\ builds' = builds /\ mode' = mode
        /\ words' = words /\ aliases' = aliases /\ meanings' = meanings
    BY <2>1, <2>2, WorkStays
  <2>4. FilesAreWhole'
    <3> HIDE DEF file
    <3> QED BY <1>0, <2>1, <2>2 DEF BuildInv, FilesAreWhole
  <2>5. /\ mode = "dump" /\ sound(disk.out) /\ covered(disk.out)
        /\ disk.out = database(words, meanings, aliases)
    BY <2>1 DEF BuildInv, StagesFollow, Written, Exporting
  <2>6. Complete(disk.out) /\ disk.out.words = words /\ disk.out.meanings = meanings
    <3>1. Complete(disk.out)
      BY <2>1, <2>5, WorkIsComplete
    <3> QED BY <2>5, <3>1 DEF database
  <2>7. readWordList(corpusLines).words = words /\ readWordList(corpusLines).meanings = meanings
    <3>1. Readable(words, meanings) /\ Explained(meanings)
      BY <2>1, <2>5 DEF BuildInv, WorkIsReadable
    <3>2. <<>> \notin words
      <4>1. Len(<<>>) = 0 /\ ~ (0 >= 2)
        OBVIOUS
      <4>2. \A w \in words : Len(w) >= 2
        BY <2>5, <2>6 DEF sound
      <4> QED BY <4>1, <4>2
    <3> QED BY <3>1, <3>2, CorpusReadsBack
  <2>8. Committed(file)
    <3>1. file.header /\ file.lines = corpusLines /\ file.of = disk.out
      OBVIOUS
    <3> HIDE DEF file
    <3> QED BY <2>5, <2>6, <2>7, <3>1 DEF Committed
  <2> HIDE DEF file
  <2>9. StagesFollow'
    BY <2>1, <2>2, <2>3, <2>5, <2>8 DEF BuildInv, StagesFollow, Stages, Written, Exporting
  <2> QED BY <2>3, <2>4, <2>9 DEF BuildInv
<1>3. CASE moveCorpus
  <2>1. /\ stage = "moveCorpus" /\ ends("done")
        /\ disk' = [disk EXCEPT !.corpus = disk.corpusTmp, !.corpusTmp = Absent]
    BY <1>3 DEF moveCorpus
  <2>2. disk'.out = disk.out /\ disk'.corpus = disk.corpusTmp /\ DOMAIN disk' = DOMAIN disk
    BY <1>0, <2>1
  <2>3. Committed(disk.corpusTmp) /\ sound(disk.out) /\ present(disk.out)
    BY <2>1, CompleteIsPresent DEF BuildInv, StagesFollow, Written, Exporting
  <2> QED BY <2>1, <2>2, <2>3, EndKeeps
<1> QED BY <1>1, <1>2, <1>3

\* A write that fails and a process that is killed leave both files as they were.
LEMMA StopsKeep ==
    ASSUME BuildInv, ioError \/ killed
    PROVE  BuildInv'
<1>0. DOMAIN disk = {"out", "tmp", "corpus", "corpusTmp"}
  BY DEF BuildInv, FilesAreWhole
<1>1. CASE killed
  BY <1>1, EndKeeps DEF killed
<1>2. CASE ioError
  <2>1. /\ ends("failed")
        /\ DOMAIN disk' = DOMAIN disk /\ disk'.out = disk.out /\ disk'.corpus = disk.corpus
    BY <1>0, <1>2 DEF ioError
  <2> QED BY <2>1, EndKeeps
<1> QED BY <1>1, <1>2

\* BuildInv holds throughout, whatever fails and whenever the process is killed.
THEOREM BuildInvariance == Spec => []BuildInv
<1>1. BuildInv /\ [Next]_vars => BuildInv'
  <2> SUFFICES ASSUME BuildInv, [Next]_vars
               PROVE  BuildInv'
    OBVIOUS
  <2>1. CASE UNCHANGED vars
    BY <2>1 DEF vars, aliasVars, BuildInv, AliasInv, AliasTypes, TableIsOrderFree,
                PoisonedAreClaimedTwice, claimants, FilesAreWhole, WorkIsReadable, StagesFollow
  <2>2. CASE Next
    BY <2>2, RunsKeep, AliasesKeep, WriteKeeps, VerifyKeeps, ExportKeeps, StopsKeep DEF Next
  <2> QED BY <2>1, <2>2
<1> QED BY <1>1, BuildStarts, PTL DEF Spec

\* Whatever fails or is killed, and whatever lay about before, the server can open what
\* stands under out once anything does, draws its openings from all the words that can
\* be gone on with, and finds one word behind every alias; and a build that said it was
\* done left what clears every floor.
THEOREM OutIsAlwaysServableAlways == Spec => []OutIsAlwaysServable
<1>1. BuildInv => OutIsAlwaysServable
  <2> SUFFICES ASSUME BuildInv PROVE OutIsAlwaysServable
    OBVIOUS
  <2>1. present(disk.out) => Complete(disk.out)
    BY DEF BuildInv, FilesAreWhole
  <2>2. outcome = "done" => present(disk.out) /\ sound(disk.out)
    BY DEF BuildInv, StagesFollow
  <2> QED BY <2>1, <2>2, CompleteServes DEF OutIsAlwaysServable
<1> QED BY <1>1, BuildInvariance, PTL

\* A build from the corpus makes the database over again that the corpus was exported
\* from, which had passed every floor.
THEOREM CorpusRebuildsTheSameAlways == Spec => []CorpusRebuildsTheSame
<1>1. BuildInv => CorpusRebuildsTheSame
  <2> SUFFICES ASSUME BuildInv, present(disk.corpus) PROVE CorpusRebuildsTheSame
    BY DEF CorpusRebuildsTheSame
  <2> DEFINE db == disk.corpus.of
  <2>1. Committed(disk.corpus)
    BY DEF BuildInv, FilesAreWhole
  <2>2. ASSUME stage = "verify", mode = "corpus"
        PROVE  disk.out = db
    <3>1. words = db.words /\ meanings = db.meanings
      BY <2>2 DEF BuildInv, WorkIsReadable
    <3>2. disk.out = database(words, meanings, aliases)
      BY <2>2 DEF BuildInv, StagesFollow, Written
    <3>3. aliases = tableOf(words)
      BY <2>2, WorkIsComplete
    <3>4. db.aliases = tableOf(db.words) /\ db = database(db.words, db.meanings, db.aliases)
      BY <2>1 DEF Committed, Complete
    <3> HIDE DEF db
    <3> QED BY <3>1, <3>2, <3>3, <3>4
  <2> QED BY <2>1, <2>2 DEF CorpusRebuildsTheSame, Committed
<1> QED BY <1>1, BuildInvariance, PTL

\* In a whole build too the table of aliases does not depend on the order of the words.
THEOREM BuildTableIsOrderFree == Spec => []TableIsOrderFree
<1>1. BuildInv => TableIsOrderFree
  BY DEF BuildInv, AliasInv
<1> QED BY <1>1, BuildInvariance, PTL

----------------------------------------------------------------------------
(***************************************************************************)
(* The meanings of a page: the section its lines are in, then the reader's *)
(* walk through it, label and senses apart, against the page's own lines.  *)
(***************************************************************************)

\* What holds at 0 and goes on from each number to the next holds up to the last.
LEMMA StepByStep ==
    ASSUME NEW len \in Nat, NEW T, 0 \in T, \A m \in 1 .. len : m - 1 \in T => m \in T
    PROVE  \A m \in 0 .. len : m \in T
<1> DEFINE Fails == {m \in 0 .. len : m \notin T}
<1> SUFFICES ASSUME Fails # {} PROVE FALSE
  OBVIOUS
<1>1. PICK m \in Fails : \A k \in Fails : m <= k
  <2>1. Fails \subseteq Nat
    OBVIOUS
  <2> HIDE DEF Fails
  <2> QED BY <2>1, LeastNatural
<1>2. m \in 1 .. len /\ m - 1 \in 0 .. len /\ ~ (m <= m - 1)
  OBVIOUS
<1>3. m - 1 \notin Fails
  <2> HIDE DEF Fails
  <2> QED BY <1>1, <1>2
<1> QED BY <1>2, <1>3

\* The least and the last of some indices.
LEMMA FirstAndLast ==
    ASSUME NEW n \in Nat, NEW I \in SUBSET (0 .. n), I # {}
    PROVE  /\ Max(I) \in I /\ \A y \in I : y <= Max(I)
           /\ Min(I) \in I /\ \A y \in I : Min(I) <= y
<1>1. Max(I) \in I /\ \A y \in I : y <= Max(I)
  <2> DEFINE T == {n - i : i \in I}
  <2>1. T \subseteq Nat /\ T # {}
    <3>1. \A i \in I : n - i \in Nat
      OBVIOUS
    <3>2. \E i \in I : n - i \in T
      OBVIOUS
    <3> QED BY <3>1, <3>2
  <2>2. PICK m \in T : \A k \in T : m <= k
    <3> HIDE DEF T
    <3> QED BY <2>1, LeastNatural
  <2>3. PICK x \in I : m = n - x
    OBVIOUS
  <2>4. \A y \in I : x >= y
    <3> SUFFICES ASSUME NEW y \in I PROVE x >= y
      OBVIOUS
    <3>1. n - y \in T /\ x \in 0 .. n /\ y \in 0 .. n
      OBVIOUS
    <3>2. n - x <= n - y
      <4> HIDE DEF T
      <4> QED BY <2>2, <2>3, <3>1
    <3> HIDE DEF T
    <3> QED BY <3>1, <3>2
  <2>5. Max(I) \in I /\ \A y \in I : Max(I) >= y
    BY <2>4 DEF Max
  <2>6. \A x1, y \in 0 .. n : x1 >= y => y <= x1
    OBVIOUS
  <2> HIDE DEF T
  <2> QED BY <2>5, <2>6
<1>2. Min(I) \in I /\ \A y \in I : Min(I) <= y
  <2>1. I \subseteq Nat
    OBVIOUS
  <2>2. \E m \in I : \A k \in I : m <= k
    BY <2>1, LeastNatural
  <2> QED BY <2>2 DEF Min
<1> QED BY <1>1, <1>2

\* Which element is the last.
LEMMA LastIs ==
    ASSUME NEW I \in SUBSET Nat, NEW x \in I, \A y \in I : y <= x
    PROVE  Max(I) = x
<1>1. \A y \in I : x >= y
  OBVIOUS
<1>2. Max(I) \in I /\ \A y \in I : Max(I) >= y
  BY <1>1 DEF Max
<1>3. Max(I) \in Nat /\ Max(I) >= x /\ Max(I) <= x
  BY <1>2
<1> QED BY <1>3

\* Of the codes on a line the last that is not "dfn" decides; without one the label stays.
LEMMA LastCodeDecides ==
    ASSUME NEW list, NEW len \in Nat, DOMAIN list = 1 .. len, NEW pos, NEW told,
           told = {i \in 1 .. len : list[i] # "dfn"}
    PROVE  FoldLeft(label, pos, list) =
              IF told = {} THEN pos ELSE label(<<>>, list[Max(told)])
<1> DEFINE F == Loop("codes", 0, pos, list)
           upTo2(m) == {i \in told : i <= m}
           none == <<>>
           said(m) == IF upTo2(m) = {} THEN pos ELSE label(none, list[Max(upTo2(m))])
           T == {m \in 0 .. len : F[1 .. m] = said(m)}
<1>1. FoldLeft(label, pos, list) = F[1 .. len]
  BY FoldsAreLoops
<1>2. F[1 .. 0] = pos /\ \A m \in 1 .. len : F[1 .. m] = label(F[1 .. m - 1], list[m])
  BY LoopGoesOn DEF round
<1>3. \A old, code : code # "dfn" => label(old, code) = label(none, code)
  BY DEF label
<1>4. \A old : label(old, "dfn") = old
  BY DEF label
<1> HIDE DEF none, F
<1>5. 0 \in T
  <2>1. upTo2(0) = {}
    OBVIOUS
  <2> QED BY <1>2, <2>1
<1>6. ASSUME NEW m \in 1 .. len, m - 1 \in T
      PROVE  m \in T
  <2>1. F[1 .. m] = label(said(m - 1), list[m])
    BY <1>2, <1>6
  <2>2. CASE list[m] = "dfn"
    <3>1. upTo2(m) = upTo2(m - 1)
      BY <2>2
    <3>2. said(m) = said(m - 1)
      <4> HIDE DEF upTo2
      <4> QED BY <3>1
    <3> HIDE DEF said
    <3> QED BY <1>4, <2>1, <2>2, <3>2
  <2>3. CASE list[m] # "dfn"
    <3>1. m \in upTo2(m) /\ upTo2(m) \in SUBSET Nat /\ \A y \in upTo2(m) : y <= m
      BY <2>3
    <3>2. Max(upTo2(m)) = m
      <4> HIDE DEF upTo2
      <4> QED BY <3>1, LastIs
    <3>3. said(m) = label(none, list[m])
      <4> HIDE DEF upTo2
      <4> QED BY <3>1, <3>2
    <3> HIDE DEF said
    <3> QED BY <1>3, <2>1, <2>3, <3>3
  <2> QED BY <2>2, <2>3
<1>7. len \in T
  <2>1. len \in 0 .. len
    OBVIOUS
  <2> HIDE DEF T
  <2> QED BY <1>5, <1>6, <2>1, StepByStep
<1>8. upTo2(len) = told
  OBVIOUS
<1> QED BY <1>1, <1>7, <1>8 DEF none

\* Which element is the first.
LEMMA FirstIs ==
    ASSUME NEW I \in SUBSET Nat, NEW x \in I, \A y \in I : x <= y
    PROVE  Min(I) = x
<1>1. Min(I) \in I /\ \A y \in I : Min(I) <= y
  BY DEF Min
<1>2. Min(I) \in Nat /\ Min(I) <= x /\ x <= Min(I)
  BY <1>1
<1> QED BY <1>2

\* The first of some indices, or 0.
LEMMA IndexFound ==
    ASSUME NEW n \in Nat, NEW I \in SUBSET (1 .. n)
    PROVE  /\ firstOf(I) \in 0 .. n
           /\ firstOf(I) = 0 <=> I = {}
           /\ I # {} => firstOf(I) \in I /\ \A y \in I : firstOf(I) <= y
<1>1. I \in SUBSET (0 .. n)
  OBVIOUS
<1>2. I # {} => Min(I) \in I /\ \A y \in I : Min(I) <= y
  BY <1>1, FirstAndLast
<1>3. CASE I = {}
  <2>1. firstOf(I) = 0 /\ 0 \in 0 .. n
    BY <1>3 DEF firstOf
  <2> QED BY <1>3, <2>1
<1>4. CASE I # {}
  <2>1. firstOf(I) = Min(I)
    BY <1>4 DEF firstOf
  <2>2. Min(I) \in 0 .. n /\ Min(I) # 0
    <3>1. \A x \in I : x \in 0 .. n /\ x # 0
      OBVIOUS
    <3> QED BY <1>2, <1>4, <3>1
  <2> QED BY <1>2, <1>4, <2>1, <2>2
<1> QED BY <1>3, <1>4

\* The lines before the first of some.
linesBefore(seq, I) == IF firstOf(I) = 0 THEN seq ELSE SubSeq(seq, 1, firstOf(I) - 1)

\* They are all before it, and it is the next.
LEMMA UpToIs ==
    ASSUME NEW seq \in Seq(WikiLine), NEW I \in SUBSET (1 .. Len(seq))
    PROVE  \E m \in 0 .. Len(seq) :
              /\ DOMAIN linesBefore(seq, I) = 1 .. m
              /\ \A k \in 1 .. m : linesBefore(seq, I)[k] = seq[k] /\ k \notin I
              /\ m < Len(seq) => m + 1 \in I
<1> DEFINE n == Len(seq)
           i == firstOf(I)
           part == linesBefore(seq, I)
<1>0. part = IF i = 0 THEN seq ELSE SubSeq(seq, 1, i - 1)
  BY DEF linesBefore
<1> HIDE DEF part
<1>1. n \in Nat /\ DOMAIN seq = 1 .. n
  OBVIOUS
<1>2. /\ i \in 0 .. n
      /\ i = 0 <=> I = {}
      /\ I # {} => i \in I /\ \A y \in I : i <= y
  BY <1>1, IndexFound
<1>3. CASE i = 0
  <2>1. part = seq
    BY <1>0, <1>3
  <2>2. n \in 0 .. n /\ ~ (n < n)
    BY <1>1
  <2> QED BY <1>1, <1>2, <1>3, <2>1, <2>2 DEF part
<1>4. CASE i # 0
  <2> DEFINE m == i - 1
  <2>1. m \in 0 .. n /\ m + 1 = i
    BY <1>1, <1>2, <1>4
  <2>2. part = SubSeq(seq, 1, m)
    BY <1>0, <1>4
  <2>3. DOMAIN part = 1 .. m /\ \A k \in 1 .. m : part[k] = seq[k]
    <3> HIDE DEF m
    <3>1. SubSeq(seq, 1, m) \in Seq(WikiLine) /\ Len(SubSeq(seq, 1, m)) = m
      BY <1>1, <2>1
    <3>2. \A k \in 1 .. m : SubSeq(seq, 1, m)[k] = seq[k]
      BY <1>1, <2>1
    <3>3. DOMAIN SubSeq(seq, 1, m) = 1 .. m
      BY <1>1, <2>1
    <3> HIDE DEF i
    <3> QED BY <2>2, <3>2, <3>3, Zenon
  <2>4. \A k \in 1 .. m : k \notin I
    <3> SUFFICES ASSUME NEW k \in 1 .. m, k \in I PROVE FALSE
      OBVIOUS
    <3>1. i <= k /\ k <= m
      BY <1>2
    <3> HIDE DEF i
    <3> QED BY <1>2, <3>1
  <2>5. m + 1 \in I
    BY <1>2, <1>4, <2>1
  <2> HIDE DEF i, m
  <2> QED BY <2>1, <2>3, <2>4, <2>5 DEF part
<1> QED BY <1>3, <1>4

\* What a line that heads nothing does to the label, and what one that does.
LEMMA HeadingDecides ==
    ASSUME NEW line \in WikiLine, NEW pos
    PROVE  /\ ~ heads(line) => classifyHeading(line, pos) = pos
           /\ heads(line) => classifyHeading(line, pos) = classifyHeading(line, <<>>)
<1> DEFINE none == <<>>
<1>1. CASE line.kind = "codes"
  <2> DEFINE list == line.codes
             len == Len(list)
             told == {i \in 1 .. len : list[i] # "dfn"}
  <2>1. list \in Seq(Token)
    BY <1>1 DEF WikiLine
  <2>2. len \in Nat /\ DOMAIN list = 1 .. len
    BY <2>1
  <2>3. heads(line) <=> told # {}
    BY <1>1, <2>2 DEF heads
  <2>4. \A p : classifyHeading(line, p) = FoldLeft(label, p, list)
    BY <1>1 DEF classifyHeading
  <2>5. \A p : FoldLeft(label, p, list) = IF told = {} THEN p ELSE label(none, list[Max(told)])
    <3> HIDE DEF list
    <3> QED BY <2>2, LastCodeDecides
  <2> HIDE DEF told, list, none
  <2>6. classifyHeading(line, pos) = IF told = {} THEN pos ELSE label(none, list[Max(told)])
    BY <2>4, <2>5
  <2>7. classifyHeading(line, none) = IF told = {} THEN none ELSE label(none, list[Max(told)])
    BY <2>4, <2>5
  <2> QED BY <2>3, <2>6, <2>7 DEF none
<1>2. CASE line.kind = "heading"
  BY <1>2 DEF classifyHeading, heads, label
<1>3. CASE line.kind = "headword"
  BY <1>3 DEF classifyHeading, heads
<1>4. CASE line.kind = "item" \/ line.kind = "other"
  BY <1>4 DEF classifyHeading, heads
<1>5. line.kind \in {"codes", "heading", "headword", "item", "other"}
  BY DEF WikiLine
<1> QED BY <1>1, <1>2, <1>3, <1>4, <1>5

\* A line with the section's marker cut out is still a line of codes, and if it heads
\* anything it sets the label the whole line sets.
LEMMA MarkerCutOut ==
    ASSUME NEW line \in WikiLine, line.kind = "codes"
    PROVE  /\ afterMarker(line) \in WikiLine
           /\ afterMarker(line).kind = "codes"
           /\ heads(afterMarker(line)) =>
                 classifyHeading(afterMarker(line), <<>>) = classifyHeading(line, <<>>)
<1> DEFINE none == <<>>
           list == line.codes
           len == Len(list)
           at == {i \in DOMAIN list : list[i] = "vie"}
           c == firstOf(at)
           rest == SubSeq(list, c + 1, len)
           cut == afterMarker(line)
           left == len - c
           told == {i \in 1 .. len : list[i] # "dfn"}
           still == {i \in 1 .. left : rest[i] # "dfn"}
<1>1. list \in Seq(Token) /\ len \in Nat /\ DOMAIN list = 1 .. len
  BY DEF WikiLine
<1>2. c \in 0 .. len
  <2>1. at \in SUBSET (1 .. len)
    BY <1>1
  <2> HIDE DEF at
  <2> QED BY <1>1, <2>1, IndexFound
<1>3. cut = [line EXCEPT !.codes = rest]
  BY DEF afterMarker, firstIndex
<1> HIDE DEF c
<1>4. left \in 0 .. len /\ rest \in Seq(Token) /\ Len(rest) = left /\ \A k \in 1 .. left : rest[k] = list[c + k]
  <2> HIDE DEF list
  <2> QED BY <1>1, <1>2
<1> HIDE DEF rest
<1>5. cut \in WikiLine /\ cut.kind = "codes" /\ cut.codes = rest
  <2>1. line \in [kind : {"codes"}, codes : Seq(Token)]
    BY DEF WikiLine
  <2>2. cut \in [kind : {"codes"}, codes : Seq(Token)] /\ cut.codes = rest
    BY <1>3, <1>4, <2>1
  <2> QED BY <2>2 DEF WikiLine
<1> HIDE DEF cut
<1>6. ASSUME heads(cut)
      PROVE  classifyHeading(cut, none) = classifyHeading(line, none)
  <2>1. classifyHeading(cut, none) = FoldLeft(label, none, rest)
    BY <1>5 DEF classifyHeading
  <2>2. classifyHeading(line, none) = FoldLeft(label, none, list)
    BY DEF classifyHeading
  <2>3. FoldLeft(label, none, list) = IF told = {} THEN none ELSE label(none, list[Max(told)])
    <3> HIDE DEF list
    <3> QED BY <1>1, LastCodeDecides
  <2>4. FoldLeft(label, none, rest) = IF still = {} THEN none ELSE label(none, rest[Max(still)])
    <3>1. DOMAIN rest = 1 .. left /\ left \in Nat
      BY <1>1, <1>4
    <3> HIDE DEF left
    <3> QED BY <3>1, LastCodeDecides
  <2>5. still # {}
    BY <1>4, <1>5, <1>6 DEF heads
  <2>6. Max(still) \in still /\ \A y \in still : y <= Max(still)
    <3>1. left \in Nat /\ still \in SUBSET (0 .. left)
      BY <1>1, <1>4
    <3> HIDE DEF still, left
    <3> QED BY <2>5, <3>1, FirstAndLast
  <2> DEFINE x == Max(still)
  <2> HIDE DEF x
  <2>7. x \in 1 .. left /\ rest[x] # "dfn" /\ \A y \in 1 .. left : rest[y] # "dfn" => y <= x
    BY <2>6 DEF x
  <2>8. c + x \in told /\ \A y \in told : y <= c + x
    <3>1. c + x \in 1 .. len /\ list[c + x] = rest[x]
      BY <1>1, <1>2, <1>4, <2>7
    <3>2. ASSUME NEW y \in told
          PROVE  y <= c + x
      <4>1. y \in 1 .. len /\ list[y] # "dfn"
        OBVIOUS
      <4>2. CASE y <= c
        BY <1>1, <1>2, <2>7, <4>1, <4>2
      <4>3. CASE ~ (y <= c)
        <5>1. y - c \in 1 .. left /\ c + (y - c) = y
          BY <1>1, <1>2, <4>1, <4>3
        <5>2. rest[y - c] # "dfn"
          BY <1>4, <4>1, <5>1
        <5>3. y - c <= x
          BY <2>7, <5>1, <5>2
        <5> QED BY <1>1, <1>2, <2>7, <4>1, <5>3
      <4> QED BY <4>2, <4>3
    <3> QED BY <2>7, <3>1, <3>2
  <2>9. Max(told) = c + x
    <3>1. told \in SUBSET Nat
      BY <1>1
    <3> HIDE DEF told
    <3> QED BY <2>8, <3>1, LastIs
  <2>10. list[c + x] = rest[x]
    BY <1>4, <2>7
  <2>11. told # {}
    BY <2>8
  <2> HIDE DEF told, still, none, list
  <2> QED BY <2>1, <2>2, <2>3, <2>4, <2>5, <2>9, <2>10, <2>11 DEF x
<1> QED BY <1>5, <1>6 DEF cut, none

\* The line of a page that bears the old dialect's marker.
markerAt(lines) == firstIndex(lines, opensLegacy)

\* A page with its marker cut out is a page, the same but for the marker's line.
LEMMA MarkerCutIs ==
    ASSUME NEW lines \in Seq(WikiLine), NEW at,
           at = markerAt(lines)
    PROVE  /\ markerCut(lines) \in Seq(WikiLine)
           /\ Len(markerCut(lines)) = Len(lines)
           /\ \A i \in 1 .. Len(lines) : i # at => markerCut(lines)[i] = lines[i]
           /\ at # 0 => /\ at \in 1 .. Len(lines)
                        /\ opensLegacy(lines[at])
                        /\ \A i \in 1 .. Len(lines) : opensLegacy(lines[i]) => at <= i
                        /\ markerCut(lines)[at] = afterMarker(lines[at])
           /\ at = 0 => \A i \in 1 .. Len(lines) : ~ opensLegacy(lines[i])
<1> DEFINE n == Len(lines)
           found == {i \in DOMAIN lines : opensLegacy(lines[i])}
<1>1. n \in Nat /\ DOMAIN lines = 1 .. n /\ \A i \in 1 .. n : lines[i] \in WikiLine
  OBVIOUS
<1>2. at = firstOf(found)
  BY DEF firstIndex, markerAt
<1>3. /\ at \in 0 .. n
      /\ at = 0 <=> found = {}
      /\ found # {} => at \in found /\ \A y \in found : at <= y
  <2>1. found \in SUBSET (1 .. n)
    BY <1>1
  <2> HIDE DEF found
  <2> QED BY <1>1, <1>2, <2>1, IndexFound
<1>4. CASE at = 0
  <2>1. markerCut(lines) = lines
    BY <1>4 DEF markerCut, markerAt
  <2>2. \A i \in 1 .. n : ~ opensLegacy(lines[i])
    BY <1>1, <1>3, <1>4
  <2> QED BY <1>4, <2>1, <2>2
<1>5. CASE at # 0
  <2>1. at \in 1 .. n /\ opensLegacy(lines[at]) /\ \A i \in 1 .. n : opensLegacy(lines[i]) => at <= i
    <3>1. at \in found /\ \A y \in found : at <= y
      BY <1>3, <1>5
    <3> QED BY <1>1, <3>1
  <2>2. afterMarker(lines[at]) \in WikiLine
    BY <1>1, <2>1, MarkerCutOut DEF opensLegacy
  <2>3. markerCut(lines) = [lines EXCEPT ![at] = afterMarker(lines[at])]
    BY <1>5 DEF markerCut, markerAt
  <2>4. markerCut(lines) \in Seq(WikiLine) /\ Len(markerCut(lines)) = n
    BY <1>1, <2>1, <2>2, <2>3
  <2>5. markerCut(lines)[at] = afterMarker(lines[at])
    BY <1>1, <2>1, <2>3
  <2>6. \A i \in 1 .. n : i # at => markerCut(lines)[i] = lines[i]
    BY <1>1, <2>1, <2>3
  <2> QED BY <1>5, <2>1, <2>4, <2>5, <2>6
<1> QED BY <1>4, <1>5

\* Cutting the marker out changes no line's kind, and no line but one of codes.
LEMMA MarkerCutKeeps ==
    ASSUME NEW lines \in Seq(WikiLine), NEW i \in 1 .. Len(lines)
    PROVE  /\ markerCut(lines)[i].kind = lines[i].kind
           /\ lines[i].kind # "codes" => markerCut(lines)[i] = lines[i]
           /\ heads(markerCut(lines)[i]) =>
                 classifyHeading(markerCut(lines)[i], <<>>) = classifyHeading(lines[i], <<>>)
<1> DEFINE at == markerAt(lines)
<1>1. /\ i # at => markerCut(lines)[i] = lines[i]
      /\ i = at => /\ opensLegacy(lines[i])
                   /\ markerCut(lines)[i] = afterMarker(lines[i])
  <2>1. i # 0 /\ i \in 1 .. Len(lines)
    OBVIOUS
  <2>2. at = markerAt(lines)
    OBVIOUS
  <2> HIDE DEF at
  <2>3. /\ \A j \in 1 .. Len(lines) : j # at => markerCut(lines)[j] = lines[j]
        /\ at # 0 => opensLegacy(lines[at]) /\ markerCut(lines)[at] = afterMarker(lines[at])
    BY <2>2, MarkerCutIs
  <2> QED BY <2>1, <2>3
<1>2. lines[i] \in WikiLine
  OBVIOUS
<1>3. i = at => /\ lines[i].kind = "codes"
                /\ afterMarker(lines[i]).kind = "codes"
                /\ heads(afterMarker(lines[i])) =>
                      classifyHeading(afterMarker(lines[i]), <<>>) = classifyHeading(lines[i], <<>>)
  BY <1>1, <1>2, MarkerCutOut DEF opensLegacy
<1> QED BY <1>1, <1>3

\* Where the section opens.
opening(lines) == Min({i \in DOMAIN lines : opensLegacy(lines[i]) \/ opensNew(lines[i])})

\* The first line of the section proper, and its last: `part` is those lines of the page
\* without its marker, and `inside` those of them below the opening.
IsSection(lines, part, inside, from, till) ==
    /\ opening(lines) \in 1 .. Len(lines)
    /\ from \in {opening(lines), opening(lines) + 1}
    /\ till \in from - 1 .. Len(lines)
    /\ DOMAIN part = 1 .. till - from + 1
    /\ \A k \in 1 .. till - from + 1 : part[k] = markerCut(lines)[from + k - 1]
    /\ inside = opening(lines) + 1 .. till
    /\ from = opening(lines) => lines[opening(lines)].kind = "codes"
    /\ from # opening(lines) => /\ lines[opening(lines)].kind = "heading"
                                /\ ~ heads(markerCut(lines)[opening(lines)])

\* A section that the old dialect's marker opens.
LEMMA LegacySection ==
    ASSUME NEW lines \in Seq(WikiLine), dialectOf(lines) = "legacy"
    PROVE  \E from, till \in Nat : IsSection(lines, vietnameseSection(lines), sectionLines(lines), from, till)
<1> DEFINE n == Len(lines)
           start == markerAt(lines)
           newAt == firstIndex(lines, opensNew)
           cut == markerCut(lines)
           opened == {i \in DOMAIN lines : opensLegacy(lines[i]) \/ opensNew(lines[i])}
           whole == SubSeq(cut, start, n)
           leaving == {k \in DOMAIN whole : leavesLegacy(whole[k])}
<1>1. n \in Nat /\ DOMAIN lines = 1 .. n
  OBVIOUS
<1>2. start # 0 /\ (newAt = 0 \/ start < newAt)
  <2> HIDE DEF start, newAt
  <2>1. dialectOf(lines) = CASE start = 0 /\ newAt = 0 -> "none"
                             [] start # 0 /\ (newAt = 0 \/ start < newAt) -> "legacy"
                             [] OTHER -> "new"
    BY DEF dialectOf, markerAt, start, newAt
  <2> QED BY <2>1
<1>3. /\ start \in 1 .. n /\ opensLegacy(lines[start])
      /\ \A i \in 1 .. n : opensLegacy(lines[i]) => start <= i
      /\ cut \in Seq(WikiLine) /\ Len(cut) = n
      /\ cut[start] = afterMarker(lines[start])
      /\ \A i \in 1 .. n : i # start => cut[i] = lines[i]
  <2>1. start = markerAt(lines)
    OBVIOUS
  <2> HIDE DEF start
  <2>2. /\ cut \in Seq(WikiLine) /\ Len(cut) = n
        /\ \A i \in 1 .. n : i # start => cut[i] = lines[i]
    BY <2>1, MarkerCutIs
  <2>3. /\ start \in 1 .. n /\ opensLegacy(lines[start])
        /\ \A i \in 1 .. n : opensLegacy(lines[i]) => start <= i
        /\ cut[start] = afterMarker(lines[start])
    BY <1>2, <2>1, MarkerCutIs
  <2> QED BY <2>2, <2>3
<1>4. \A i \in 1 .. n : opensNew(lines[i]) => start <= i
  <2> DEFINE found == {i \in DOMAIN lines : opensNew(lines[i])}
  <2>1. found \in SUBSET (1 .. n) /\ newAt = firstOf(found)
    BY <1>1 DEF firstIndex
  <2> HIDE DEF newAt, found
  <2>2. newAt \in Int /\ (found # {} => newAt # 0 /\ \A y \in found : newAt <= y)
    BY <1>1, <2>1, IndexFound
  <2> HIDE DEF start
  <2> SUFFICES ASSUME NEW i \in 1 .. n, opensNew(lines[i]) PROVE start <= i
    OBVIOUS
  <2>3. i \in found
    BY <1>1 DEF found
  <2> QED BY <1>2, <1>3, <2>2, <2>3
<1>5. opening(lines) = start
  <2>1. opened \in SUBSET Nat /\ start \in opened /\ \A y \in opened : start <= y
    <3> HIDE DEF start
    <3> QED BY <1>1, <1>3, <1>4
  <2> HIDE DEF opened, start
  <2>2. Min(opened) = start
    BY <2>1, FirstIs
  <2> QED BY <2>2 DEF opening, opened
<1> HIDE DEF start
<1>6. /\ whole \in Seq(WikiLine) /\ Len(whole) = n - start + 1
      /\ \A k \in 1 .. n - start + 1 : whole[k] = cut[start + k - 1]
  <2> HIDE DEF cut
  <2> QED BY <1>1, <1>3
<1>7. <<afterMarker(lines[start])>> \o SubSeq(lines, start + 1, n) = whole
  <2> DEFINE first2 == afterMarker(lines[start])
             rest == SubSeq(lines, start + 1, n)
  <2>1. rest \in Seq(WikiLine) /\ Len(rest) = n - start /\ \A k \in 1 .. n - start : rest[k] = lines[start + k]
    BY <1>1, <1>3
  <2>2. first2 \in WikiLine
    <3>1. cut[start] \in WikiLine
      <4> HIDE DEF cut
      <4> QED BY <1>3
    <3> QED BY <1>3, <3>1
  <2> HIDE DEF first2, rest
  <2> DEFINE both == <<first2>> \o rest
  <2>3. both \in Seq(WikiLine) /\ Len(both) = n - start + 1 /\ both[1] = first2
        /\ \A k \in 2 .. n - start + 1 : both[k] = rest[k - 1]
    BY <1>1, <1>3, <2>1, <2>2
  <2>4. ASSUME NEW k \in 1 .. n - start + 1
        PROVE  both[k] = whole[k]
    <3>1. whole[k] = cut[start + k - 1]
      BY <1>6
    <3>2. CASE k = 1
      <4>1. start + k - 1 = start
        BY <1>3, <3>2
      <4> HIDE DEF both, whole, cut
      <4> QED BY <1>3, <2>3, <3>1, <3>2, <4>1 DEF first2
    <3>3. CASE k # 1
      <4>1. k - 1 \in 1 .. n - start /\ start + k - 1 \in 1 .. n /\ start + k - 1 # start
            /\ start + (k - 1) = start + k - 1 /\ k \in 2 .. n - start + 1
        BY <1>1, <1>3, <3>3
      <4>2. both[k] = lines[start + k - 1]
        <5> HIDE DEF both
        <5> QED BY <2>1, <2>3, <4>1
      <4>3. cut[start + k - 1] = lines[start + k - 1]
        BY <1>3, <4>1
      <4> HIDE DEF both, whole, cut
      <4> QED BY <3>1, <4>2, <4>3
    <3> QED BY <3>2, <3>3
  <2> HIDE DEF both, whole
  <2>5. both = whole
    BY <1>1, <1>3, <1>6, <2>3, <2>4
  <2> QED BY <2>5 DEF both, first2, rest
<1>8. vietnameseSection(lines) = linesBefore(whole, leaving)
  <2>1. vietnameseSection(lines) = legacySection(lines, start)
    BY DEF vietnameseSection, markerAt, start
  <2>2. legacySection(lines, start) = upTo(whole, leavesLegacy)
    BY <1>7 DEF legacySection
  <2> QED BY <2>1, <2>2 DEF upTo, firstIndex, linesBefore
<1>9. PICK m \in 0 .. n - start + 1 :
         /\ DOMAIN vietnameseSection(lines) = 1 .. m
         /\ \A k \in 1 .. m : vietnameseSection(lines)[k] = whole[k] /\ k \notin leaving
         /\ m < n - start + 1 => m + 1 \in leaving
  <2>1. leaving \in SUBSET (1 .. Len(whole))
    BY <1>6
  <2> HIDE DEF leaving, whole
  <2>2. whole \in Seq(WikiLine)
    BY <1>6
  <2>3. \E m \in 0 .. Len(whole) :
         /\ DOMAIN vietnameseSection(lines) = 1 .. m
         /\ \A k \in 1 .. m : vietnameseSection(lines)[k] = whole[k] /\ k \notin leaving
         /\ m < Len(whole) => m + 1 \in leaving
    BY <1>8, <2>1, <2>2, UpToIs
  <2> QED BY <1>6, <2>3
<1> DEFINE till == start + m - 1
<1>10. till \in start - 1 .. n /\ till - start + 1 = m /\ till \in Nat
  <2>1. m \in Nat /\ m <= n - start + 1 /\ start \in Nat /\ start >= 1
    BY <1>1, <1>3
  <2> QED BY <1>1, <2>1
<1>11. \A i \in start .. till : ~ leavesLegacy(cut[i])
  <2> SUFFICES ASSUME NEW i \in start .. till PROVE ~ leavesLegacy(cut[i])
    OBVIOUS
  <2>1. i - start + 1 \in 1 .. m /\ start + (i - start + 1) - 1 = i /\ i - start + 1 \in 1 .. n - start + 1
    BY <1>1, <1>3
  <2>2. whole[i - start + 1] = cut[i] /\ DOMAIN whole = 1 .. n - start + 1
    <3> HIDE DEF whole, cut
    <3> QED BY <1>6, <2>1
  <2> HIDE DEF whole, cut
  <2> QED BY <1>9, <2>1, <2>2
<1>12. till < n => leavesLegacy(cut[till + 1])
  <2> SUFFICES ASSUME till < n PROVE leavesLegacy(cut[till + 1])
    OBVIOUS
  <2>1. m < n - start + 1 /\ m + 1 \in 1 .. n - start + 1 /\ start + (m + 1) - 1 = till + 1
    BY <1>1, <1>3
  <2>2. whole[m + 1] = cut[till + 1]
    <3> HIDE DEF whole, cut, till
    <3> QED BY <1>6, <2>1
  <2>3. leavesLegacy(whole[m + 1])
    BY <1>9, <2>1
  <2> HIDE DEF whole, cut, till
  <2> QED BY <2>2, <2>3
<1> DEFINE foreign(j) ==
              \/ j > start /\ opensLevel2(lines[j])
              \/ j > start /\ opensLegacy(lines[start]) /\ lines[j].kind = "codes" /\ leavesLegacy(lines[j])
              \/ j = start /\ opensLegacy(lines[j]) /\ leavesLegacy(afterMarker(lines[j]))
<1>13. \A j \in start .. n : foreign(j) <=> leavesLegacy(cut[j])
  <2> SUFFICES ASSUME NEW j \in start .. n PROVE foreign(j) <=> leavesLegacy(cut[j])
    OBVIOUS
  <2>1. CASE j = start
    <3>1. ~ (j > start) /\ cut[j] = afterMarker(lines[j]) /\ opensLegacy(lines[j])
      BY <1>3, <2>1
    <3> HIDE DEF cut
    <3> QED BY <2>1, <3>1
  <2>2. CASE j # start
    <3>1. j > start /\ cut[j] = lines[j]
      BY <1>3, <2>2
    <3>2. leavesLegacy(lines[j]) <=>
             opensLevel2(lines[j]) \/ (lines[j].kind = "codes" /\ leavesLegacy(lines[j]))
      BY DEF leavesLegacy
    <3> HIDE DEF cut
    <3> QED BY <1>3, <2>2, <3>1, <3>2
  <2> QED BY <2>1, <2>2
<1>14. sectionLines(lines) = {i \in DOMAIN lines : i > start /\ \A j \in start .. i : ~ foreign(j)}
  BY <1>5 DEF sectionLines, opening
<1>15. sectionLines(lines) = start + 1 .. till
  <2> HIDE DEF foreign, till, cut
  <2>1. ASSUME NEW i \in 1 .. n, i > start, \A j \in start .. i : ~ foreign(j)
        PROVE  i \in start + 1 .. till
    <3> SUFFICES ASSUME till < i PROVE FALSE
      BY <1>10, <1>3, <1>1, <2>1
    <3>1. till < n /\ till + 1 \in start .. i /\ till + 1 \in start .. n
      BY <1>1, <1>3, <1>10, <2>1
    <3> QED BY <1>12, <1>13, <2>1, <3>1
  <2>2. ASSUME NEW i \in start + 1 .. till
        PROVE  i \in 1 .. n /\ i > start /\ \A j \in start .. i : ~ foreign(j)
    <3>1. i \in 1 .. n /\ i > start
      BY <1>1, <1>3, <1>10
    <3>2. \A j \in start .. i : j \in start .. till /\ j \in start .. n
      BY <1>1, <1>3, <1>10
    <3> QED BY <1>11, <1>13, <3>1, <3>2
  <2> QED BY <1>1, <1>14, <2>1, <2>2
<1>16. \A k \in 1 .. till - start + 1 : vietnameseSection(lines)[k] = cut[start + k - 1]
  <2> SUFFICES ASSUME NEW k \in 1 .. till - start + 1
               PROVE  vietnameseSection(lines)[k] = cut[start + k - 1]
    OBVIOUS
  <2>1. k \in 1 .. m /\ k \in 1 .. n - start + 1
    BY <1>1, <1>3, <1>10
  <2> HIDE DEF whole, cut, till
  <2> QED BY <1>6, <1>9, <2>1
<1>17. lines[start].kind = "codes"
  BY <1>3 DEF opensLegacy
<1>18. IsSection(lines, vietnameseSection(lines), sectionLines(lines), start, till)
  <2>1. start \in 1 .. Len(lines) /\ start \in {start, start + 1} /\ till \in start - 1 .. Len(lines)
    BY <1>3, <1>10
  <2> HIDE DEF till
  <2> QED BY <1>5, <1>9, <1>10, <1>15, <1>16, <1>17, <2>1 DEF IsSection
<1> QED BY <1>3, <1>10, <1>18

\* A section that the new dialect's heading opens.
LEMMA NewSection ==
    ASSUME NEW lines \in Seq(WikiLine), dialectOf(lines) = "new"
    PROVE  \E from, till \in Nat : IsSection(lines, vietnameseSection(lines), sectionLines(lines), from, till)
<1> DEFINE n == Len(lines)
           legacyAt == markerAt(lines)
           start == firstIndex(lines, opensNew)
           cut == markerCut(lines)
           opened == {i \in DOMAIN lines : opensLegacy(lines[i]) \/ opensNew(lines[i])}
           found == {i \in DOMAIN lines : opensNew(lines[i])}
           whole == SubSeq(cut, start + 1, n)
           leaving == {k \in DOMAIN whole : opensLevel2(whole[k])}
<1>1. n \in Nat /\ DOMAIN lines = 1 .. n
  OBVIOUS
<1>2. start # 0 /\ (legacyAt = 0 \/ ~ (legacyAt < start))
  <2> HIDE DEF start, legacyAt
  <2>1. dialectOf(lines) = CASE legacyAt = 0 /\ start = 0 -> "none"
                             [] legacyAt # 0 /\ (start = 0 \/ legacyAt < start) -> "legacy"
                             [] OTHER -> "new"
    BY DEF dialectOf, markerAt, start, legacyAt
  <2> QED BY <2>1
<1>3. /\ cut \in Seq(WikiLine) /\ Len(cut) = n
      /\ \A i \in 1 .. n : cut[i].kind = lines[i].kind
      /\ \A i \in 1 .. n : lines[i].kind # "codes" => cut[i] = lines[i]
  <2>1. cut \in Seq(WikiLine) /\ Len(cut) = n
    BY MarkerCutIs
  <2>2. \A i \in 1 .. n : cut[i].kind = lines[i].kind /\ (lines[i].kind # "codes" => cut[i] = lines[i])
    BY MarkerCutKeeps
  <2> HIDE DEF cut
  <2> QED BY <2>1, <2>2
<1>4. /\ start \in 1 .. n /\ opensNew(lines[start])
      /\ \A i \in 1 .. n : opensNew(lines[i]) => start <= i
  <2>1. found \in SUBSET (1 .. n) /\ start = firstOf(found)
    BY <1>1 DEF firstIndex
  <2> HIDE DEF start, found
  <2>2. start \in found /\ \A y \in found : start <= y
    BY <1>1, <1>2, <2>1, IndexFound
  <2> QED BY <1>1, <2>2 DEF found
<1>5. \A i \in 1 .. n : opensLegacy(lines[i]) => start <= i
  <2>1. /\ legacyAt # 0 => /\ legacyAt \in 1 .. n
                           /\ \A i \in 1 .. n : opensLegacy(lines[i]) => legacyAt <= i
        /\ legacyAt = 0 => \A i \in 1 .. n : ~ opensLegacy(lines[i])
    BY MarkerCutIs
  <2> HIDE DEF start, legacyAt
  <2> QED BY <1>1, <1>2, <1>4, <2>1
<1>6. opening(lines) = start
  <2>1. opened \in SUBSET Nat /\ start \in opened /\ \A y \in opened : start <= y
    <3> HIDE DEF start
    <3> QED BY <1>1, <1>4, <1>5
  <2> HIDE DEF opened, start
  <2>2. Min(opened) = start
    BY <2>1, FirstIs
  <2> QED BY <2>2 DEF opening, opened
<1> HIDE DEF start
<1>7. /\ whole \in Seq(WikiLine) /\ Len(whole) = n - start
      /\ \A k \in 1 .. n - start : whole[k] = cut[start + k]
  <2> HIDE DEF cut
  <2>1. n \in Nat /\ start \in 1 .. n /\ cut \in Seq(WikiLine) /\ Len(cut) = n
    BY <1>1, <1>3, <1>4
  <2> HIDE DEF n
  <2>2. \A i \in start + 1 .. n : cut[i] \in WikiLine
    <3>1. \A i \in start + 1 .. n : i \in 1 .. Len(cut)
      BY <2>1
    <3> QED BY <2>1, <3>1, ElementOfSeq
  <2>3. start + 1 \in Int /\ n \in Int
    BY <2>1
  <2>4. /\ whole \in Seq(WikiLine)
        /\ Len(whole) = IF start + 1 <= n THEN n - (start + 1) + 1 ELSE 0
        /\ \A k \in 1 .. n - (start + 1) + 1 : whole[k] = cut[(start + 1) + k - 1]
    BY <2>2, <2>3, SubSeqProperties
  <2>5. n - (start + 1) + 1 = n - start /\ \A k \in 1 .. n - start : (start + 1) + k - 1 = start + k
    BY <2>1
  <2>6. (IF start + 1 <= n THEN n - (start + 1) + 1 ELSE 0) = n - start
    BY <2>1
  <2> HIDE DEF whole
  <2>7. Len(whole) = n - start
    BY <2>4, <2>6
  <2>8. \A k \in 1 .. n - start : whole[k] = cut[start + k]
    BY <2>4, <2>5
  <2> QED BY <2>4, <2>7, <2>8
<1>8. vietnameseSection(lines) = linesBefore(whole, leaving)
  <2>1. vietnameseSection(lines) = newSection(cut, start)
    BY DEF vietnameseSection, markerAt, start
  <2>2. newSection(cut, start) = upTo(whole, opensLevel2)
    BY <1>3 DEF newSection
  <2> QED BY <2>1, <2>2 DEF upTo, firstIndex, linesBefore
<1>9. PICK m \in 0 .. n - start :
         /\ DOMAIN vietnameseSection(lines) = 1 .. m
         /\ \A k \in 1 .. m : vietnameseSection(lines)[k] = whole[k] /\ k \notin leaving
         /\ m < n - start => m + 1 \in leaving
  <2>1. leaving \in SUBSET (1 .. Len(whole))
    BY <1>7
  <2> HIDE DEF leaving, whole
  <2>2. whole \in Seq(WikiLine)
    BY <1>7
  <2>3. \E m \in 0 .. Len(whole) :
         /\ DOMAIN vietnameseSection(lines) = 1 .. m
         /\ \A k \in 1 .. m : vietnameseSection(lines)[k] = whole[k] /\ k \notin leaving
         /\ m < Len(whole) => m + 1 \in leaving
    BY <1>8, <2>1, <2>2, UpToIs
  <2> QED BY <1>7, <2>3
<1> DEFINE till == start + m
<1>10. till \in start .. n /\ till - start = m /\ till \in Nat
  <2>1. m \in Nat /\ m <= n - start /\ start \in Nat /\ start >= 1
    BY <1>1, <1>4
  <2> QED BY <1>1, <2>1
<1>11. ASSUME NEW k \in 1 .. n - start
       PROVE  opensLevel2(whole[k]) <=> opensLevel2(lines[start + k])
  <2>1. start + k \in 1 .. n /\ whole[k] = cut[start + k]
    <3> HIDE DEF whole, cut
    <3> QED BY <1>1, <1>4, <1>7
  <2>2. cut[start + k].kind = lines[start + k].kind
    BY <1>3, <2>1
  <2>3. lines[start + k].kind # "codes" => cut[start + k] = lines[start + k]
    BY <1>3, <2>1
  <2> HIDE DEF whole, cut
  <2> QED BY <2>1, <2>2, <2>3 DEF opensLevel2
<1>12. \A i \in start + 1 .. till : ~ opensLevel2(lines[i])
  <2> SUFFICES ASSUME NEW i \in start + 1 .. till PROVE ~ opensLevel2(lines[i])
    OBVIOUS
  <2>1. i - start \in 1 .. m /\ start + (i - start) = i /\ i - start \in 1 .. n - start
    BY <1>1, <1>4, <1>10
  <2>2. DOMAIN whole = 1 .. n - start
    <3> HIDE DEF whole
    <3> QED BY <1>7
  <2>3. opensLevel2(whole[i - start]) <=> opensLevel2(lines[start + (i - start)])
    BY <1>11, <2>1
  <2> HIDE DEF whole
  <2> QED BY <1>9, <2>1, <2>2, <2>3
<1>13. till < n => opensLevel2(lines[till + 1])
  <2> SUFFICES ASSUME till < n PROVE opensLevel2(lines[till + 1])
    OBVIOUS
  <2>1. m < n - start /\ m + 1 \in 1 .. n - start /\ start + (m + 1) = till + 1
    BY <1>1, <1>4
  <2>2. opensLevel2(whole[m + 1])
    BY <1>9, <2>1
  <2>3. opensLevel2(whole[m + 1]) <=> opensLevel2(lines[start + (m + 1)])
    BY <1>11, <2>1
  <2> HIDE DEF whole, till
  <2> QED BY <2>1, <2>2, <2>3
<1> DEFINE foreign(j) ==
              \/ j > start /\ opensLevel2(lines[j])
              \/ j > start /\ opensLegacy(lines[start]) /\ lines[j].kind = "codes" /\ leavesLegacy(lines[j])
              \/ j = start /\ opensLegacy(lines[j]) /\ leavesLegacy(afterMarker(lines[j]))
<1>14. ~ opensLegacy(lines[start])
  BY <1>4 DEF opensNew, opensLevel2, opensLegacy
<1>15. sectionLines(lines) = {i \in DOMAIN lines : i > start /\ \A j \in start .. i : ~ foreign(j)}
  BY <1>6 DEF sectionLines, opening
<1>16. \A j \in start .. n : foreign(j) <=> j > start /\ opensLevel2(lines[j])
  BY <1>14
<1>17. sectionLines(lines) = start + 1 .. till
  <2> HIDE DEF foreign, till, cut
  <2>1. ASSUME NEW i \in 1 .. n, i > start, \A j \in start .. i : ~ foreign(j)
        PROVE  i \in start + 1 .. till
    <3> SUFFICES ASSUME till < i PROVE FALSE
      BY <1>10, <1>4, <1>1, <2>1
    <3>1. till < n /\ till + 1 \in start .. i /\ till + 1 \in start .. n /\ till + 1 > start
      BY <1>1, <1>4, <1>10, <2>1
    <3> QED BY <1>13, <1>16, <2>1, <3>1
  <2>2. ASSUME NEW i \in start + 1 .. till
        PROVE  i \in 1 .. n /\ i > start /\ \A j \in start .. i : ~ foreign(j)
    <3>1. i \in 1 .. n /\ i > start
      BY <1>1, <1>4, <1>10
    <3>2. \A j \in start .. i : j \in start .. n /\ (j > start => j \in start + 1 .. till)
      BY <1>1, <1>4, <1>10
    <3> QED BY <1>12, <1>16, <3>1, <3>2
  <2> QED BY <1>1, <1>15, <2>1, <2>2
<1>18. ASSUME NEW k \in 1 .. till - (start + 1) + 1
       PROVE  vietnameseSection(lines)[k] = cut[start + 1 + k - 1]
  <2>1. k \in 1 .. m /\ k \in 1 .. n - start /\ start + 1 + k - 1 = start + k
    BY <1>1, <1>4, <1>10
  <2> HIDE DEF whole, cut, till
  <2> QED BY <1>7, <1>9, <2>1
<1>19. lines[start].kind = "heading" /\ ~ heads(cut[start])
  <2>1. lines[start].kind = "heading" /\ lines[start].level = 2
    BY <1>4 DEF opensNew, opensLevel2
  <2>2. cut[start] = lines[start]
    BY <1>3, <1>4, <2>1
  <2> HIDE DEF cut
  <2> QED BY <2>1, <2>2 DEF heads
<1>20. IsSection(lines, vietnameseSection(lines), sectionLines(lines), start + 1, till)
  <2>1. /\ start \in 1 .. Len(lines) /\ start + 1 \in {start, start + 1} /\ till \in start + 1 - 1 .. Len(lines)
        /\ till - (start + 1) + 1 = m /\ start + 1 # start
    BY <1>1, <1>4, <1>10
  <2> HIDE DEF till
  <2> QED BY <1>6, <1>9, <1>17, <1>18, <1>19, <2>1 DEF IsSection
<1> QED BY <1>4, <1>10, <1>20

\* The section is what stands between the opening and the first line that is foreign.
LEMMA SectionIs ==
    ASSUME NEW lines \in Seq(WikiLine), dialectOf(lines) # "none"
    PROVE  \E from, till \in Nat : IsSection(lines, vietnameseSection(lines), sectionLines(lines), from, till)
<1>1. dialectOf(lines) \in {"legacy", "new"}
  <2> DEFINE legacyAt == markerAt(lines)
             newAt == firstIndex(lines, opensNew)
  <2> HIDE DEF newAt, legacyAt
  <2>1. dialectOf(lines) = CASE legacyAt = 0 /\ newAt = 0 -> "none"
                             [] legacyAt # 0 /\ (newAt = 0 \/ legacyAt < newAt) -> "legacy"
                             [] OTHER -> "new"
    BY DEF dialectOf, markerAt, newAt, legacyAt
  <2> QED BY <2>1
<1> QED BY <1>1, LegacySection, NewSection

\* What holds at one number and goes on to the next holds up to the last.
LEMMA StepsBetween ==
    ASSUME NEW a \in Int, NEW b \in Int, a <= b, NEW T, a \in T,
           \A i \in a + 1 .. b : i - 1 \in T => i \in T
    PROVE  \A i \in a .. b : i \in T
<1> DEFINE len == b - a
           U == {m \in 0 .. len : a + m \in T}
<1>1. len \in Nat /\ 0 \in U
  OBVIOUS
<1>2. ASSUME NEW m \in 1 .. len, m - 1 \in U
      PROVE  m \in U
  <2>1. a + m \in a + 1 .. b /\ (a + m) - 1 = a + (m - 1) /\ m \in 0 .. len
    OBVIOUS
  <2>2. a + (m - 1) \in T
    BY <1>2
  <2> QED BY <2>1, <2>2
<1>3. \A m \in 0 .. len : m \in U
  <2> HIDE DEF U, len
  <2> QED BY <1>1, <1>2, StepByStep
<1> SUFFICES ASSUME NEW i \in a .. b PROVE i \in T
  OBVIOUS
<1>4. i - a \in 0 .. len /\ a + (i - a) = i
  OBVIOUS
<1>5. i - a \in U
  <2> HIDE DEF U
  <2> QED BY <1>3, <1>4
<1> QED BY <1>4, <1>5

\* How many of some indices come before a given one.
rank(I, i) == Cardinality({j \in I : j < i})

\* It counts up by one at each of them.
LEMMA RankGrows ==
    ASSUME NEW n \in Nat, NEW I \in SUBSET (0 .. n), NEW i \in Nat
    PROVE  /\ rank(I, i) \in Nat
           /\ rank(I, i + 1) = IF i \in I THEN rank(I, i) + 1 ELSE rank(I, i)
           /\ rank(I, 0) = 0
           /\ rank(I, n + 1) = Cardinality(I)
<1> DEFINE below(x) == {j \in I : j < x}
<1>0. \A y \in I : y \in 0 .. n /\ y \in Nat
  OBVIOUS
<1>1. IsFiniteSet(0 .. n)
  BY FS_Interval
<1>2. \A x : IsFiniteSet(below(x))
  <2>1. \A x : below(x) \subseteq 0 .. n
    OBVIOUS
  <2> QED BY <1>1, <2>1, FS_Subset
<1>3. rank(I, i) \in Nat
  BY <1>2, FS_CardinalityType DEF rank
<1>4. rank(I, i + 1) = IF i \in I THEN rank(I, i) + 1 ELSE rank(I, i)
  <2>1. CASE i \in I
    <3>1. below(i + 1) = below(i) \cup {i} /\ i \notin below(i)
      <4>1. \A y \in I : y < i + 1 <=> (y < i \/ y = i)
        BY <1>0
      <4>2. ~ (i < i)
        OBVIOUS
      <4> QED BY <2>1, <4>1, <4>2
    <3>2. Cardinality(below(i) \cup {i}) = Cardinality(below(i)) + 1
      BY <1>2, <3>1, FS_AddElement
    <3> QED BY <2>1, <3>1, <3>2 DEF rank
  <2>2. CASE i \notin I
    <3>1. below(i + 1) = below(i)
      <4>1. \A y \in I : y < i + 1 <=> y < i
        BY <1>0, <2>2
      <4> QED BY <4>1
    <3> QED BY <2>2, <3>1 DEF rank
  <2> QED BY <2>1, <2>2
<1>5. rank(I, 0) = 0
  <2>1. below(0) = {}
    <3>1. \A y \in I : ~ (y < 0)
      BY <1>0
    <3> QED BY <3>1
  <2> QED BY <2>1, FS_EmptySet DEF rank
<1>6. rank(I, n + 1) = Cardinality(I)
  <2>1. below(n + 1) = I
    <3>1. \A y \in I : y < n + 1
      BY <1>0
    <3> QED BY <3>1
  <2> QED BY <2>1 DEF rank
<1> QED BY <1>3, <1>4, <1>5, <1>6

\* So the k-th of them exists, with k - 1 before it.
LEMMA NthIs ==
    ASSUME NEW n \in Nat, NEW I \in SUBSET (0 .. n), NEW k \in 1 .. Cardinality(I)
    PROVE  nth(I, k) \in I /\ rank(I, nth(I, k)) = k - 1
<1> DEFINE T == {m \in 0 .. n + 1 : \A x \in 1 .. rank(I, m) : \E i \in I : rank(I, i) = x - 1}
<1>1. n + 1 \in Nat /\ \A m \in 0 .. n + 1 : rank(I, m) \in Nat
  BY RankGrows
<1>2. 0 \in T
  <2>1. rank(I, 0) = 0 /\ 0 \in 0 .. n + 1
    BY RankGrows
  <2> QED BY <2>1
<1>3. ASSUME NEW m \in 1 .. n + 1, m - 1 \in T
      PROVE  m \in T
  <2>1. m - 1 \in Nat /\ (m - 1) + 1 = m
    OBVIOUS
  <2>2. rank(I, m) = IF m - 1 \in I THEN rank(I, m - 1) + 1 ELSE rank(I, m - 1)
    BY <2>1, RankGrows
  <2>3. rank(I, m - 1) \in Nat /\ \A x \in 1 .. rank(I, m - 1) : \E i \in I : rank(I, i) = x - 1
    BY <1>1, <1>3
  <2>4. ASSUME NEW x \in 1 .. rank(I, m)
        PROVE  \E i \in I : rank(I, i) = x - 1
    <3>1. CASE x \in 1 .. rank(I, m - 1)
      BY <2>3, <3>1
    <3>2. CASE x \notin 1 .. rank(I, m - 1)
      <4>1. m - 1 \in I /\ rank(I, m - 1) = x - 1
        BY <2>2, <2>3, <3>2
      <4> QED BY <4>1
    <3> QED BY <3>1, <3>2
  <2> QED BY <2>4
<1>4. \A m \in 0 .. n + 1 : m \in T
  <2> HIDE DEF T
  <2> QED BY <1>1, <1>2, <1>3, StepByStep
<1>5. n + 1 \in T /\ rank(I, n + 1) = Cardinality(I)
  <2>1. n + 1 \in 0 .. n + 1
    OBVIOUS
  <2>2. rank(I, n + 1) = Cardinality(I)
    BY <1>1, RankGrows
  <2> HIDE DEF T
  <2> QED BY <1>4, <2>1, <2>2
<1>6. \E i \in I : rank(I, i) = k - 1
  BY <1>5
<1> QED BY <1>6 DEF nth, rank

\* What `definitions` loops over.
LEMMA LinesLoop ==
    ASSUME NEW part, NEW len \in Nat, DOMAIN part = 1 .. len
    PROVE  \E F : /\ F[1 .. 0].pos = <<>> /\ F[1 .. 0].senses = <<>>
                  /\ \A m \in 1 .. len : F[1 .. m] = define(F[1 .. m - 1], part[m])
                  /\ definitions(part) = F[1 .. len].senses
<1> DEFINE base == [pos |-> <<>>, senses |-> <<>>]
           F == Loop("lines", 0, base, part)
<1>1. base.pos = <<>> /\ base.senses = <<>>
  OBVIOUS
<1>2. definitions(part) = FoldLeft(define, base, part).senses
  BY DEF definitions
<1> HIDE DEF base
<1>3. FoldLeft(define, base, part) = F[1 .. len]
  BY FoldsAreLoops
<1>4. F[1 .. 0] = base /\ \A m \in 1 .. len : F[1 .. m] = define(F[1 .. m - 1], part[m])
  BY LoopGoesOn DEF round
<1> HIDE DEF F
<1> QED BY <1>1, <1>2, <1>3, <1>4

\* A walk over the lines of a section, as its definitions are read.
IsWalk(at, cut, from, till) ==
    /\ at[from - 1].pos = <<>> /\ at[from - 1].senses = <<>>
    /\ \A i \in from .. till : at[i] = define(at[i - 1], cut[i])

\* `definitions` is such a walk.
LEMMA DefinitionsWalk ==
    ASSUME NEW part, NEW cut, NEW from \in Nat, NEW till \in Int, till >= from - 1,
           DOMAIN part = 1 .. till - from + 1,
           \A k \in 1 .. till - from + 1 : part[k] = cut[from + k - 1]
    PROVE  \E at : IsWalk(at, cut, from, till) /\ definitions(part) = at[till].senses
<1> DEFINE len == till - from + 1
<1>1. len \in Nat /\ DOMAIN part = 1 .. len
  OBVIOUS
<1> HIDE DEF len
<1>2. PICK F : /\ F[1 .. 0].pos = <<>> /\ F[1 .. 0].senses = <<>>
               /\ \A m \in 1 .. len : F[1 .. m] = define(F[1 .. m - 1], part[m])
               /\ definitions(part) = F[1 .. len].senses
  BY <1>1, LinesLoop
<1> DEFINE at == [i \in from - 1 .. till |-> F[1 .. i - from + 1]]
<1>3. at[from - 1] = F[1 .. 0]
  <2>1. from - 1 \in from - 1 .. till /\ (from - 1) - from + 1 = 0
    OBVIOUS
  <2> QED BY <2>1
<1>4. ASSUME NEW i \in from .. till
      PROVE  at[i] = define(at[i - 1], cut[i])
  <2> DEFINE m == i - from + 1
  <2>1. /\ m \in 1 .. len /\ i \in from - 1 .. till /\ i - 1 \in from - 1 .. till
        /\ (i - 1) - from + 1 = m - 1 /\ from + m - 1 = i /\ m \in 1 .. till - from + 1
    BY DEF len
  <2>2. at[i] = F[1 .. m] /\ at[i - 1] = F[1 .. m - 1]
    BY <2>1
  <2>3. part[m] = cut[i]
    BY <2>1
  <2> HIDE DEF at, m
  <2> QED BY <1>2, <2>1, <2>2, <2>3
<1>5. at[till] = F[1 .. len]
  <2>1. till \in from - 1 .. till /\ till - from + 1 = len
    BY DEF len
  <2> QED BY <2>1
<1> HIDE DEF at
<1> QED BY <1>2, <1>3, <1>4, <1>5 DEF IsWalk

\* The headings above a line.
headings(cut, from, till, i) == {j \in from .. till : j < i /\ heads(cut[j])}

\* The label in force is that of the nearest of them.
LEMMA LabelIsNearest ==
    ASSUME NEW at, NEW cut, NEW from \in Nat, NEW till \in Int, till >= from - 1,
           IsWalk(at, cut, from, till), \A i \in from .. till : cut[i] \in WikiLine,
           NEW i \in from .. till
    PROVE  at[i - 1].pos = IF headings(cut, from, till, i) = {} THEN <<>>
                           ELSE classifyHeading(cut[Max(headings(cut, from, till, i))], <<>>)
<1> DEFINE none == <<>>
           above(x) == headings(cut, from, till, x + 1)
           said(x) == IF above(x) = {} THEN none ELSE classifyHeading(cut[Max(above(x))], none)
           T == {x \in from - 1 .. till : at[x].pos = said(x)}
<1>1. at[from - 1].pos = none
  BY DEF IsWalk
<1>2. \A x \in from .. till : at[x].pos = classifyHeading(cut[x], at[x - 1].pos)
  <2>1. \A acc, line : define(acc, line).pos = classifyHeading(line, acc.pos)
    BY DEF define
  <2> QED BY <2>1 DEF IsWalk
<1>3. \A x \in from .. till : \A pos :
         /\ ~ heads(cut[x]) => classifyHeading(cut[x], pos) = pos
         /\ heads(cut[x]) => classifyHeading(cut[x], pos) = classifyHeading(cut[x], none)
  BY HeadingDecides
<1> HIDE DEF none
<1>4. from - 1 \in T
  <2>1. above(from - 1) = {} /\ from - 1 \in from - 1 .. till
    BY DEF headings
  <2> QED BY <1>1, <2>1
<1>5. ASSUME NEW x \in from .. till, x - 1 \in T
      PROVE  x \in T
  <2>1. at[x].pos = classifyHeading(cut[x], said(x - 1)) /\ x \in from - 1 .. till
    BY <1>2, <1>5
  <2>2. CASE ~ heads(cut[x])
    <3>1. above(x) = above(x - 1)
      BY <2>2 DEF headings
    <3>2. said(x) = said(x - 1)
      <4> HIDE DEF above
      <4> QED BY <3>1
    <3> HIDE DEF said
    <3> QED BY <1>3, <2>1, <2>2, <3>2
  <2>3. CASE heads(cut[x])
    <3>1. x \in above(x) /\ above(x) \in SUBSET Nat /\ \A y \in above(x) : y <= x
      BY <2>3 DEF headings
    <3>2. Max(above(x)) = x
      <4> HIDE DEF above
      <4> QED BY <3>1, LastIs
    <3>3. said(x) = classifyHeading(cut[x], none)
      <4> HIDE DEF above
      <4> QED BY <3>1, <3>2
    <3> HIDE DEF said
    <3> QED BY <1>3, <2>1, <2>3, <3>3
  <2> QED BY <2>2, <2>3
<1>6. \A x \in from - 1 .. till : x \in T
  <2>1. from - 1 \in Int /\ from - 1 <= till /\ \A x : x \in (from - 1) + 1 .. till <=> x \in from .. till
    OBVIOUS
  <2> HIDE DEF T
  <2> QED BY <1>4, <1>5, <2>1, StepsBetween
<1>7. i - 1 \in T /\ (i - 1) + 1 = i
  <2>1. i - 1 \in from - 1 .. till /\ (i - 1) + 1 = i
    OBVIOUS
  <2> HIDE DEF T
  <2> QED BY <1>6, <2>1
<1> QED BY <1>7 DEF none

\* The lines that give a gloss.
glossed(cut, from, till) ==
    {i \in from .. till : cut[i].kind = "item" /\ stripWikitext(cut[i].text) # <<>>}

\* A definition line's sense is kept in its turn, with the label in force, up to the cap.
LEMMA SensesInTurn ==
    ASSUME NEW at, NEW cut, NEW from \in Nat, NEW till \in Int, till >= from - 1,
           IsWalk(at, cut, from, till)
    PROVE  /\ DOMAIN at[till].senses = 1 .. Len(at[till].senses)
           /\ Len(at[till].senses) = Min({maxSenses, Cardinality(glossed(cut, from, till))})
           /\ \A i \in glossed(cut, from, till) : rank(glossed(cut, from, till), i) < maxSenses =>
                 at[till].senses[rank(glossed(cut, from, till), i) + 1] =
                    [pos |-> at[i - 1].pos, gloss |-> stripWikitext(cut[i].text)]
<1> DEFINE none == <<>>
           I == glossed(cut, from, till)
           kept(i) == [pos |-> at[i - 1].pos, gloss |-> stripWikitext(cut[i].text)]
           S == {kept(i) : i \in I}
           least(x) == IF x < maxSenses THEN x ELSE maxSenses
           T == {x \in from - 1 .. till :
                   /\ at[x].senses \in Seq(S)
                   /\ Len(at[x].senses) = least(rank(I, x + 1))
                   /\ \A i \in I : i <= x /\ rank(I, i) < maxSenses =>
                         at[x].senses[rank(I, i) + 1] = kept(i)}
<1>1. maxSenses \in Nat \ {0}
  BY SensesAssumption
<1>2. at[from - 1].senses = none
  BY DEF IsWalk
<1>3. ASSUME NEW x \in from .. till
      PROVE  at[x].senses = IF x \in I /\ ~ (Len(at[x - 1].senses) >= maxSenses)
                            THEN Append(at[x - 1].senses, kept(x))
                            ELSE at[x - 1].senses
  <2>1. at[x].senses = IF cut[x].kind = "item"
                       THEN addSense(at[x - 1].senses, at[x - 1].pos, stripWikitext(cut[x].text))
                       ELSE at[x - 1].senses
    <3>1. \A acc, line : define(acc, line).senses =
             IF line.kind = "item" THEN addSense(acc.senses, acc.pos, stripWikitext(line.text))
             ELSE acc.senses
      BY DEF define
    <3>2. at[x] = define(at[x - 1], cut[x])
      BY DEF IsWalk
    <3> QED BY <3>1, <3>2
  <2>2. x \in I <=> cut[x].kind = "item" /\ stripWikitext(cut[x].text) # none
    BY DEF glossed
  <2> HIDE DEF none, I
  <2> QED BY <2>1, <2>2 DEF addSense, none
<1>4. \A i \in I : i \in from .. till /\ i \in Nat
  BY DEF glossed
<1> HIDE DEF I
<1>5. \A i \in Nat : /\ rank(I, i) \in Nat
                     /\ rank(I, i + 1) = IF i \in I THEN rank(I, i) + 1 ELSE rank(I, i)
  <2> DEFINE n == IF till \in Nat THEN till ELSE 0
  <2>1. n \in Nat
    OBVIOUS
  <2>2. I \in SUBSET (0 .. n)
    BY <1>4
  <2> HIDE DEF n, kept, least
  <2> HIDE DEF S, T
  <2>3. ASSUME NEW i \in Nat
        PROVE  /\ rank(I, i) \in Nat
               /\ rank(I, i + 1) = IF i \in I THEN rank(I, i) + 1 ELSE rank(I, i)
               /\ rank(I, 0) = 0
               /\ rank(I, n + 1) = Cardinality(I)
    BY <2>1, <2>2, RankGrows
  <2> QED BY <2>3
<1>6. rank(I, from) = 0 /\ rank(I, till + 1) = Cardinality(I)
  <2>1. {j \in I : j < from} = {}
    BY <1>4
  <2>2. {j \in I : j < till + 1} = I
    <3>1. \A j \in I : j < till + 1
      BY <1>4
    <3> QED BY <3>1
  <2> QED BY <2>1, <2>2, FS_EmptySet DEF rank
<1> HIDE DEF S
<1>7. from - 1 \in T
  <2>1. (from - 1) + 1 = from /\ from - 1 \in from - 1 .. till /\ least(0) = 0
    BY <1>1
  <2>2. none \in Seq(S) /\ Len(none) = 0
    OBVIOUS
  <2>3. \A i \in I : ~ (i <= from - 1)
    BY <1>4
  <2> HIDE DEF none, least, kept
  <2> QED BY <1>2, <1>6, <2>1, <2>2, <2>3
<1>8. ASSUME NEW x \in from .. till, x - 1 \in T
      PROVE  x \in T
  <2> DEFINE old == at[x - 1].senses
             new == at[x].senses
             r == rank(I, x)
  <2>1. x \in Nat /\ x \in from - 1 .. till /\ (x - 1) + 1 = x /\ r \in Nat
    BY <1>5
  <2>2. /\ old \in Seq(S) /\ Len(old) = least(r)
        /\ \A i \in I : i <= x - 1 /\ rank(I, i) < maxSenses => old[rank(I, i) + 1] = kept(i)
    BY <1>8, <2>1
  <2>3. rank(I, x + 1) = IF x \in I THEN r + 1 ELSE r
    BY <1>5, <2>1
  <2>4. new = IF x \in I /\ ~ (Len(old) >= maxSenses) THEN Append(old, kept(x)) ELSE old
    BY <1>3
  <2>5. \A i \in I : i <= x - 1 => rank(I, i) < r
    <3> SUFFICES ASSUME NEW i \in I, i <= x - 1 PROVE rank(I, i) < r
      OBVIOUS
    <3> DEFINE U == {y \in i + 1 .. x : rank(I, i) < rank(I, y)}
    <3>1. i \in Nat /\ rank(I, i + 1) = rank(I, i) + 1 /\ rank(I, i) \in Nat
      BY <1>4, <1>5
    <3>2. i + 1 \in U
      BY <2>1, <3>1
    <3>3. ASSUME NEW y \in (i + 1) + 1 .. x, y - 1 \in U
          PROVE  y \in U
      <4>1. y - 1 \in Nat /\ (y - 1) + 1 = y /\ y \in i + 1 .. x /\ rank(I, i) < rank(I, y - 1)
        BY <2>1, <3>1, <3>3
      <4>2. rank(I, y) = IF y - 1 \in I THEN rank(I, y - 1) + 1 ELSE rank(I, y - 1)
        BY <1>5, <4>1
      <4>3. rank(I, y - 1) \in Nat
        BY <1>5, <4>1
      <4> QED BY <3>1, <4>1, <4>2, <4>3
    <3>4. \A y \in i + 1 .. x : y \in U
      <4>1. i + 1 \in Int /\ x \in Int /\ i + 1 <= x
        BY <2>1, <3>1
      <4> HIDE DEF U
      <4> QED BY <3>2, <3>3, <4>1, StepsBetween
    <3>5. x \in i + 1 .. x
      BY <2>1, <3>1
    <3> QED BY <3>4, <3>5
  <2> HIDE DEF old, new, r, kept
  <2>6. CASE x \in I /\ r < maxSenses
    <3>1. new = Append(old, kept(x)) /\ Len(old) = r
      BY <1>1, <2>1, <2>2, <2>4, <2>6
    <3>2. kept(x) \in S
      BY <2>6 DEF S
    <3>3. new \in Seq(S) /\ Len(new) = r + 1 /\ new[r + 1] = kept(x) /\ \A y \in 1 .. r : new[y] = old[y]
      BY <2>1, <2>2, <3>1, <3>2
    <3>4. least(rank(I, x + 1)) = r + 1
      BY <1>1, <2>1, <2>3, <2>6
    <3>5. ASSUME NEW i \in I, i <= x, rank(I, i) < maxSenses
          PROVE  new[rank(I, i) + 1] = kept(i)
      <4>1. CASE i = x
        BY <3>3, <4>1 DEF r
      <4>2. CASE i # x
        <5>1. i <= x - 1 /\ rank(I, i) < r /\ rank(I, i) \in Nat
          BY <1>4, <1>5, <2>1, <2>5, <3>5, <4>2
        <5>2. rank(I, i) + 1 \in 1 .. r
          BY <2>1, <5>1
        <5> QED BY <2>2, <3>3, <3>5, <5>1, <5>2
      <4> QED BY <4>1, <4>2
    <3> HIDE DEF least
    <3> QED BY <2>1, <3>3, <3>4, <3>5 DEF new
  <2>7. CASE ~ (x \in I /\ r < maxSenses)
    <3>1. new = old
      BY <1>1, <2>1, <2>2, <2>4, <2>7
    <3>2. least(rank(I, x + 1)) = least(r)
      BY <1>1, <2>1, <2>3, <2>7
    <3>3. ASSUME NEW i \in I, i <= x, rank(I, i) < maxSenses
          PROVE  new[rank(I, i) + 1] = kept(i)
      <4>1. i # x
        BY <2>7, <3>3 DEF r
      <4>2. i <= x - 1
        BY <1>4, <2>1, <3>3, <4>1
      <4> QED BY <2>2, <3>1, <3>3, <4>2
    <3> HIDE DEF least
    <3> QED BY <2>1, <2>2, <3>1, <3>2, <3>3 DEF new
  <2> QED BY <2>6, <2>7
<1>9. till \in T
  <2>1. /\ from - 1 \in Int /\ from - 1 <= till /\ \A x : x \in (from - 1) + 1 .. till <=> x \in from .. till
        /\ till \in from - 1 .. till
    OBVIOUS
  <2> HIDE DEF T
  <2> QED BY <1>7, <1>8, <2>1, StepsBetween
<1>10. least(Cardinality(I)) = Min({maxSenses, Cardinality(I)})
  <2>1. Cardinality(I) \in Nat
    <3>1. till + 1 \in Nat
      OBVIOUS
    <3> QED BY <1>5, <1>6, <3>1
  <2> DEFINE c == Cardinality(I)
  <2> HIDE DEF c
  <2>2. {maxSenses, c} \in SUBSET Nat /\ least(c) \in {maxSenses, c} /\ \A y \in {maxSenses, c} : least(c) <= y
    BY <1>1, <2>1 DEF c
  <2> HIDE DEF least
  <2> QED BY <2>2, FirstIs DEF c
<1>11. \A i \in I : i <= till
  BY <1>4
<1>12. DOMAIN at[till].senses = 1 .. Len(at[till].senses)
  BY <1>9
<1> HIDE DEF least
<1> QED BY <1>12, <1>6, <1>9, <1>10, <1>11 DEF I

\* The senses of a page are its definition lines in turn, each under the nearest heading.
LEMMA SensesAreInPlace ==
    ASSUME NEW lines \in Seq(WikiLine), dialectOf(lines) # "none"
    PROVE  sensesInPlace(lines)
<1> DEFINE cut == markerCut(lines)
           part == vietnameseSection(lines)
           inside == sectionLines(lines)
           start == opening(lines)
           items == glossLines(lines)
<1>1. PICK from \in Nat, till \in Nat : IsSection(lines, part, inside, from, till)
  BY SectionIs
<1> DEFINE n == Len(lines)
<1>2. /\ n \in Nat /\ start \in 1 .. n
      /\ from \in {start, start + 1} /\ till \in from - 1 .. n
      /\ DOMAIN part = 1 .. till - from + 1
      /\ \A k \in 1 .. till - from + 1 : part[k] = cut[from + k - 1]
      /\ inside = start + 1 .. till
      /\ from = start => lines[start].kind = "codes"
      /\ from # start => lines[start].kind = "heading" /\ ~ heads(cut[start])
  <2>1. n \in Nat
    OBVIOUS
  <2> HIDE DEF part, inside, start, cut
  <2> QED BY <1>1, <2>1 DEF IsSection, start, cut
<1>3. \A i \in 1 .. n : /\ cut[i].kind = lines[i].kind
                        /\ lines[i].kind # "codes" => cut[i] = lines[i]
                        /\ heads(cut[i]) => classifyHeading(cut[i], <<>>) = classifyHeading(lines[i], <<>>)
  BY MarkerCutKeeps
<1>4. \A i \in 1 .. n : cut[i] \in WikiLine
  <2>1. cut \in Seq(WikiLine) /\ Len(cut) = n
    BY MarkerCutIs
  <2> HIDE DEF cut
  <2> QED BY <2>1
<1> HIDE DEF part, start
<1>5. PICK at : IsWalk(at, cut, from, till) /\ definitions(part) = at[till].senses
  <2>1. till \in Int /\ till >= from - 1
    BY <1>2
  <2> HIDE DEF cut
  <2> QED BY <1>2, <2>1, DefinitionsWalk
<1> HIDE DEF n
<1>6. items = glossed(cut, from, till)
  <2>1. ASSUME NEW i \in inside
        PROVE  i \in from .. till /\ (lines[i].kind = "item" => cut[i] = lines[i]) /\ cut[i].kind = lines[i].kind
    <3>1. i \in 1 .. n /\ i \in from .. till
      BY <1>2
    <3> QED BY <1>3, <3>1
  <2>2. ASSUME NEW i \in from .. till, cut[i].kind = "item"
        PROVE  i \in inside /\ cut[i] = lines[i]
    <3>1. i \in 1 .. n
      BY <1>2
    <3>2. lines[i].kind = "item" /\ cut[i] = lines[i]
      BY <1>3, <2>2, <3>1
    <3>3. i # start
      BY <1>2, <3>2
    <3>4. i \in start + 1 .. till
      BY <1>2, <3>3
    <3> QED BY <1>2, <3>2, <3>4
  <2> HIDE DEF inside, cut
  <2> QED BY <2>1, <2>2 DEF glossLines, glossed, inside
<1>7. ASSUME NEW i \in items
      PROVE  headsAbove(lines, i) = headings(cut, from, till, i)
  <2>1. i \in inside
    BY DEF glossLines
  <2>2. inside \subseteq Nat /\ start + 1 \in inside /\ \A y \in inside : start + 1 <= y
    BY <1>2, <2>1
  <2>3. Min(inside) = start + 1 /\ Min(inside) - 1 = start
    <3> HIDE DEF inside
    <3>1. Min(inside) = start + 1
      BY <2>2, FirstIs
    <3> QED BY <1>2, <3>1
  <2>4. headsAbove(lines, i) = {j \in inside \cup {start} : j < i /\ heads(cut[j])}
    BY <2>3 DEF headsAbove
  <2>5. ASSUME NEW j \in inside \cup {start}, j < i, heads(cut[j])
        PROVE  j \in from .. till
    <3>1. j \in start .. till
      BY <1>2, <2>1
    <3>2. from # start => j # start
      BY <1>2, <2>5
    <3> QED BY <1>2, <3>1, <3>2
  <2>6. ASSUME NEW j \in from .. till
        PROVE  j \in inside \cup {start}
    BY <1>2
  <2> HIDE DEF inside, cut
  <2> QED BY <2>4, <2>5, <2>6 DEF headings
<1> DEFINE senses == definitions(part)
<1>8. /\ DOMAIN senses = 1 .. Len(senses)
      /\ Len(senses) = Min({maxSenses, Cardinality(items)})
      /\ \A i \in items : rank(items, i) < maxSenses =>
            senses[rank(items, i) + 1] = [pos |-> at[i - 1].pos, gloss |-> stripWikitext(cut[i].text)]
  <2>1. till \in Int /\ till >= from - 1
    BY <1>2
  <2>2. senses = at[till].senses
    BY <1>5
  <2> HIDE DEF cut, items, senses
  <2>3. /\ DOMAIN at[till].senses = 1 .. Len(at[till].senses)
        /\ Len(at[till].senses) = Min({maxSenses, Cardinality(glossed(cut, from, till))})
        /\ \A i \in glossed(cut, from, till) : rank(glossed(cut, from, till), i) < maxSenses =>
              at[till].senses[rank(glossed(cut, from, till), i) + 1] =
                 [pos |-> at[i - 1].pos, gloss |-> stripWikitext(cut[i].text)]
    <3>1. IsWalk(at, cut, from, till)
      BY <1>5
    <3> QED BY <2>1, <3>1, SensesInTurn
  <2> QED BY <1>6, <2>2, <2>3
<1>9. ASSUME NEW i \in items
      PROVE  at[i - 1].pos = IF headsAbove(lines, i) = {} THEN <<>>
                             ELSE classifyHeading(lines[Max(headsAbove(lines, i))], <<>>)
  <2>1. i \in from .. till /\ till >= from - 1 /\ till \in Int
    BY <1>2, <1>6 DEF glossed
  <2>2. \A j \in from .. till : cut[j] \in WikiLine
    <3>1. \A j \in from .. till : j \in 1 .. n
      BY <1>2
    <3> HIDE DEF cut
    <3> QED BY <1>4, <3>1
  <2> DEFINE above == headings(cut, from, till, i)
             none == <<>>
  <2>3. at[i - 1].pos = IF above = {} THEN none ELSE classifyHeading(cut[Max(above)], none)
    <3> HIDE DEF cut
    <3> QED BY <1>5, <2>1, <2>2, LabelIsNearest
  <2>4. ASSUME above # {}
        PROVE  classifyHeading(cut[Max(above)], none) = classifyHeading(lines[Max(above)], none)
    <3>1. above \in SUBSET (0 .. till) /\ till \in Nat
      BY DEF headings
    <3>2. Max(above) \in above
      <4> HIDE DEF above
      <4> QED BY <2>4, <3>1, FirstAndLast
    <3>3. Max(above) \in 1 .. n /\ heads(cut[Max(above)])
      <4>1. \A j \in above : j \in 1 .. n /\ heads(cut[j])
        BY <1>2 DEF headings
      <4> HIDE DEF above
      <4> QED BY <3>2, <4>1
    <3> HIDE DEF above, cut
    <3> QED BY <1>3, <3>3 DEF none
  <2> HIDE DEF above, none, cut, items
  <2> QED BY <1>7, <2>3, <2>4 DEF above, none
<1>10. Cardinality(items) \in Nat /\ items \in SUBSET (0 .. till)
  <2>1. items \in SUBSET (0 .. till)
    BY <1>6 DEF glossed
  <2>2. IsFiniteSet(items)
    <3>1. IsFiniteSet(0 .. till)
      <4>1. 0 \in Int /\ till \in Int
        OBVIOUS
      <4> QED BY <4>1, FS_Interval
    <3> HIDE DEF items
    <3> QED BY <2>1, <3>1, FS_Subset
  <2> QED BY <2>1, <2>2, FS_CardinalityType
<1>11. Min({maxSenses, Cardinality(items)}) <= maxSenses /\ Min({maxSenses, Cardinality(items)}) <= Cardinality(items)
       /\ Min({maxSenses, Cardinality(items)}) \in Nat
  <2> DEFINE c == Cardinality(items)
  <2>1. c \in Nat /\ maxSenses \in Nat
    BY <1>10, SensesAssumption
  <2> HIDE DEF c
  <2>2. \E x \in {maxSenses, c} : \A y \in {maxSenses, c} : x <= y
    BY <2>1
  <2>3. Min({maxSenses, c}) \in {maxSenses, c} /\ \A y \in {maxSenses, c} : Min({maxSenses, c}) <= y
    BY <2>2 DEF Min
  <2> QED BY <2>1, <2>3 DEF c
<1>12. ASSUME NEW k \in DOMAIN senses
       PROVE  LET i == nth(items, k)
                  above == headsAbove(lines, i)
              IN  /\ senses[k].gloss = stripWikitext(lines[i].text)
                  /\ senses[k].pos = IF above = {} THEN <<>>
                                     ELSE classifyHeading(lines[Max(above)], <<>>)
  <2> HIDE DEF senses, items, cut, inside
  <2>1. k \in 1 .. Cardinality(items) /\ k - 1 < maxSenses
    <3> DEFINE least == Min({maxSenses, Cardinality(items)})
    <3>1. k \in 1 .. least
      BY <1>8
    <3>2. least \in Nat /\ least <= maxSenses /\ least <= Cardinality(items)
      BY <1>11
    <3>3. maxSenses \in Nat
      BY SensesAssumption
    <3> HIDE DEF least
    <3> QED BY <1>10, <3>1, <3>2, <3>3
  <2> DEFINE i == nth(items, k)
  <2>2. i \in items /\ rank(items, i) = k - 1
    BY <1>10, <2>1, NthIs
  <2> HIDE DEF i
  <2>3. (k - 1) + 1 = k
    BY <2>1, <1>10
  <2>4. senses[k] = [pos |-> at[i - 1].pos, gloss |-> stripWikitext(cut[i].text)]
    BY <1>8, <2>1, <2>2, <2>3
  <2>5. cut[i] = lines[i]
    <3>1. i \in inside /\ lines[i].kind = "item"
      BY <2>2 DEF items, glossLines, inside
    <3>2. i \in 1 .. n
      BY <1>2, <3>1
    <3> QED BY <1>3, <3>1, <3>2
  <2>6. senses[k].gloss = stripWikitext(lines[i].text) /\ senses[k].pos = at[i - 1].pos
    BY <2>4, <2>5
  <2> QED BY <1>9, <2>2, <2>6 DEF i
<1> HIDE DEF senses, items
<1>13. Len(senses) = Min({maxSenses, Cardinality(items)})
  BY <1>8
<1> QED BY <1>12, <1>13 DEF sensesInPlace, senses, items, part

----------------------------------------------------------------------------
(***************************************************************************)
(* The templates of a definition, one in another to any depth.             *)
(***************************************************************************)

\* The elements at some indices, in their order.
LEMMA OnlyIs ==
    ASSUME NEW S, NEW seq \in Seq(S), NEW I \in SUBSET (1 .. Len(seq))
    PROVE  /\ only(seq, I) \in Seq(S)
           /\ Cardinality(I) \in Nat
           /\ Len(only(seq, I)) = Cardinality(I)
           /\ \A k \in 1 .. Cardinality(I) :
                 /\ only(seq, I)[k] = seq[nth(I, k)]
                 /\ nth(I, k) \in I
                 /\ rank(I, nth(I, k)) = k - 1
<1> DEFINE n == Len(seq)
           c == Cardinality(I)
<1>1. n \in Nat /\ DOMAIN seq = 1 .. n /\ \A i \in 1 .. n : seq[i] \in S
  OBVIOUS
<1>2. I \in SUBSET (0 .. n)
  OBVIOUS
<1>3. c \in Nat
  BY <1>1, <1>2, RankGrows
<1>4. \A k \in 1 .. c : nth(I, k) \in I /\ rank(I, nth(I, k)) = k - 1
  <2> HIDE DEF n
  <2> QED BY <1>1, <1>2, NthIs
<1> HIDE DEF c
<1>5. \A k \in 1 .. c : seq[nth(I, k)] \in S
  BY <1>1, <1>4
<1>6. only(seq, I) = [k \in 1 .. c |-> seq[nth(I, k)]]
  BY DEF only, c
<1>7. only(seq, I) \in Seq(S) /\ Len(only(seq, I)) = c /\ \A k \in 1 .. c : only(seq, I)[k] = seq[nth(I, k)]
  <2>1. only(seq, I) \in [1 .. c -> S]
    BY <1>5, <1>6
  <2>2. \A f \in [1 .. c -> S] : f \in Seq(S) /\ Len(f) = c
    BY <1>3
  <2> QED BY <1>6, <2>1, <2>2
<1> QED BY <1>3, <1>4, <1>7 DEF c

\* What opens is not what closes.
LEMMA MarkersDiffer ==
    /\ opener # closer
    /\ \A t \in {opener, "[["} : t \notin {closer, "]]"} /\ t # "|"
    /\ \A t \in {closer, "]]"} : t \notin {opener, "[["} /\ t # "|"
BY Zenon DEF opener, closer

\* What a template's body is cut into.
SplitState == [parts : Seq(Seq(Token)), part : Seq(Token), depth : Nat]

\* One token more keeps it so.
LEMMA SplitGoesOn ==
    ASSUME NEW acc \in SplitState, NEW t \in Token
    PROVE  split(acc, t) \in SplitState
<1> DEFINE longer == Append(acc.part, t)
           more == Append(acc.parts, acc.part)
           none == <<>>
<1>1. /\ acc.parts \in Seq(Seq(Token)) /\ acc.part \in Seq(Token) /\ acc.depth \in Nat
      /\ acc = [parts |-> acc.parts, part |-> acc.part, depth |-> acc.depth]
  BY DEF SplitState
<1>2. longer \in Seq(Token) /\ more \in Seq(Seq(Token)) /\ none \in Seq(Token)
  BY <1>1
<1>3. \/ split(acc, t) = [parts |-> acc.parts, part |-> longer, depth |-> acc.depth + 1]
      \/ split(acc, t) = [parts |-> acc.parts, part |-> longer,
                          depth |-> IF acc.depth > 0 THEN acc.depth - 1 ELSE 0]
      \/ split(acc, t) = [parts |-> more, part |-> none, depth |-> acc.depth]
      \/ split(acc, t) = [parts |-> acc.parts, part |-> longer, depth |-> acc.depth]
  <2>1. CASE t \in {opener, "[["}
    <3>1. split(acc, t) = [acc EXCEPT !.depth = acc.depth + 1, !.part = longer]
      BY <2>1, MarkersDiffer DEF split
    <3> HIDE DEF longer
    <3> QED BY <1>1, <3>1
  <2>2. CASE t \in {closer, "]]"}
    <3>1. split(acc, t) = [acc EXCEPT !.depth = IF acc.depth > 0 THEN acc.depth - 1 ELSE 0, !.part = longer]
      BY <2>2, MarkersDiffer DEF split
    <3> HIDE DEF longer
    <3> QED BY <1>1, <3>1
  <2>3. CASE t \notin {opener, "[["} /\ t \notin {closer, "]]"} /\ t = "|" /\ acc.depth = 0
    <3>1. split(acc, t) = [acc EXCEPT !.parts = more, !.part = none]
      BY <2>3 DEF split
    <3> HIDE DEF more, none
    <3> QED BY <1>1, <3>1
  <2>4. CASE t \notin {opener, "[["} /\ t \notin {closer, "]]"} /\ ~ (t = "|" /\ acc.depth = 0)
    <3>1. split(acc, t) = [acc EXCEPT !.part = longer]
      BY <2>4 DEF split
    <3> HIDE DEF longer
    <3> QED BY <1>1, <3>1
  <2> HIDE DEF longer, more, none
  <2> QED BY <2>1, <2>2, <2>3, <2>4
<1> HIDE DEF longer, more, none
<1> QED BY <1>1, <1>2, <1>3 DEF SplitState

\* There is at least one part, the template's name.
LEMMA SplitIs ==
    ASSUME NEW body \in Seq(Token)
    PROVE  splitTemplate(body) \in Seq(Seq(Token)) /\ Len(splitTemplate(body)) \in Nat \ {0}
<1> DEFINE start == [parts |-> <<>>, part |-> <<>>, depth |-> 0]
           F == Loop("parts", 0, start, body)
           len == Len(body)
           T == {m \in 0 .. len : F[1 .. m] \in SplitState}
<1>1. len \in Nat /\ DOMAIN body = 1 .. len
  OBVIOUS
<1>2. FoldLeft(split, start, body) = F[1 .. len]
  BY <1>1, FoldsAreLoops
<1>3. F[1 .. 0] = start /\ \A m \in 1 .. len : F[1 .. m] = split(F[1 .. m - 1], body[m])
  <2> HIDE DEF start
  <2> QED BY <1>1, LoopGoesOn DEF round
<1>4. start \in SplitState
  <2>1. <<>> \in Seq(Token) /\ <<>> \in Seq(Seq(Token))
    OBVIOUS
  <2> QED BY <2>1 DEF SplitState
<1> HIDE DEF F, start
<1>5. 0 \in T
  BY <1>1, <1>3, <1>4
<1>6. ASSUME NEW m \in 1 .. len, m - 1 \in T
      PROVE  m \in T
  <2>1. body[m] \in Token
    OBVIOUS
  <2> QED BY <1>3, <1>6, <2>1, SplitGoesOn
<1>7. len \in T
  <2>1. len \in 0 .. len
    BY <1>1
  <2> HIDE DEF T, len
  <2> QED BY <1>1, <1>5, <1>6, <2>1, StepByStep
<1> DEFINE end == F[1 .. len]
<1>8. end \in SplitState
  BY <1>7
<1>9. splitTemplate(body) = Append(end.parts, end.part)
  BY <1>2 DEF splitTemplate, start
<1> HIDE DEF end
<1>10. end.parts \in Seq(Seq(Token)) /\ end.part \in Seq(Token)
  BY <1>8 DEF SplitState
<1> QED BY <1>9, <1>10

\* Texts put one after the other are a text.
LEMMA JoinIs ==
    ASSUME NEW params \in Seq(Seq(Token))
    PROVE  FoldLeft(join, <<>>, params) \in Seq(Token)
<1> DEFINE none == <<>>
           F == Loop("params", 0, none, params)
           len == Len(params)
           T == {m \in 0 .. len : F[1 .. m] \in Seq(Token)}
<1>1. len \in Nat /\ DOMAIN params = 1 .. len
  OBVIOUS
<1>2. FoldLeft(join, none, params) = F[1 .. len]
  BY <1>1, FoldsAreLoops
<1>3. F[1 .. 0] = none /\ \A m \in 1 .. len : F[1 .. m] = join(F[1 .. m - 1], params[m])
  <2> HIDE DEF none
  <2>1. F[1 .. 0] = none /\ \A m \in 1 .. len : F[1 .. m] = round("params", 0, F[1 .. m - 1], params[m])
    BY <1>1, LoopGoesOn
  <2>2. \A acc, x : round("params", 0, acc, x) = join(acc, x)
    BY DEF round
  <2> HIDE DEF F
  <2> QED BY <2>1, <2>2
<1>4. none \in Seq(Token)
  OBVIOUS
<1> HIDE DEF F, none
<1>5. 0 \in T
  BY <1>1, <1>3, <1>4
<1>6. ASSUME NEW m \in 1 .. len, m - 1 \in T
      PROVE  m \in T
  <2>1. params[m] \in Seq(Token) /\ F[1 .. m - 1] \in Seq(Token) /\ m \in 0 .. len
    BY <1>6
  <2> DEFINE sofar == F[1 .. m - 1]
             next == params[m]
  <2> HIDE DEF sofar, next
  <2>2. sofar \o next \in Seq(Token)
    BY <2>1 DEF sofar, next
  <2>3. F[1 .. m] = sofar \o next
    BY <1>3 DEF join, sofar, next
  <2> QED BY <2>1, <2>2, <2>3
<1>7. len \in T
  <2>1. len \in 0 .. len
    BY <1>1
  <2> HIDE DEF T, len
  <2> QED BY <1>1, <1>5, <1>6, <2>1, StepByStep
<1> QED BY <1>2, <1>7 DEF none

\* What is left of a template is a text.
LEMMA RenderingIs ==
    ASSUME NEW name, NEW params \in Seq(Seq(Token))
    PROVE  renderTemplate(name, params) \in Seq(Token)
<1> DEFINE none == <<>>
<1>1. /\ dropLang(params) \in Seq(Seq(Token))
      /\ params # none => /\ Last(dropLang(params)) \in Seq(Token)
                          /\ params[1] \in Seq(Token)
  <2>1. CASE Len(params) > 1 /\ isLangCode(params[1])
    <3>1. dropLang(params) = Tail(params)
      BY <2>1 DEF dropLang
    <3>2. params # <<>> /\ Len(params) \in Nat
      BY <2>1
    <3> DEFINE rest == Tail(params)
    <3>3. rest \in Seq(Seq(Token)) /\ Len(rest) = Len(params) - 1 /\ params[1] \in Seq(Token)
      <4>1. 1 \in 1 .. Len(params)
        BY <2>1, <3>2
      <4> QED BY <3>2, <4>1, HeadTailProperties
    <3> HIDE DEF rest
    <3>4. rest[Len(rest)] \in Seq(Token)
      <4>1. Len(rest) \in 1 .. Len(rest)
        BY <2>1, <3>2, <3>3
      <4> QED BY <3>3, <4>1, ElementOfSeq
    <3> QED BY <3>1, <3>3, <3>4 DEF Last, rest
  <2>2. CASE ~ (Len(params) > 1 /\ isLangCode(params[1]))
    <3>1. dropLang(params) = params
      BY <2>2 DEF dropLang
    <3>2. params # none => Len(params) \in Nat \ {0}
      BY EmptySeq
    <3> HIDE DEF none
    <3> QED BY <3>1, <3>2 DEF Last
  <2> QED BY <2>1, <2>2
<1>2. FoldLeft(join, none, dropLang(params)) \in Seq(Token)
  BY <1>1, JoinIs
<1>3. none \in Seq(Token)
  OBVIOUS
<1> HIDE DEF none
<1>4. renderTemplate(name, params) \in
         {FoldLeft(join, none, dropLang(params)), none} \cup
         (IF params # none THEN {Last(dropLang(params)), params[1]} ELSE {})
  BY DEF renderTemplate, none
<1> QED BY <1>1, <1>2, <1>3, <1>4

\* So is what is made of its body.
LEMMA RenderedIs ==
    ASSUME NEW body \in Seq(Token), NEW inner \in [Seq(Token) -> Seq(Token)]
    PROVE  rendered(body, inner) \in Seq(Token)
<1> DEFINE parts == splitTemplate(body)
           chosen == {i \in 2 .. Len(parts) : isPositional(parts[i])}
           params == only(parts, chosen)
           c == Cardinality(chosen)
<1>1. parts \in Seq(Seq(Token)) /\ Len(parts) \in Nat
  BY SplitIs
<1> HIDE DEF parts
<1>2. chosen \in SUBSET (1 .. Len(parts))
  BY <1>1
<1> HIDE DEF chosen
<1>3. params \in Seq(Seq(Token))
  BY <1>1, <1>2, OnlyIs
<1>4. positional(parts) = params
  BY DEF positional, chosen
<1> HIDE DEF params
<1> DEFINE shown == [i \in DOMAIN params |-> inner[params[i]]]
           len == Len(params)
<1>5. len \in Nat /\ DOMAIN params = 1 .. len /\ \A i \in 1 .. len : inner[params[i]] \in Seq(Token)
  BY <1>3
<1>6. shown \in [1 .. len -> Seq(Token)]
  BY <1>5
<1>7. shown \in Seq(Seq(Token))
  <2>1. \A f \in [1 .. len -> Seq(Token)] : f \in Seq(Seq(Token))
    BY <1>5
  <2> HIDE DEF shown
  <2> QED BY <1>6, <2>1
<1>8. rendered(body, inner) = renderTemplate(parts[1], shown)
  BY <1>4 DEF rendered, parts
<1> HIDE DEF shown
<1> QED BY <1>7, <1>8, RenderingIs

\* Where the scan of a text stands.
ScanState == [out : Seq(Token), depth : Nat, body : Seq(Token)]

\* One token read: what is out already stays, and at depth 0 a token that opens nothing
\* and closes nothing is put out.
LEMMA ScanGoesOn ==
    ASSUME NEW inner \in [Seq(Token) -> Seq(Token)], NEW acc \in ScanState, NEW t \in Token
    PROVE  /\ scan(acc, t, inner) \in ScanState
           /\ Len(acc.out) <= Len(scan(acc, t, inner).out)
           /\ \A k \in 1 .. Len(acc.out) : scan(acc, t, inner).out[k] = acc.out[k]
           /\ acc.depth = 0 /\ t = closer => scan(acc, t, inner) = acc
           /\ acc.depth = 0 /\ t # closer /\ t # opener =>
                 /\ scan(acc, t, inner).depth = 0
                 /\ Len(scan(acc, t, inner).out) = Len(acc.out) + 1
                 /\ scan(acc, t, inner).out[Len(acc.out) + 1] = t
<1> DEFINE none == <<>>
           put == Append(acc.out, t)
           held == Append(acc.body, t)
           shown == acc.out \o rendered(acc.body, inner)
           new == scan(acc, t, inner)
<1>1. /\ acc.out \in Seq(Token) /\ acc.body \in Seq(Token) /\ acc.depth \in Nat
      /\ acc = [out |-> acc.out, depth |-> acc.depth, body |-> acc.body]
  BY DEF ScanState
<1>2. /\ put \in Seq(Token) /\ Len(put) = Len(acc.out) + 1 /\ put[Len(acc.out) + 1] = t
      /\ \A k \in 1 .. Len(acc.out) : put[k] = acc.out[k]
      /\ held \in Seq(Token) /\ none \in Seq(Token) /\ Len(acc.out) \in Nat
  BY <1>1
<1>3. /\ shown \in Seq(Token) /\ Len(acc.out) <= Len(shown)
      /\ \A k \in 1 .. Len(acc.out) : shown[k] = acc.out[k]
  <2> DEFINE s1 == acc.out
             s2 == rendered(acc.body, inner)
  <2>1. s1 \in Seq(Token) /\ s2 \in Seq(Token)
    BY <1>1, RenderedIs
  <2> HIDE DEF s1, s2
  <2>2. /\ s1 \o s2 \in Seq(Token) /\ Len(s1 \o s2) = Len(s1) + Len(s2)
        /\ \A i \in 1 .. Len(s1) + Len(s2) : (s1 \o s2)[i] = IF i <= Len(s1) THEN s1[i] ELSE s2[i - Len(s1)]
    BY <2>1, ConcatProperties
  <2>3. Len(s1) \in Nat /\ Len(s2) \in Nat
    BY <2>1
  <2> DEFINE both == s1 \o s2
  <2> HIDE DEF both
  <2>4. both \in Seq(Token) /\ Len(s1) <= Len(both) /\ \A k \in 1 .. Len(s1) : both[k] = s1[k]
    BY <2>2, <2>3 DEF both
  <2> QED BY <2>4 DEF both, s1, s2
<1>4. \/ /\ acc.depth = 0 => t = opener
         /\ \/ new = [out |-> acc.out, depth |-> acc.depth + 1, body |-> none]
            \/ new = [out |-> acc.out, depth |-> acc.depth + 1, body |-> held]
            \/ new = [out |-> shown, depth |-> 0, body |-> acc.body]
            \/ acc.depth > 1 /\ new = [out |-> acc.out, depth |-> acc.depth - 1, body |-> held]
            \/ new = [out |-> acc.out, depth |-> acc.depth, body |-> held]
      \/ acc.depth = 0 /\ t = closer /\ new = acc
      \/ acc.depth = 0 /\ t # opener /\ t # closer /\ new = [out |-> put, depth |-> 0, body |-> acc.body]
  <2>1. CASE t = opener
    <3>1. new = [acc EXCEPT !.depth = acc.depth + 1, !.body = IF acc.depth = 0 THEN none ELSE held]
      BY <2>1, MarkersDiffer DEF scan
    <3> HIDE DEF none, held, shown, new
    <3> QED BY <1>1, <2>1, <3>1
  <2>0. closer # opener
    BY MarkersDiffer
  <2>2. CASE t = closer /\ acc.depth = 0
    <3>1. new = acc
      BY <2>0, <2>2 DEF scan
    <3> HIDE DEF none, held, shown, new
    <3> QED BY <2>2, <3>1
  <2>3. CASE t = closer /\ acc.depth = 1
    <3>1. new = [acc EXCEPT !.depth = 0, !.out = shown]
      BY <2>0, <2>3 DEF scan
    <3> HIDE DEF none, held, shown, new, put
    <3>2. new = [out |-> shown, depth |-> 0, body |-> acc.body]
      BY <1>1, <3>1
    <3>3. acc.depth # 0
      BY <2>3
    <3> QED BY <3>2, <3>3, Zenon
  <2>4. CASE t = closer /\ acc.depth > 1
    <3>1. new = [acc EXCEPT !.depth = acc.depth - 1, !.body = held]
      BY <1>1, <2>0, <2>4 DEF scan
    <3> HIDE DEF none, held, shown, new, put
    <3>2. new = [out |-> acc.out, depth |-> acc.depth - 1, body |-> held]
      BY <1>1, <3>1
    <3>3. acc.depth # 0
      BY <1>1, <2>4
    <3> QED BY <2>4, <3>2, <3>3, Zenon
  <2>5. CASE t # opener /\ t # closer /\ acc.depth = 0
    <3>1. new = [acc EXCEPT !.out = put]
      BY <2>5 DEF scan
    <3> HIDE DEF none, held, shown, new, put
    <3> QED BY <1>1, <2>5, <3>1
  <2>6. CASE t # opener /\ t # closer /\ acc.depth # 0
    <3>1. new = [acc EXCEPT !.body = held]
      BY <2>6 DEF scan
    <3> HIDE DEF none, held, shown, new, put
    <3> QED BY <1>1, <2>6, <3>1
  <2> HIDE DEF none, held, shown, new, put
  <2> QED BY <1>1, <2>1, <2>2, <2>3, <2>4, <2>5, <2>6
<1> HIDE DEF none, held, shown, new, put
<1>5. new \in ScanState
  BY <1>1, <1>2, <1>3, <1>4 DEF ScanState
<1>6. new.out \in {acc.out, shown, put}
  BY <1>4
<1>7. Len(acc.out) <= Len(new.out) /\ \A k \in 1 .. Len(acc.out) : new.out[k] = acc.out[k]
  BY <1>2, <1>3, <1>6
<1>8. acc.depth = 0 /\ t = closer => new = acc
  BY <1>4, MarkersDiffer
<1>9. acc.depth = 0 /\ t # closer /\ t # opener =>
         new.depth = 0 /\ Len(new.out) = Len(acc.out) + 1 /\ new.out[Len(acc.out) + 1] = t
  BY <1>2, <1>4
<1> QED BY <1>5, <1>7, <1>8, <1>9 DEF new

\* What stands before a text's first opener.
headLength(text) ==
    LET open == firstIndex(text, LAMBDA t : t = opener)
    IN  IF open = 0 THEN Len(text) ELSE open - 1
loose(text) == {i \in 1 .. headLength(text) : text[i] # closer}

\* The scan of a text is a loop.
LEMMA OutermostIs ==
    ASSUME NEW text, NEW inner
    PROVE  outermost(text, inner) =
              Loop("tokens", inner, [out |-> <<>>, depth |-> 0, body |-> <<>>], text)[DOMAIN text].out
BY DEF outermost, FoldLeft, MapThenFoldSet, IsLoop, Loop, round

\* It is kept, less the closers that close nothing, and the rest is a text.
LEMMA OutermostKeeps ==
    ASSUME NEW inner \in [Seq(Token) -> Seq(Token)], NEW text \in Seq(Token)
    PROVE  /\ outermost(text, inner) \in Seq(Token)
           /\ Cardinality(loose(text)) <= Len(outermost(text, inner))
           /\ \A i \in loose(text) : outermost(text, inner)[rank(loose(text), i) + 1] = text[i]
<1> DEFINE K == loose(text)
           start == [out |-> <<>>, depth |-> 0, body |-> <<>>]
           F == Loop("tokens", inner, start, text)
           len == Len(text)
           n == headLength(text)
<1>1. len \in Nat /\ DOMAIN text = 1 .. len /\ \A m \in 1 .. len : text[m] \in Token
  OBVIOUS
<1>2. n \in 0 .. len /\ \A i \in 1 .. n : text[i] # opener
  <2> DEFINE found == {i \in DOMAIN text : text[i] = opener}
  <2>1. found \in SUBSET (1 .. len)
    BY <1>1
  <2>2. n = IF firstOf(found) = 0 THEN len ELSE firstOf(found) - 1
    BY DEF headLength, firstIndex
  <2>3. /\ firstOf(found) \in 0 .. len
        /\ firstOf(found) = 0 <=> found = {}
        /\ found # {} => firstOf(found) \in found /\ \A y \in found : firstOf(found) <= y
    <3> HIDE DEF found
    <3> QED BY <1>1, <2>1, IndexFound
  <2>4. \A i \in 1 .. n : i \notin found
    <3> HIDE DEF found
    <3> QED BY <1>1, <2>1, <2>2, <2>3
  <2>5. n \in 0 .. len
    <3> HIDE DEF found, n
    <3> QED BY <1>1, <2>2, <2>3
  <2> HIDE DEF n
  <2> QED BY <1>1, <2>4, <2>5
<1> HIDE DEF n
<1>3. K = {i \in 1 .. n : text[i] # closer}
  BY DEF loose, n
<1> HIDE DEF K
<1>4. /\ \A i \in Nat : rank(K, i) \in Nat /\ rank(K, i + 1) = IF i \in K THEN rank(K, i) + 1 ELSE rank(K, i)
      /\ rank(K, 0) = 0 /\ rank(K, n + 1) = Cardinality(K) /\ 0 \notin K
  <2>1. n \in Nat /\ K \in SUBSET (0 .. n) /\ 0 \notin K
    BY <1>1, <1>2, <1>3
  <2> QED BY <2>1, RankGrows
<1>5. outermost(text, inner) = F[1 .. len].out
  BY <1>1, OutermostIs
<1>6. F[1 .. 0] = start /\ \A m \in 1 .. len : F[1 .. m] = scan(F[1 .. m - 1], text[m], inner)
  <2> HIDE DEF start
  <2>1. F[1 .. 0] = start /\ \A m \in 1 .. len : F[1 .. m] = round("tokens", inner, F[1 .. m - 1], text[m])
    BY <1>1, LoopGoesOn
  <2>2. \A acc, x : round("tokens", inner, acc, x) = scan(acc, x, inner)
    BY DEF round
  <2> HIDE DEF F
  <2> QED BY <2>1, <2>2
<1>7. start \in ScanState /\ Len(start.out) = 0 /\ start.depth = 0
  <2>1. <<>> \in Seq(Token) /\ Len(<<>>) = 0
    OBVIOUS
  <2> QED BY <2>1 DEF ScanState
<1> HIDE DEF F, start
<1> DEFINE T == {m \in 0 .. len :
                   /\ F[1 .. m] \in ScanState
                   /\ m <= n => F[1 .. m].depth = 0 /\ Len(F[1 .. m].out) = rank(K, m + 1)
                   /\ m > n => Cardinality(K) <= Len(F[1 .. m].out)
                   /\ \A i \in K : i <= m => F[1 .. m].out[rank(K, i) + 1] = text[i]}
<1>8. 0 \in T
  <2>1. rank(K, 0 + 1) = 0
    BY <1>4
  <2>2. \A i \in K : ~ (i <= 0)
    BY <1>3
  <2>3. 0 \in 0 .. len /\ 0 <= n /\ ~ (0 > n)
    BY <1>1, <1>2
  <2> QED BY <1>6, <1>7, <2>1, <2>2, <2>3
<1>9. ASSUME NEW m \in 1 .. len, m - 1 \in T
      PROVE  m \in T
  <2> DEFINE acc == F[1 .. m - 1]
             new == F[1 .. m]
             t == text[m]
  <2>1. /\ acc \in ScanState
        /\ m - 1 <= n => acc.depth = 0 /\ Len(acc.out) = rank(K, m)
        /\ m - 1 > n => Cardinality(K) <= Len(acc.out)
        /\ \A i \in K : i <= m - 1 => acc.out[rank(K, i) + 1] = text[i]
    <3>1. (m - 1) + 1 = m
      OBVIOUS
    <3> QED BY <1>9, <3>1
  <2>2. t \in Token /\ new = scan(acc, t, inner)
    BY <1>1, <1>6
  <2> HIDE DEF acc, new, t, T
  <2>3. /\ new \in ScanState
        /\ Len(acc.out) <= Len(new.out)
        /\ \A k \in 1 .. Len(acc.out) : new.out[k] = acc.out[k]
        /\ acc.depth = 0 /\ t = closer => new = acc
        /\ acc.depth = 0 /\ t # closer /\ t # opener =>
              new.depth = 0 /\ Len(new.out) = Len(acc.out) + 1 /\ new.out[Len(acc.out) + 1] = t
    BY <2>1, <2>2, ScanGoesOn
  <2>4. Len(acc.out) \in Nat /\ Len(new.out) \in Nat /\ m \in Nat /\ n \in Nat /\ Cardinality(K) \in Nat
    <3>1. m \in Nat /\ n \in Nat /\ n + 1 \in Nat
      BY <1>1, <1>2
    <3>2. Cardinality(K) \in Nat
      <4>1. rank(K, n + 1) \in Nat
        BY <1>4, <3>1
      <4> QED BY <1>4, <4>1
    <3>3. acc.out \in Seq(Token) /\ new.out \in Seq(Token)
      BY <2>1, <2>3 DEF ScanState
    <3>4. Len(acc.out) \in Nat /\ Len(new.out) \in Nat
      BY <3>3
    <3> QED BY <3>1, <3>2, <3>4
  <2>5. ASSUME NEW i \in K
        PROVE  i \in Nat /\ i <= n /\ rank(K, i) + 1 <= Cardinality(K) /\ (i < m => rank(K, i) + 1 <= rank(K, m))
    <3>1. i \in Nat /\ i <= n
      BY <1>2, <1>3
    <3>2. ASSUME NEW b \in Nat, i < b
          PROVE  rank(K, i) + 1 <= rank(K, b)
      <4> DEFINE U == {y \in i + 1 .. b : rank(K, i) + 1 <= rank(K, y)}
      <4>1. rank(K, i + 1) = rank(K, i) + 1 /\ rank(K, i) \in Nat
        BY <1>4, <3>1
      <4>2. i + 1 \in U
        BY <3>1, <3>2, <4>1
      <4>3. ASSUME NEW y \in (i + 1) + 1 .. b, y - 1 \in U
            PROVE  y \in U
        <5>1. y - 1 \in Nat /\ (y - 1) + 1 = y /\ y \in i + 1 .. b /\ rank(K, i) + 1 <= rank(K, y - 1)
          BY <3>1, <3>2, <4>3
        <5>2. rank(K, y) = IF y - 1 \in K THEN rank(K, y - 1) + 1 ELSE rank(K, y - 1)
          BY <1>4, <5>1
        <5>3. rank(K, y - 1) \in Nat
          BY <1>4, <5>1
        <5> QED BY <4>1, <5>1, <5>2, <5>3
      <4>4. i + 1 \in Int /\ b \in Int /\ i + 1 <= b
        BY <3>1, <3>2
      <4>5. \A y \in i + 1 .. b : y \in U
        <5> HIDE DEF U
        <5> QED BY <4>2, <4>3, <4>4, StepsBetween
      <4>6. b \in i + 1 .. b
        BY <4>4
      <4> QED BY <4>5, <4>6
    <3>3. n + 1 \in Nat /\ i < n + 1
      BY <2>4, <3>1
    <3>4. rank(K, i) + 1 <= rank(K, n + 1)
      BY <3>2, <3>3
    <3> QED BY <1>4, <2>4, <3>1, <3>2, <3>4
  <2>6. rank(K, m) \in Nat /\ rank(K, m + 1) = IF m \in K THEN rank(K, m) + 1 ELSE rank(K, m)
    BY <1>4, <2>4
  <2>7. CASE m <= n
    <3>1. m - 1 <= n /\ ~ (m > n) /\ t # opener /\ (m \in K <=> t # closer)
      BY <1>1, <1>2, <1>3, <2>4, <2>7 DEF t
    <3>2. acc.depth = 0 /\ Len(acc.out) = rank(K, m)
      BY <2>1, <3>1
    <3>3. new.depth = 0 /\ Len(new.out) = rank(K, m + 1)
      BY <2>3, <2>6, <3>1, <3>2
    <3>4. ASSUME NEW i \in K, i <= m
          PROVE  new.out[rank(K, i) + 1] = text[i]
      <4>1. CASE i = m
        BY <2>3, <3>1, <3>2, <3>4, <4>1 DEF t
      <4>2. CASE i # m
        <5>1. i <= m - 1 /\ rank(K, i) \in Nat /\ rank(K, i) + 1 <= Len(acc.out)
          <6>0. i \in Nat
            BY <2>5
          <6>1. i < m /\ rank(K, i) \in Nat /\ rank(K, m) \in Nat
            BY <1>4, <2>4, <3>4, <4>2, <6>0
          <6>2. rank(K, i) + 1 <= rank(K, m)
            BY <2>5, <6>1
          <6>3. i <= m - 1
            BY <2>4, <6>0, <6>1
          <6>4. rank(K, i) + 1 <= Len(acc.out)
            BY <3>2, <6>2
          <6> QED BY <6>1, <6>3, <6>4
        <5>2. rank(K, i) + 1 \in 1 .. Len(acc.out)
          BY <2>4, <5>1
        <5> QED BY <2>1, <2>3, <5>1, <5>2
      <4> QED BY <4>1, <4>2
    <3> QED BY <2>3, <2>4, <2>7, <3>1, <3>3, <3>4 DEF new, T
  <2>8. CASE ~ (m <= n)
    <3>1. Cardinality(K) <= Len(acc.out)
      <4>1. CASE m - 1 > n
        BY <2>1, <4>1
      <4>2. CASE ~ (m - 1 > n)
        <5>1. m = n + 1 /\ m - 1 <= n
          BY <2>4, <2>8, <4>2
        <5>2. Len(acc.out) = Cardinality(K)
          BY <1>4, <2>1, <5>1
        <5> DEFINE c == Cardinality(K)
        <5> HIDE DEF c
        <5>3. c <= Len(acc.out)
          BY <2>4, <5>2 DEF c
        <5> QED BY <5>3 DEF c
      <4> QED BY <4>1, <4>2
    <3>2. Cardinality(K) <= Len(new.out)
      BY <2>3, <2>4, <3>1
    <3>3. ASSUME NEW i \in K, i <= m
          PROVE  new.out[rank(K, i) + 1] = text[i]
      <4>1. i <= m - 1 /\ rank(K, i) \in Nat /\ rank(K, i) + 1 <= Len(acc.out)
        <5> DEFINE c == Cardinality(K)
        <5>1. /\ i \in Nat /\ i <= n /\ rank(K, i) \in Nat
              /\ rank(K, i) + 1 <= c /\ c <= Len(acc.out) /\ c \in Nat
          BY <1>4, <2>4, <2>5, <3>1
        <5> HIDE DEF c
        <5> QED BY <2>4, <2>8, <5>1
      <4>2. rank(K, i) + 1 \in 1 .. Len(acc.out)
        BY <2>4, <4>1
      <4> QED BY <2>1, <2>3, <4>1, <4>2
    <3> QED BY <2>3, <2>4, <2>8, <3>2, <3>3 DEF new, T
  <2> QED BY <2>7, <2>8
<1>10. len \in T
  <2>1. len \in 0 .. len
    BY <1>1
  <2> HIDE DEF T, len
  <2> QED BY <1>1, <1>8, <1>9, <2>1, StepByStep
<1>11. /\ F[1 .. len] \in ScanState
       /\ len <= n => Len(F[1 .. len].out) = rank(K, len + 1)
       /\ len > n => Cardinality(K) <= Len(F[1 .. len].out)
       /\ \A i \in K : i <= len => F[1 .. len].out[rank(K, i) + 1] = text[i]
  BY <1>10
<1> HIDE DEF len, T
<1>12. Cardinality(K) <= Len(F[1 .. len].out)
  <2>1. CASE len > n
    BY <1>11, <2>1
  <2>2. CASE ~ (len > n)
    <3>1. len = n /\ n + 1 \in Nat /\ len <= n
      BY <1>1, <1>2, <2>2
    <3>2. Cardinality(K) \in Nat /\ Len(F[1 .. len].out) = Cardinality(K)
      <4>1. rank(K, n + 1) \in Nat
        BY <1>4, <3>1
      <4> QED BY <1>4, <1>11, <3>1, <4>1
    <3> DEFINE c == Cardinality(K)
               l == Len(F[1 .. len].out)
    <3> HIDE DEF c, l
    <3>3. c <= l
      BY <3>2 DEF c, l
    <3> QED BY <3>3 DEF c, l
  <2> QED BY <2>1, <2>2
<1>13. \A i \in K : i <= len
  BY <1>1, <1>2, <1>3
<1> QED BY <1>5, <1>11, <1>12, <1>13 DEF ScanState, K

\* Templates rendered one level deeper.
layer(n, F) == [text \in Seq(Token) |-> IF n = 0 THEN <<>> ELSE outermost(text, F[n - 1])]
IsLayers(F, N) == F = [n \in N |-> layer(n, F)]

\* A layer depends on the one below it alone.
LEMMA LayerIs ==
    ASSUME NEW n, NEW F, NEW G, n = 0 \/ F[n - 1] = G[n - 1]
    PROVE  layer(n, F) = layer(n, G)
<1>1. CASE n = 0
  BY <1>1 DEF layer
<1>2. CASE n # 0 /\ F[n - 1] = G[n - 1]
  BY <1>2 DEF layer
<1> QED BY <1>1, <1>2

\* Two towers of layers agree as far as both go.
LEMMA LayersAgree ==
    ASSUME NEW n \in Nat, NEW m \in Nat, n <= m,
           NEW F, IsLayers(F, 0 .. n), NEW G, IsLayers(G, 0 .. m)
    PROVE  \A k \in 0 .. n : F[k] = G[k]
<1> DEFINE T == {k \in 0 .. n : F[k] = G[k]}
<1>1. \A k \in 0 .. n : F[k] = layer(k, F) /\ G[k] = layer(k, G)
  <2>1. \A k \in 0 .. n : k \in 0 .. m
    OBVIOUS
  <2>2. \A k \in 0 .. n : F[k] = layer(k, F)
    BY DEF IsLayers
  <2>3. \A k \in 0 .. m : G[k] = layer(k, G)
    BY DEF IsLayers
  <2> QED BY <2>1, <2>2, <2>3
<1>2. 0 \in T
  <2>1. layer(0, F) = layer(0, G)
    BY LayerIs
  <2> QED BY <1>1, <2>1
<1>3. ASSUME NEW k \in 1 .. n, k - 1 \in T
      PROVE  k \in T
  <2>1. layer(k, F) = layer(k, G)
    <3>1. F[k - 1] = G[k - 1]
      BY <1>3
    <3> QED BY <3>1, LayerIs
  <2> QED BY <1>1, <2>1
<1>4. \A k \in 0 .. n : k \in T
  <2> HIDE DEF T
  <2> QED BY <1>2, <1>3, StepByStep
<1> QED BY <1>4

\* There is a tower of any height.
LEMMA LayersExist ==
    ASSUME NEW n \in Nat
    PROVE  \E F : IsLayers(F, 0 .. n)
<1> DEFINE T == {m \in 0 .. n : \E F : IsLayers(F, 0 .. m)}
<1>1. 0 \in T
  <2> DEFINE F == [k \in 0 .. 0 |-> layer(0, 0)]
  <2>1. \A k \in 0 .. 0 : k = 0
    OBVIOUS
  <2>2. layer(0, F) = layer(0, 0)
    <3> HIDE DEF F
    <3> QED BY LayerIs
  <2>3. IsLayers(F, 0 .. 0)
    BY <2>1, <2>2 DEF IsLayers
  <2> QED BY <2>3
<1>2. ASSUME NEW m \in 1 .. n, m - 1 \in T
      PROVE  m \in T
  <2>1. PICK F : IsLayers(F, 0 .. m - 1)
    BY <1>2
  <2> DEFINE G == [k \in 0 .. m |-> layer(k, F)]
  <2>2. \A k \in 0 .. m - 1 : G[k] = F[k]
    <3>1. \A k \in 0 .. m - 1 : k \in 0 .. m
      OBVIOUS
    <3>2. \A k \in 0 .. m - 1 : F[k] = layer(k, F)
      BY <2>1 DEF IsLayers
    <3> QED BY <3>1, <3>2
  <2>3. \A k \in 0 .. m : layer(k, G) = layer(k, F)
    <3> SUFFICES ASSUME NEW k \in 0 .. m PROVE layer(k, G) = layer(k, F)
      OBVIOUS
    <3>1. k # 0 => k - 1 \in 0 .. m - 1
      OBVIOUS
    <3>2. k = 0 \/ G[k - 1] = F[k - 1]
      BY <2>2, <3>1
    <3> HIDE DEF G
    <3> QED BY <3>2, LayerIs
  <2>4. IsLayers(G, 0 .. m)
    <3> DEFINE H == [k \in 0 .. m |-> layer(k, G)]
    <3>1. G = H
      <4>1. \A k \in 0 .. m : G[k] = H[k]
        BY <2>3
      <4> QED BY <2>3
    <3> QED BY <3>1 DEF IsLayers
  <2> QED BY <2>4
<1>3. n \in T
  <2>1. n \in 0 .. n
    OBVIOUS
  <2> HIDE DEF T
  <2> QED BY <1>1, <1>2, <2>1, StepByStep
<1> QED BY <1>3

\* Each level of the rendering is made from the one below.
LEMMA StrippedIs ==
    ASSUME NEW n \in Nat
    PROVE  stripped[n] = layer(n, stripped)
<1> DEFINE tower(m) == CHOOSE F : IsLayers(F, 0 .. m)
           S == [m \in Nat |-> tower(m)[m]]
<1>1. \A m \in Nat : IsLayers(tower(m), 0 .. m)
  BY LayersExist
<1> HIDE DEF tower
<1>2. \A m \in Nat : S[m] = layer(m, S)
  <2> SUFFICES ASSUME NEW m \in Nat PROVE S[m] = layer(m, S)
    OBVIOUS
  <2>1. S[m] = layer(m, tower(m))
    <3>1. m \in 0 .. m
      OBVIOUS
    <3>2. tower(m)[m] = layer(m, tower(m))
      BY <1>1, <3>1 DEF IsLayers
    <3> QED BY <3>2
  <2>2. m = 0 \/ S[m - 1] = tower(m)[m - 1]
    <3> SUFFICES ASSUME m # 0 PROVE S[m - 1] = tower(m)[m - 1]
      OBVIOUS
    <3>1. m - 1 \in Nat /\ m - 1 <= m /\ m - 1 \in 0 .. m - 1
      OBVIOUS
    <3>2. tower(m - 1)[m - 1] = tower(m)[m - 1]
      BY <1>1, <3>1, LayersAgree
    <3> QED BY <3>1, <3>2
  <2> HIDE DEF S
  <2>3. layer(m, S) = layer(m, tower(m))
    BY <2>2, LayerIs
  <2> QED BY <2>1, <2>3
<1>3. IsLayers(S, Nat)
  <2> DEFINE H == [m \in Nat |-> layer(m, S)]
  <2>1. S = H
    BY <1>2
  <2> QED BY <2>1 DEF IsLayers
<1>4. stripped = CHOOSE F : IsLayers(F, Nat)
  BY DEF stripped, IsLayers, layer
<1> HIDE DEF S
<1>5. IsLayers(stripped, Nat)
  BY <1>3, <1>4
<1> QED BY <1>5 DEF IsLayers

\* What every level makes of a text is a text.
LEMMA StrippedAreTexts ==
    ASSUME NEW n \in Nat
    PROVE  stripped[n] \in [Seq(Token) -> Seq(Token)]
<1> DEFINE T == {m \in 0 .. n : stripped[m] \in [Seq(Token) -> Seq(Token)]}
           none == <<>>
<1>0. none \in Seq(Token)
  OBVIOUS
<1>1. 0 \in T
  <2>1. stripped[0] = [text \in Seq(Token) |-> none]
    BY StrippedIs DEF layer
  <2> HIDE DEF none
  <2> QED BY <1>0, <2>1
<1>2. ASSUME NEW m \in 1 .. n, m - 1 \in T
      PROVE  m \in T
  <2> DEFINE inner == stripped[m - 1]
  <2>1. inner \in [Seq(Token) -> Seq(Token)]
    BY <1>2
  <2>2. stripped[m] = [text \in Seq(Token) |-> outermost(text, inner)]
    <3>1. m \in Nat /\ m # 0
      OBVIOUS
    <3>2. stripped[m] = layer(m, stripped)
      BY <3>1, StrippedIs
    <3> QED BY <3>1, <3>2 DEF layer
  <2> HIDE DEF inner
  <2>3. \A text \in Seq(Token) : outermost(text, inner) \in Seq(Token)
    BY <2>1, OutermostKeeps
  <2> QED BY <2>2, <2>3
<1>3. n \in T
  <2>1. n \in 0 .. n
    OBVIOUS
  <2> HIDE DEF T
  <2> QED BY <1>1, <1>2, <2>1, StepByStep
<1> QED BY <1>3

\* A template never swallows its neighbours.
LEMMA TextsKeepTheirHeads ==
    ASSUME NEW text \in Seq(Token)
    PROVE  keepsItsHead(text)
<1> DEFINE len == Len(text)
           found == {i \in DOMAIN text : text[i] = opener}
           open == firstOf(found)
           head == IF open = 0 THEN text ELSE SubSeq(text, 1, open - 1)
           n == headLength(text)
           K == loose(text)
           c == Cardinality(K)
           kept == only(head, K)
           out == stripTemplates(text)
<1>1. len \in Nat /\ DOMAIN text = 1 .. len /\ \A m \in 1 .. len : text[m] \in Token
  OBVIOUS
<1>2. open \in 0 .. len
  <2>1. found \in SUBSET (1 .. len)
    BY <1>1
  <2> HIDE DEF found
  <2> QED BY <1>1, <2>1, IndexFound
<1>3. n = IF open = 0 THEN len ELSE open - 1
  BY DEF headLength, firstIndex
<1>4. keepsItsHead(text) <=>
         SubSeq(out, 1, Len(only(head, {j \in DOMAIN head : head[j] # closer}))) =
            only(head, {j \in DOMAIN head : head[j] # closer})
  BY DEF keepsItsHead, firstIndex
<1> HIDE DEF open, n
<1>5. n \in 0 .. len /\ head \in Seq(Token) /\ DOMAIN head = 1 .. n /\ Len(head) = n /\ \A j \in 1 .. n : head[j] = text[j]
  <2>1. CASE open = 0
    BY <1>1, <1>3, <2>1
  <2>2. CASE open # 0
    <3>1. n \in 0 .. len /\ head = SubSeq(text, 1, n)
      BY <1>1, <1>2, <1>3, <2>2
    <3>2. SubSeq(text, 1, n) \in Seq(Token) /\ Len(SubSeq(text, 1, n)) = n /\ DOMAIN SubSeq(text, 1, n) = 1 .. n
      BY <1>1, <3>1
    <3>3. \A j \in 1 .. n : SubSeq(text, 1, n)[j] = text[j]
      BY <1>1, <3>1
    <3> HIDE DEF head, len
    <3> QED BY <3>1, <3>2, <3>3
  <2> QED BY <2>1, <2>2
<1> HIDE DEF head
<1>6. {j \in DOMAIN head : head[j] # closer} = K
  BY <1>5 DEF loose, n
<1>7. K \in SUBSET (1 .. Len(head))
  BY <1>5 DEF loose, n
<1> HIDE DEF K
<1>8. /\ kept \in Seq(Token) /\ c \in Nat /\ Len(kept) = c
      /\ \A k \in 1 .. c : kept[k] = head[nth(K, k)] /\ nth(K, k) \in K /\ rank(K, nth(K, k)) = k - 1
  BY <1>5, <1>7, OnlyIs
<1>9. /\ out \in Seq(Token) /\ c <= Len(out)
      /\ \A i \in K : out[rank(K, i) + 1] = text[i]
  <2> DEFINE inner == stripped[len]
  <2>1. inner \in [Seq(Token) -> Seq(Token)]
    BY <1>1, StrippedAreTexts
  <2>2. out = outermost(text, inner)
    BY DEF stripTemplates
  <2> HIDE DEF inner, out
  <2> QED BY <2>1, <2>2, OutermostKeeps DEF K
<1> HIDE DEF kept, out, c
<1>10. SubSeq(out, 1, c) \in Seq(Token) /\ Len(SubSeq(out, 1, c)) = c /\ \A k \in 1 .. c : SubSeq(out, 1, c)[k] = out[k]
  BY <1>8, <1>9
<1>11. \A k \in 1 .. c : out[k] = kept[k]
  <2> SUFFICES ASSUME NEW k \in 1 .. c PROVE out[k] = kept[k]
    OBVIOUS
  <2> DEFINE i == nth(K, k)
  <2>1. kept[k] = head[i] /\ i \in K /\ rank(K, i) = k - 1
    BY <1>8
  <2> HIDE DEF i
  <2>2. head[i] = text[i]
    BY <1>5, <1>7, <2>1
  <2>3. (k - 1) + 1 = k
    BY <1>8
  <2> QED BY <1>9, <2>1, <2>2, <2>3
<1>12. SubSeq(out, 1, c) = kept
  <2> DEFINE part == SubSeq(out, 1, c)
  <2>1. part \in Seq(Token) /\ Len(part) = Len(kept) /\ \A k \in 1 .. Len(part) : part[k] = kept[k]
    BY <1>8, <1>10, <1>11
  <2> HIDE DEF part
  <2>2. part = kept
    BY <1>8, <2>1, SeqEqual
  <2> QED BY <2>2 DEF part
<1> QED BY <1>4, <1>6, <1>8, <1>12 DEF kept

----------------------------------------------------------------------------
(***************************************************************************)
(* What Build asks of a page's senses, Wikitext gives: texts for glosses,  *)
(* none of them empty, under labels without a bar.                         *)
(***************************************************************************)

\* What reading the links of a text keeps.
LinkState == [out : Seq(Token), inside : BOOLEAN, link : Seq(Token), shown : Seq(Token)]

\* One token more keeps it so.
LEMMA LinksGoOn ==
    ASSUME NEW acc \in LinkState, NEW t \in Token
    PROVE  readLink(acc, t) \in LinkState
<1> DEFINE none == <<>>
           alone == <<t>>
           held == Append(acc.link, t)
           seen == Append(acc.shown, t)
           put == Append(acc.out, t)
           closed == acc.out \o acc.shown
           in == acc.inside
           opens == t = "[["
           closes == t = "]]"
           cuts == t = "|"
           new == readLink(acc, t)
<1>1. /\ acc.out \in Seq(Token) /\ acc.link \in Seq(Token) /\ acc.shown \in Seq(Token) /\ in \in BOOLEAN
      /\ acc = [out |-> acc.out, inside |-> acc.inside, link |-> acc.link, shown |-> acc.shown]
  BY DEF LinkState
<1>2. /\ none \in Seq(Token) /\ alone \in Seq(Token) /\ held \in Seq(Token)
      /\ seen \in Seq(Token) /\ put \in Seq(Token) /\ closed \in Seq(Token)
  BY <1>1
<1>3. new = CASE ~ in /\ opens -> [acc EXCEPT !.inside = TRUE, !.link = alone, !.shown = none]
              [] in /\ closes -> [acc EXCEPT !.inside = FALSE, !.link = none, !.out = closed]
              [] in /\ ~ closes -> [acc EXCEPT !.link = held, !.shown = IF cuts THEN none ELSE seen]
              [] OTHER -> [acc EXCEPT !.out = put]
  BY DEF readLink
<1> HIDE DEF none, alone, held, seen, put, closed, opens, closes, cuts, new, in
<1>4. CASE ~ in /\ opens
  <2>1. new = [acc EXCEPT !.inside = TRUE, !.link = alone, !.shown = none]
    BY <1>3, <1>4
  <2> QED BY <1>1, <1>2, <2>1 DEF LinkState, new
<1>5. CASE in /\ closes
  <2>1. new = [acc EXCEPT !.inside = FALSE, !.link = none, !.out = closed]
    BY <1>3, <1>5
  <2> QED BY <1>1, <1>2, <2>1 DEF LinkState, new
<1>6. CASE in /\ ~ closes
  <2>1. new = [acc EXCEPT !.link = held, !.shown = IF cuts THEN none ELSE seen]
    BY <1>3, <1>6
  <2> QED BY <1>1, <1>2, <2>1 DEF LinkState, new
<1>7. CASE ~ in /\ ~ opens
  <2>1. new = [acc EXCEPT !.out = put]
    BY <1>3, <1>7
  <2> QED BY <1>1, <1>2, <2>1 DEF LinkState, new
<1> QED BY <1>4, <1>5, <1>6, <1>7

\* A text with its links read is a text.
LEMMA LinksAreTexts ==
    ASSUME NEW text \in Seq(Token)
    PROVE  stripLinks(text) \in Seq(Token)
<1> DEFINE start == [out |-> <<>>, inside |-> FALSE, link |-> <<>>, shown |-> <<>>]
           F == Loop("links", 0, start, text)
           len == Len(text)
           T == {m \in 0 .. len : F[1 .. m] \in LinkState}
<1>1. len \in Nat /\ DOMAIN text = 1 .. len
  OBVIOUS
<1>2. FoldLeft(readLink, start, text) = F[1 .. len]
  BY <1>1, FoldsAreLoops
<1>3. F[1 .. 0] = start /\ \A m \in 1 .. len : F[1 .. m] = readLink(F[1 .. m - 1], text[m])
  <2> HIDE DEF start
  <2>1. F[1 .. 0] = start /\ \A m \in 1 .. len : F[1 .. m] = round("links", 0, F[1 .. m - 1], text[m])
    BY <1>1, LoopGoesOn
  <2>2. \A acc, x : round("links", 0, acc, x) = readLink(acc, x)
    BY DEF round
  <2> HIDE DEF F
  <2> QED BY <2>1, <2>2
<1>4. start \in LinkState
  <2>1. <<>> \in Seq(Token)
    OBVIOUS
  <2> QED BY <2>1 DEF LinkState
<1> HIDE DEF F, start
<1>5. 0 \in T
  BY <1>1, <1>3, <1>4
<1>6. ASSUME NEW m \in 1 .. len, m - 1 \in T
      PROVE  m \in T
  <2>1. text[m] \in Token
    OBVIOUS
  <2> QED BY <1>3, <1>6, <2>1, LinksGoOn
<1>7. len \in T
  <2>1. len \in 0 .. len
    BY <1>1
  <2> HIDE DEF T, len
  <2> QED BY <1>1, <1>5, <1>6, <2>1, StepByStep
<1> DEFINE end == F[1 .. len]
<1>8. end \in LinkState
  BY <1>7
<1>9. stripLinks(text) = end.out \o end.link
  BY <1>2 DEF stripLinks, start
<1> HIDE DEF end
<1>10. end.out \in Seq(Token) /\ end.link \in Seq(Token)
  BY <1>8 DEF LinkState
<1> QED BY <1>9, <1>10

\* So is what is left of a definition.
LEMMA GlossIsAText ==
    ASSUME NEW text \in Seq(Token)
    PROVE  stripWikitext(text) \in Seq(Token)
<1> DEFINE bare == stripTemplates(text)
           plain == stripLinks(bare)
<1>1. bare \in Seq(Token)
  <2> DEFINE inner == stripped[Len(text)]
  <2>1. inner \in [Seq(Token) -> Seq(Token)]
    BY StrippedAreTexts
  <2>2. bare = outermost(text, inner)
    BY DEF stripTemplates
  <2> HIDE DEF inner, bare
  <2> QED BY <2>1, <2>2, OutermostKeeps
<1> HIDE DEF bare
<1>2. plain \in Seq(Token)
  BY <1>1, LinksAreTexts
<1> HIDE DEF plain
<1>3. stripWikitext(text) = unlessEmpty(plain)
  BY DEF stripWikitext, plain, bare
<1>4. <<>> \in Seq(Token)
  OBVIOUS
<1> QED BY <1>2, <1>3, <1>4 DEF unlessEmpty

\* No heading makes a label of something else.
LEMMA HeadingsAreLabels ==
    ASSUME NEW line \in WikiLine, NEW pos \in Label
    PROVE  classifyHeading(line, pos) \in Label
<1> DEFINE none == <<>>
<1>1. none \in Label
  BY DEF Label, ToSet
<1>2. \A code : posLabel(code) \in Label
  BY <1>1, LabelsAssumption DEF posLabel
<1> HIDE DEF none
<1>3. \A old, code : old \in Label => label(old, code) \in Label
  <2> SUFFICES ASSUME NEW old \in Label, NEW code PROVE label(old, code) \in Label
    OBVIOUS
  <2>1. label(old, code) \in {old, none, posLabel(code)}
    BY Zenon DEF label, none
  <2> QED BY <1>1, <1>2, <2>1
<1>4. CASE line.kind = "codes"
  <2> DEFINE list == line.codes
             len == Len(list)
             told == {i \in 1 .. len : list[i] # "dfn"}
  <2>1. list \in Seq(Token)
    BY <1>4 DEF WikiLine
  <2>2. len \in Nat /\ DOMAIN list = 1 .. len
    BY <2>1
  <2>3. classifyHeading(line, pos) = FoldLeft(label, pos, list)
    BY <1>4 DEF classifyHeading
  <2>4. FoldLeft(label, pos, list) = IF told = {} THEN pos ELSE label(none, list[Max(told)])
    BY <2>2, LastCodeDecides DEF none
  <2> QED BY <1>1, <1>3, <2>3, <2>4
<1>5. CASE line.kind # "codes"
  <2>1. classifyHeading(line, pos) \in {pos, label(pos, line.code), posLabel(line.code)}
    BY <1>5 DEF classifyHeading
  <2> QED BY <1>2, <1>3, <2>1
<1> QED BY <1>4, <1>5

\* A walk over lines of a wiki makes senses, under a label.
LEMMA WalkMakesSenses ==
    ASSUME NEW at, NEW cut, NEW from \in Nat, NEW till \in Int, till >= from - 1,
           IsWalk(at, cut, from, till), \A i \in from .. till : cut[i] \in WikiLine
    PROVE  at[till].senses \in Seq(Sense)
<1> DEFINE none == <<>>
           T == {x \in from - 1 .. till : at[x].pos \in Label /\ at[x].senses \in Seq(Sense)}
<1>1. none \in Label /\ none \in Seq(Sense)
  BY DEF Label, ToSet
<1>2. at[from - 1].pos = none /\ at[from - 1].senses = none
  BY DEF IsWalk
<1> HIDE DEF none
<1>3. from - 1 \in T
  <2>1. from - 1 \in from - 1 .. till
    OBVIOUS
  <2> QED BY <1>1, <1>2, <2>1
<1>4. ASSUME NEW x \in from .. till, x - 1 \in T
      PROVE  x \in T
  <2> DEFINE pos == at[x - 1].pos
             senses == at[x - 1].senses
             line == cut[x]
             gloss == stripWikitext(line.text)
             more == Append(senses, [pos |-> pos, gloss |-> gloss])
  <2>1. pos \in Label /\ senses \in Seq(Sense) /\ line \in WikiLine /\ x \in from - 1 .. till
    BY <1>4
  <2>2. /\ at[x].pos = classifyHeading(line, pos)
        /\ at[x].senses = IF line.kind = "item" THEN addSense(senses, pos, gloss) ELSE senses
    <3>1. at[x] = define(at[x - 1], cut[x])
      BY DEF IsWalk
    <3>2. \A acc, y : /\ define(acc, y).pos = classifyHeading(y, acc.pos)
                      /\ define(acc, y).senses =
                            IF y.kind = "item" THEN addSense(acc.senses, acc.pos, stripWikitext(y.text))
                            ELSE acc.senses
      BY DEF define
    <3> QED BY <3>1, <3>2
  <2>3. line.kind = "item" => gloss \in Seq(Token)
    <3> SUFFICES ASSUME line.kind = "item" PROVE gloss \in Seq(Token)
      OBVIOUS
    <3>1. line.text \in Seq(Token)
      BY <2>1 DEF WikiLine
    <3> HIDE DEF line
    <3> QED BY <3>1, GlossIsAText
  <2>4. addSense(senses, pos, gloss) = IF gloss = none \/ Len(senses) >= maxSenses THEN senses ELSE more
    BY DEF addSense, none
  <2>5. line.kind = "item" /\ gloss # none => more \in Seq(Sense)
    <3> SUFFICES ASSUME line.kind = "item", gloss # none PROVE more \in Seq(Sense)
      OBVIOUS
    <3> DEFINE s == [pos |-> pos, gloss |-> gloss]
    <3> HIDE DEF gloss, pos, senses
    <3>1. s \in Sense
      BY <2>1, <2>3 DEF Sense, none
    <3> HIDE DEF s
    <3>2. Append(senses, s) \in Seq(Sense)
      BY <2>1, <3>1
    <3> QED BY <3>2 DEF s
  <2> HIDE DEF more, gloss, line, pos, senses
  <2>6. at[x].pos \in Label
    BY <2>1, <2>2, HeadingsAreLabels
  <2>7. at[x].senses \in Seq(Sense)
    BY <2>1, <2>2, <2>4, <2>5
  <2> QED BY <2>1, <2>6, <2>7
<1>5. till \in T
  <2>1. from - 1 \in Int /\ from - 1 <= till /\ \A x : x \in (from - 1) + 1 .. till <=> x \in from .. till
    OBVIOUS
  <2>2. \A x \in from - 1 .. till : x \in T
    <3> HIDE DEF T
    <3> QED BY <1>3, <1>4, <2>1, StepsBetween
  <2>3. till \in from - 1 .. till
    OBVIOUS
  <2> HIDE DEF T
  <2> QED BY <2>2, <2>3
<1> QED BY <1>5

\* What Wikitext reads on any page, of any length and with any markup, is what a build may
\* be given: no sense without a gloss, and no label that the corpus could not be cut after.
\* Build assumes it of the senses it is given (BuildAssumption).
THEOREM PagesGiveSenses == \A text \in Text : pageSenses(text) \in Seq(Sense)
<1> SUFFICES ASSUME NEW lines \in Text PROVE pageSenses(lines) \in Seq(Sense)
  OBVIOUS
<1>1. lines \in Seq(WikiLine)
  BY WikiAssumption
<1> DEFINE part == vietnameseSection(lines)
           cut == markerCut(lines)
<1>2. pageSenses(lines) = definitions(part)
  BY DEF pageSenses
<1>3. CASE dialectOf(lines) = "none"
  <2>1. part = <<>>
    BY <1>3 DEF vietnameseSection
  <2> DEFINE none == <<>>
  <2>2. DOMAIN none = 1 .. 0 /\ none \in Seq(Sense)
    OBVIOUS
  <2> HIDE DEF part
  <2>3. \E F : F[1 .. 0].senses = none /\ definitions(none) = F[1 .. 0].senses
    <3>1. 0 \in Nat
      OBVIOUS
    <3> HIDE DEF none
    <3> QED BY <2>2, <3>1, LinesLoop DEF none
  <2> QED BY <1>2, <2>1, <2>2, <2>3
<1>4. CASE dialectOf(lines) # "none"
  <2>1. PICK from \in Nat, till \in Nat : IsSection(lines, part, sectionLines(lines), from, till)
    BY <1>1, <1>4, SectionIs
  <2>2. cut \in Seq(WikiLine) /\ Len(cut) = Len(lines)
    BY <1>1, MarkerCutIs
  <2>3. /\ opening(lines) \in 1 .. Len(lines) /\ from \in {opening(lines), opening(lines) + 1}
        /\ till \in from - 1 .. Len(lines)
        /\ DOMAIN part = 1 .. till - from + 1
        /\ \A k \in 1 .. till - from + 1 : part[k] = cut[from + k - 1]
    <3> HIDE DEF part
    <3> QED BY <2>1 DEF IsSection
  <2> HIDE DEF part, cut
  <2>4. till >= from - 1 /\ till \in Int /\ \A i \in from .. till : i \in 1 .. Len(cut)
    BY <1>1, <2>2, <2>3
  <2>5. \A i \in from .. till : cut[i] \in WikiLine
    BY <2>2, <2>4
  <2>6. PICK at : IsWalk(at, cut, from, till) /\ definitions(part) = at[till].senses
    BY <2>3, <2>4, DefinitionsWalk
  <2>7. at[till].senses \in Seq(Sense)
    BY <2>4, <2>5, <2>6, WalkMakesSenses
  <2> QED BY <1>2, <2>6, <2>7
<1> QED BY <1>3, <1>4

----------------------------------------------------------------------------
(***************************************************************************)
(* What stands under a page is read at every build, killed ones included.  *)
(***************************************************************************)

\* Only pages of the dumps are ever read.
PagesAreRead == pages \in Seq(Page)

\* It holds at the start and stays: a build reads the next dump, or none.
THEOREM PagesAreReadAlways == Spec => []PagesAreRead
<1>1. Init => PagesAreRead
  <2>1. <<>> \in Seq(Page)
    OBVIOUS
  <2> QED BY <2>1 DEF Init, PagesAreRead
<1>2. BuildInv /\ PagesAreRead /\ [Next]_vars => PagesAreRead'
  <2> SUFFICES ASSUME BuildInv, PagesAreRead, [Next]_vars
               PROVE  pages' \in Seq(Page)
    BY DEF PagesAreRead
  <2>1. <<>> \in Seq(Page)
    OBVIOUS
  <2>2. CASE runFromDump
    <3>1. PICK dump \in Dumps[builds + 1] : pages' = dump
      BY <2>2 DEF runFromDump, begin
    <3>2. builds + 1 \in 1 .. Len(Dumps)
      BY <2>2, BuildAssumption DEF runFromDump, BuildInv, StagesFollow
    <3>3. Dumps[builds + 1] \subseteq Seq(Page)
      BY <3>2, BuildAssumption
    <3> QED BY <3>1, <3>3
  <2>3. CASE runFromCorpus \/ runFromWordList
    BY <2>1, <2>3 DEF runFromCorpus, runFromWordList, begin
  <2>4. CASE UNCHANGED pages
    BY <2>4 DEF PagesAreRead
  <2> QED BY <2>2, <2>3, <2>4 DEF Next, vars, buildAliases, create, fill, move, verify, to, ends,
                createCorpus, flushCorpus, moveCorpus, ioError, killed
<1> QED BY <1>1, <1>2, BuildInvariance, PTL DEF Spec

\* Whatever pages a dump has, of any length and with any templates in one another, each
\* sense stands under the heading nearest above it in the Vietnamese section, nothing of
\* another section is taken, and no template swallows what stands before it.
THEOREM SensesStandInTheSectionAlways == Spec => []SensesStandInTheSection
<1>1. PagesAreRead => SensesStandInTheSection
  <2> SUFFICES ASSUME PagesAreRead, NEW n \in DOMAIN pages, dialectOf(pages[n].lines) # "none"
               PROVE  /\ sensesInPlace(pages[n].lines)
                      /\ \A i \in glossLines(pages[n].lines) : keepsItsHead(pages[n].lines[i].text)
    BY DEF SensesStandInTheSection
  <2> DEFINE lines == pages[n].lines
  <2>1. lines \in Seq(WikiLine)
    <3>1. pages[n] \in Page
      BY DEF PagesAreRead
    <3>2. lines \in Text
      BY <3>1 DEF Page
    <3> QED BY <3>2, WikiAssumption
  <2> HIDE DEF lines
  <2>2. sensesInPlace(lines)
    BY <2>1, SensesAreInPlace DEF lines
  <2>3. ASSUME NEW i \in glossLines(lines)
        PROVE  keepsItsHead(lines[i].text)
    <3>1. i \in DOMAIN lines /\ lines[i].kind = "item"
      BY DEF glossLines, sectionLines
    <3>2. lines[i] \in WikiLine
      BY <2>1, <3>1
    <3>3. lines[i].text \in Seq(Token)
      BY <3>1, <3>2 DEF WikiLine
    <3> QED BY <3>3, TextsKeepTheirHeads
  <2> QED BY <2>2, <2>3 DEF lines
<1> QED BY <1>1, PagesAreReadAlways, PTL
=============================================================================
