-------------------------------- MODULE Store --------------------------------
(***************************************************************************)
(* The derived database: what the builder's transaction writes (writeTo,   *)
(* build-dictionary/main.go) and what the server's Open makes of a file    *)
(* (internal/dictionary/store.go).  A word is a sequence of syllables,     *)
(* meanings a function from words to sequences of senses, aliases a set of *)
(* pairs.  A file whose transaction never committed has the tables and no  *)
(* rows.                                                                   *)
(***************************************************************************)
EXTENDS Integers, SequencesExt

first(word) == Head(word)
lastOf(word) == Last(word)

startingWith(words, syllable) == {w \in words : first(w) = syllable}

\* Every syllable at either end of a word, with the number of words it starts: zero
\* for the dead ends.
outDegrees(words) ==
    [syllable \in {first(w) : w \in words} \cup {lastOf(w) : w \in words} |->
        Cardinality(startingWith(words, syllable))]

senseCount(meanings) ==
    FoldLeft(LAMBDA n, w : n + Len(meanings[w]), 0, SetToSeq(DOMAIN meanings))

database(words, meanings, aliases) ==
    [words |-> words, meanings |-> meanings, aliases |-> aliases,
     outDegree |-> outDegrees(words),
     meta |-> [word_count |-> Cardinality(words), meaning_count |-> senseCount(meanings)]]

NoMeta == [word_count |-> -1, meaning_count |-> -1]
uncommitted ==
    [words |-> {}, meanings |-> <<>>, aliases |-> {}, outDegree |-> <<>>, meta |-> NoMeta]

\* Open: the rows of meta are there, and the rows loaded are those they declare.
validate(db) ==
    /\ Cardinality(db.words) = db.meta.word_count
    /\ db.words # {}
    /\ senseCount(db.meanings) = db.meta.meaning_count
    /\ DOMAIN db.meanings \subseteq db.words
    /\ \A syllable \in DOMAIN db.outDegree :
          Cardinality(startingWith(db.words, syllable)) = db.outDegree[syllable]
    /\ \A a \in db.aliases : a[2] \in db.words

Open(db) == db.meta # NoMeta /\ validate(db)

\* A word is its own canonical form; an alias resolves to the word behind it.
Resolve(db, spelling) ==
    IF spelling \in db.words THEN {spelling}
    ELSE {a[2] : a \in {b \in db.aliases : b[1] = spelling}}

\* The words a game may open with, sorted by the continuations of their last syllable,
\* most first, so that the eligible ones are a prefix.  The sort is stable: a word comes
\* behind those with more continuations and those with as many that were loaded before.
openers(db) ==
    LET loaded == SetToSeq({w \in db.words : db.outDegree[lastOf(w)] > 0})
        degree(i) == db.outDegree[lastOf(loaded[i])]
        ahead(i) == {j \in DOMAIN loaded :
                        degree(j) > degree(i) \/ (degree(j) = degree(i) /\ j < i)}
    IN  [k \in DOMAIN loaded |->
            loaded[CHOOSE i \in DOMAIN loaded : Cardinality(ahead(i)) = k - 1]]

pickOpeningWord(db, minOutDegree) ==
    LET sorted == openers(db)
        short == {i \in DOMAIN sorted : db.outDegree[lastOf(sorted[i])] < minOutDegree}
        n == IF short = {} THEN Len(sorted) ELSE Min(short) - 1
    IN  {sorted[i] : i \in 1..n}
=============================================================================
