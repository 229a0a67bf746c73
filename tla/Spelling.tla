------------------------------- MODULE Spelling -------------------------------
(***************************************************************************)
(* The accepted alternative spellings of a word (build-dictionary/         *)
(* aliases.go).  A word is a sequence of syllables; a syllable, as         *)
(* decompose gives it, is a sequence of clusters: a base letter, whether   *)
(* it carries a mark that makes it another letter, and its tone (0: none). *)
(***************************************************************************)
EXTENDS Integers, SequencesExt

maxVariantsPerWord == 32
nga == 3

shiftablePairs == {<<"o", "a">>, <<"o", "e">>, <<"u", "y">>}
iyOnsets == {<<"h">>, <<"k">>, <<"l">>, <<"m">>, <<"t">>, <<"q", "u">>}
iyPairs == {<<"s">>, <<"v">>}      \* these two alternate with the tone ngã only

bases(syllable) == [i \in DOMAIN syllable |-> syllable[i].base]

\* An open syllable that ends on oa, oe or uy (the u of qu is not of the vowel) may
\* carry its tone on either vowel.  The result is the variant, or nothing.
toneShiftVariant(syllable) ==
    LET n == Len(syllable)
        first == syllable[n - 1]
        second == syllable[n]
        moved == IF first.tone # 0
                 THEN [syllable EXCEPT ![n - 1].tone = 0, ![n].tone = first.tone]
                 ELSE [syllable EXCEPT ![n - 1].tone = second.tone, ![n].tone = 0]
    IN  IF /\ n >= 2
           /\ ~first.mark /\ ~second.mark
           /\ <<first.base, second.base>> \in shiftablePairs
           /\ ~(first.base = "u" /\ n > 2 /\ syllable[n - 2].base = "q")
           /\ first.tone # 0 \/ second.tone # 0
        THEN {moved} ELSE {}

\* A lone i or y after an onset that takes both: the letter changes, the tone stays.
iyVariant(syllable) ==
    LET n == Len(syllable)
        onset == SubSeq(bases(syllable), 1, n - 1)
    IN  IF /\ n >= 2
           /\ \A i \in 1..n : ~syllable[i].mark
           /\ syllable[n].base \in {"i", "y"}
           /\ onset \in iyOnsets \/ (onset \in iyPairs /\ syllable[n].tone = nga)
        THEN {[syllable EXCEPT ![n].base = IF @ = "i" THEN "y" ELSE "i"]} ELSE {}

\* Every accepted spelling of one syllable, itself first.
spellingsOf(syllable) ==
    <<syllable>> \o SetToSeq((toneShiftVariant(syllable) \cup iyVariant(syllable)) \ {syllable})

\* All of a word's syllables are varied together, up to the cap.
combinations(word) ==
    FoldLeft(LAMBDA combos, syllable :
                LET next == FlattenSeq([c \in DOMAIN combos |->
                                [s \in DOMAIN spellingsOf(syllable) |->
                                    Append(combos[c], spellingsOf(syllable)[s])]])
                IN  SubSeq(next, 1, Min({Len(next), maxVariantsPerWord})),
             <<<<>>>>, word)

otherSpellings(word) == ToSet(combinations(word)) \ {word}
=============================================================================
