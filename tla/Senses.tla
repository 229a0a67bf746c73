-------------------------------- MODULE Senses --------------------------------
(***************************************************************************)
(* The meanings of a word, as the builder hands them on: a sense is the    *)
(* label of the part of speech it stands under, or none, and a gloss,      *)
(* texts both; a text is a sequence of tokens.  A gloss is never empty,    *)
(* and a label never holds the bar that parts the two in a list.           *)
(***************************************************************************)
EXTENDS Integers, SequencesExt

CONSTANT maxSenses

ASSUME SensesAssumption == maxSenses \in Nat \ {0}

Token == STRING
bar == "|"

Label == {p \in Seq(Token) : bar \notin ToSet(p)}
Sense == {s \in [pos : Label, gloss : Seq(Token)] : s.gloss # <<>>}

capped(senses) == SubSeq(senses, 1, Min({Len(senses), maxSenses}))
=============================================================================
