------------------------------ MODULE AliasTable ------------------------------
(***************************************************************************)
(* buildAliases (cmd/build-dictionary/main.go:368): the table of accepted  *)
(* alternative spellings, built by going through the words in whatever     *)
(* order Go's map iteration gives.  Go randomizes that order, so the table *)
(* a build ships must not depend on it.                                    *)
(***************************************************************************)
CONSTANTS
    Spelling,           \* normalized words, in the dictionary or not
    variantsFor(_)      \* the other accepted spellings of a word

ASSUME VariantsAssumption ==
    \A w \in Spelling : variantsFor(w) \subseteq Spelling /\ w \notin variantsFor(w)

VARIABLES
    words,          \* the accepted words
    todo,           \* those the loop has not come to
    aliases,        \* variant to canonical word, as a set of pairs
    poisoned        \* variants that more than one word has claimed

aliasVars == <<words, todo, aliases, poisoned>>

AliasInit(accepted) ==
    /\ words = accepted
    /\ todo = accepted
    /\ aliases = {}
    /\ poisoned = {}

taken(v) == \E w \in words : <<v, w>> \in aliases

\* Of one word's variants: those another word has claimed before, and those nobody has.
\* Poisoned variants and real words are passed over.
second(w) == {v \in variantsFor(w) : v \notin poisoned \cup words /\ taken(v)}
fresh(w) == {v \in variantsFor(w) : v \notin poisoned \cup words /\ ~taken(v)}

\* Mutant of claim: a variant claimed twice is deleted and not remembered.
claimForgetful(w) ==
    /\ w \in todo
    /\ todo' = todo \ {w}
    /\ aliases' = {a \in aliases : a[1] \notin second(w)} \cup {<<v, w>> : v \in fresh(w)}
    /\ UNCHANGED <<words, poisoned>>

\* One turn of the outer loop: a word claims its variants.  They are distinct, so
\* their order among themselves makes no difference.
claim(w) ==
    /\ w \in todo
    /\ todo' = todo \ {w}
    /\ aliases' = {a \in aliases : a[1] \notin second(w)} \cup {<<v, w>> : v \in fresh(w)}
    /\ poisoned' = poisoned \cup second(w)
    /\ UNCHANGED words

AliasNext == \E w \in todo : claim(w)
AliasSpec == (\E accepted \in SUBSET Spelling : AliasInit(accepted)) /\ [][AliasNext]_aliasVars

----------------------------------------------------------------------------
claimants(v) == {w \in words \ todo : v \in variantsFor(w)}

\* The table never depends on the order: at every point of the loop it holds the
\* variants that are no words and that exactly one of the words gone through claims.
TableIsOrderFree ==
    aliases = {a \in Spelling \X words :
                  a[1] \notin words /\ claimants(a[1]) = {a[2]}}
=============================================================================
