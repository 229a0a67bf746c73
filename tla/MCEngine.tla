------------------------------ MODULE MCEngine ------------------------------
(***************************************************************************)
(* A dictionary of four words over three syllables.  "c" starts no word,   *)
(* so bc is a dead end as soon as it is played; the rest can be used up,   *)
(* which makes dead ends too.  sab is a spelling of ab whose own first     *)
(* syllable is not a, as "sỹ hai" is of "sĩ hai".                          *)
(***************************************************************************)
EXTENDS Engine

CONSTANTS p1, p2, p3, p4

MCPlayer == {p1, p2, p3, p4}
MCTables == {<<p1, p2>>, <<p1, p2, p3>>, <<p1, p2, p3, p4>>}
MCSyllable == {"a", "b", "c"}
MCWord == {"ab", "ba", "bb", "bc"}
MCFirst == [ab |-> "a", ba |-> "b", bb |-> "b", bc |-> "b"]
MCLast == [ab |-> "b", ba |-> "a", bb |-> "b", bc |-> "c"]
MCTyped == MCWord \cup {"sab", "a", "zz"}
MCSyllables == [t \in MCTyped |-> CASE t = "sab" -> 3 [] t = "a" -> 1 [] OTHER -> 2]
MCResolve ==
    [t \in MCTyped |-> CASE t \in MCWord -> t [] t = "sab" -> "ab" [] OTHER -> NoWord]
=============================================================================
