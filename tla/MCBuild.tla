------------------------------- MODULE MCBuild -------------------------------
(***************************************************************************)
(* Build.tla for a wiki of a few words.  "hoá lí" has four spellings, any  *)
(* of which the wiki may have a page for; "li hoá" links them, and "hoàn   *)
(* lí" has a closed syllable whose tone does not move.  The first build    *)
(* reads one page of any three lines, or several pages of fixed text; the  *)
(* second may read the corpus the first exported, or another dump.         *)
(***************************************************************************)
EXTENDS WikiBuild, Spelling

letter(base, tone) == [base |-> base, mark |-> FALSE, tone |-> tone]
hoaNew == <<letter("h", 0), letter("o", 0), letter("a", 2)>>
hoaOld == <<letter("h", 0), letter("o", 2), letter("a", 0)>>
li == <<letter("l", 0), letter("i", 2)>>
ly == <<letter("l", 0), letter("y", 2)>>
hoan == <<letter("h", 0), letter("o", 0), letter("a", 1), letter("n", 0)>>

Fourfold == {<<hoaNew, li>>, <<hoaNew, ly>>, <<hoaOld, li>>, <<hoaOld, ly>>}
MCWords == Fourfold \cup {<<li, hoaNew>>, <<hoan, li>>}
MCSpelling == UNION {{w} \cup otherSpellings(w) : w \in MCWords}

codes(list) == [kind |-> "codes", codes |-> list]
heading(level, code) == [kind |-> "heading", level |-> level, code |-> code]
item(text) == [kind |-> "item", text |-> text]

MCLines ==
    {codes(<<"vie">>), codes(<<"vie", "noun">>), codes(<<"noun">>), codes(<<"pron">>),
     codes(<<"dfn">>), codes(<<"eng">>), heading(2, "vi"), heading(2, "en"),
     heading(3, "verb"), [kind |-> "headword", code |-> "noun"], [kind |-> "other"],
     item(<<"}}", "x", "|", "{{", "lb", "|", "vi", "|", "y", "}}", "z">>)}

\* Every kind of markup a definition may hold.
Items ==
    {item(<<"{{", "img", "|", "{{", "l", "|", "a", "}}", "}}">>),
     item(<<"[[", "a", "|", "b", "]]", "{{", "l", "|", "vi", "|", "[[", "c", "|", "d", "]]", "}}">>),
     item(<<"{{", "see-entry", "|", "a", "|", "k=v", "}}", "[[", "b">>),
     item(<<"a", "{{", "lb", "|", "b">>)}

plainText == <<heading(2, "vi"), item(<<"x", "|", "y">>)>>
twoSenses == <<codes(<<"vie", "noun">>), item(<<"b">>), item(<<"c">>)>>
noSense == <<codes(<<"vie">>)>>
MCText ==
    [1..3 -> MCLines]
    \cup {<<codes(<<"vie", "noun">>), i, j>> : i, j \in Items}
    \cup {<<heading(2, "vi"), heading(3, "verb"), mark, mark2, item(<<"x">>)>> :
            mark, mark2 \in {codes(<<"vie">>), codes(<<"vie", "noun">>), codes(<<"dfn">>)}}
    \cup {plainText, twoSenses, noSense}

page(word, lines) == [ns |-> 0, redirect |-> FALSE, word |-> word, lines |-> lines]

OnePage == {<<page(<<li, hoaNew>>, text)>> : text \in MCText}
ManyPages ==
    {[i \in 1..Cardinality(some) |-> page(SetToSeq(some)[i], plainText)] :
        some \in {s \in SUBSET MCWords : Cardinality(s) >= 3}}
    \cup {<<page(<<li, hoaNew>>, plainText), page(<<>>, plainText),
            [page(<<hoan, li>>, plainText) EXCEPT !.redirect = TRUE],
            [page(<<hoan, li>>, plainText) EXCEPT !.ns = 4],
            page(<<li, hoaNew>>, twoSenses),
            page(<<hoaNew, li>>, noSense)>>}

MCDumps == <<OnePage \cup ManyPages, {<<page(<<hoan, li>>, plainText)>>}>>
MCLists == <<{<<[word |-> <<hoan, li>>, cells |-> <<<<"a">>>>],
               [word |-> <<>>, cells |-> <<>>],
               [word |-> <<hoan, li>>, cells |-> <<<<>>, <<"b", "|", "c">>>>]>>}, {}>>
=============================================================================
