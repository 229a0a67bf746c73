------------------------------ MODULE WikiBuild ------------------------------
(***************************************************************************)
(* A build that reads a wiki's pages: Build, given Wikitext for what a     *)
(* text says (isVietnamese <- hasVietnamese, sensesOf <- pageSenses).      *)
(***************************************************************************)
EXTENDS Build, Wikitext

\* A line of a page, by what opens it.
WikiLine ==
    [kind : {"codes"}, codes : Seq(Token)]
    \cup [kind : {"heading"}, level : Nat, code : Token]
    \cup [kind : {"headword"}, code : Token]
    \cup [kind : {"item"}, text : Seq(Token)]
    \cup [kind : {"other"}]

ASSUME WikiAssumption == Text \subseteq Seq(WikiLine)

\* A line that sets the label.  "dfn" introduces definitions and sets nothing.
heads(line) ==
    \/ line.kind = "codes" /\ \E i \in DOMAIN line.codes : line.codes[i] # "dfn"
    \/ line.kind = "heading" /\ line.level >= 3 /\ line.code # "dfn"
    \/ line.kind = "headword" /\ line.code \in DOMAIN posLabelMap

\* The lines below the section's opening, up to the first that belongs to another.
sectionLines(lines) ==
    LET opened == {i \in DOMAIN lines : opensLegacy(lines[i]) \/ opensNew(lines[i])}
        start == Min(opened)
        foreign(j) ==
            \/ j > start /\ opensLevel2(lines[j])
            \/ j > start /\ opensLegacy(lines[start]) /\ lines[j].kind = "codes" /\ leavesLegacy(lines[j])
            \/ j = start /\ opensLegacy(lines[j]) /\ leavesLegacy(afterMarker(lines[j]))
    IN  {i \in DOMAIN lines : i > start /\ \A j \in start..i : ~foreign(j)}

\* The lines of the section that give a gloss, and the headings above a line, the
\* marker's own line among them.
glossLines(lines) ==
    {i \in sectionLines(lines) : lines[i].kind = "item" /\ stripWikitext(lines[i].text) # <<>>}
headsAbove(lines, i) ==
    LET inside == sectionLines(lines)
    IN  {j \in inside \cup {Min(inside) - 1} : j < i /\ heads(markerCut(lines)[j])}

\* Each of them makes a sense, up to the cap, under the nearest heading.
sensesInPlace(lines) ==
    LET items == glossLines(lines)
        senses == definitions(vietnameseSection(lines))
    IN  /\ Len(senses) = Min({maxSenses, Cardinality(items)})
        /\ \A k \in DOMAIN senses :
              LET i == nth(items, k)
                  above == headsAbove(lines, i)
              IN  /\ senses[k].gloss = stripWikitext(lines[i].text)
                  /\ senses[k].pos = IF above = {} THEN <<>>
                                     ELSE classifyHeading(lines[Max(above)], <<>>)

\* A template never swallows its neighbours: what stands before the first opener is
\* kept, less the closers that close nothing.
keepsItsHead(text) ==
    LET open == firstIndex(text, LAMBDA t : t = opener)
        head == IF open = 0 THEN text ELSE SubSeq(text, 1, open - 1)
        kept == only(head, {j \in DOMAIN head : head[j] # closer})
    IN  SubSeq(stripTemplates(text), 1, Len(kept)) = kept

\* Where a definition stands decides its label: the nearest heading above it in the
\* Vietnamese section, headings that introduce definitions passed over; and nothing
\* of another language's section is taken.  Said of every page the dump has, against
\* the line numbers of the page itself, the first section marker being no heading.
SensesStandInTheSection ==
    \A n \in DOMAIN pages :
        LET lines == pages[n].lines
        IN  dialectOf(lines) # "none" =>
              /\ sensesInPlace(lines)
              /\ \A i \in glossLines(lines) : keepsItsHead(lines[i].text)
=============================================================================
