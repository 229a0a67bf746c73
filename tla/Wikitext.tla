------------------------------- MODULE Wikitext -------------------------------
(***************************************************************************)
(* One page of the wiki (build-dictionary/wikitext.go): where its          *)
(* Vietnamese section is, which heading each definition stands under, and  *)
(* what is left of a definition once its markup is gone.                   *)
(*                                                                         *)
(* A page is a sequence of lines:                                          *)
(*   [kind |-> "codes", codes |-> <<"vie", "noun">>]  a line of {{-code-}} *)
(*   [kind |-> "heading", level |-> 2, code |-> "vi"] == {{langname|vi}} ==*)
(*   [kind |-> "heading", level |-> 3, code |-> "noun"]                    *)
(*   [kind |-> "headword", code |-> "noun"]           {{vi-noun}}          *)
(*   [kind |-> "item", text |-> <<...>>]              # text               *)
(*   [kind |-> "other"]                               anything else        *)
(* and the text of an item a sequence of tokens: "{{", "}}", "[[", "]]",   *)
(* "|", "k=v" (a named parameter), the names of templates, and words.      *)
(***************************************************************************)
EXTENDS Senses

\* Standing for the maps of heading codes and labels, and for the templates.
posLabelMap == [noun |-> <<"danh tu">>, verb |-> <<"dong tu">>]
otherSectionCodes == {"pron", "dfn"}
labelTemplates == {<<"lb">>}
linkTemplates == {<<"l">>}
crossReferences == {<<"see-entry">>}
isLangCode(p) == p = <<"vi">>

\* No label holds the bar that parts it from its gloss in the corpus.
ASSUME LabelsAssumption == \A code \in DOMAIN posLabelMap : posLabelMap[code] \in Label

isLegacyHeading(code) == code \in DOMAIN posLabelMap \cup otherSectionCodes

----------------------------------------------------------------------------
(* The section *)

firstOf(found) == IF found = {} THEN 0 ELSE Min(found)
firstIndex(lines, Test(_)) == firstOf({i \in DOMAIN lines : Test(lines[i])})

opensLegacy(line) == line.kind = "codes" /\ Contains(line.codes, "vie")
opensLevel2(line) == line.kind = "heading" /\ line.level = 2
opensNew(line) == opensLevel2(line) /\ line.code = "vi"
leavesLegacy(line) ==
    \/ line.kind = "codes" /\ \E i \in DOMAIN line.codes : ~isLegacyHeading(line.codes[i])
    \/ opensLevel2(line)

upTo(lines, Test(_)) ==
    LET i == firstIndex(lines, Test) IN IF i = 0 THEN lines ELSE SubSeq(lines, 1, i - 1)

\* What stands on the marker's own line after {{-vie-}} belongs to the section.
afterMarker(line) ==
    LET i == firstIndex(line.codes, LAMBDA code : code = "vie")
    IN  [line EXCEPT !.codes = SubSeq(@, i + 1, Len(@))]

legacySection(lines, at) ==
    upTo(<<afterMarker(lines[at])>> \o SubSeq(lines, at + 1, Len(lines)), leavesLegacy)

newSection(lines, at) == upTo(SubSeq(lines, at + 1, Len(lines)), opensLevel2)

\* Which dialect opens the page's Vietnamese section; the first in the text wins.
dialectOf(lines) ==
    LET legacyAt == firstIndex(lines, opensLegacy)
        newAt == firstIndex(lines, opensNew)
    IN  CASE legacyAt = 0 /\ newAt = 0 -> "none"
          [] legacyAt # 0 /\ (newAt = 0 \/ legacyAt < newAt) -> "legacy"
          [] OTHER -> "new"

\* The first marker is cut out of its line, whichever dialect wins.
markerCut(lines) ==
    LET at == firstIndex(lines, opensLegacy)
    IN  IF at = 0 THEN lines ELSE [lines EXCEPT ![at] = afterMarker(@)]

vietnameseSection(lines) ==
    CASE dialectOf(lines) = "none" -> <<>>
      [] dialectOf(lines) = "legacy" -> legacySection(lines, firstIndex(lines, opensLegacy))
      [] dialectOf(lines) = "new" -> newSection(markerCut(lines), firstIndex(lines, opensNew))

----------------------------------------------------------------------------
(* The text of a definition *)

\* What opens a template, and what closes it.
opener == "{{"
closer == "}}"

\* The k-th of a set of indices, and the elements that stand there, in their order.
nth(indices, k) == CHOOSE i \in indices : Cardinality({j \in indices : j < i}) = k - 1
only(seq, indices) == [k \in 1..Cardinality(indices) |-> seq[nth(indices, k)]]

\* The body of a template, cut at the bars that are in no nested template or link.
split(acc, t) ==
    CASE t \in {opener, "[["} -> [acc EXCEPT !.depth = @ + 1, !.part = Append(@, t)]
      [] t \in {closer, "]]"} -> [acc EXCEPT !.depth = IF @ > 0 THEN @ - 1 ELSE 0,
                                           !.part = Append(@, t)]
      [] t = "|" /\ acc.depth = 0 -> [acc EXCEPT !.parts = Append(@, acc.part), !.part = <<>>]
      [] OTHER -> [acc EXCEPT !.part = Append(@, t)]
splitTemplate(body) ==
    LET end == FoldLeft(split, [parts |-> <<>>, part |-> <<>>, depth |-> 0], body)
    IN  Append(end.parts, end.part)

dropLang(params) == IF Len(params) > 1 /\ isLangCode(params[1]) THEN Tail(params) ELSE params

\* Positional parameters only: a named one is markup, unless its text holds some.
isPositional(p) == Contains(p, "k=v") => Contains(p, "[[") \/ Contains(p, opener)
positional(parts) == only(parts, {i \in 2..Len(parts) : isPositional(parts[i])})

\* A template that carries no definition text is dropped whole.
join(joined, p) == joined \o p
renderTemplate(name, params) ==
    CASE name \in labelTemplates -> FoldLeft(join, <<>>, dropLang(params))
      [] name \in linkTemplates -> IF params = <<>> THEN <<>> ELSE Last(dropLang(params))
      [] name \in crossReferences -> IF params = <<>> THEN <<>> ELSE params[1]
      [] OTHER -> <<>>

\* What a template's body becomes, given what its parameters become.
rendered(body, inner) ==
    LET parts == splitTemplate(body)
        params == positional(parts)
    IN  renderTemplate(parts[1], [i \in DOMAIN params |-> inner[params[i]]])

\* Nesting is followed by depth: a closer with nothing open is stray, and what opens
\* and never closes is lost.  Tokens at depth 0 are kept; each outermost template is
\* replaced by its rendering.
scan(acc, t, inner) ==
    CASE t = opener -> [acc EXCEPT !.depth = @ + 1, !.body = IF acc.depth = 0 THEN <<>> ELSE Append(@, t)]
      [] t = closer /\ acc.depth = 0 -> acc
      [] t = closer /\ acc.depth = 1 -> [acc EXCEPT !.depth = 0, !.out = @ \o rendered(acc.body, inner)]
      [] t = closer /\ acc.depth > 1 -> [acc EXCEPT !.depth = @ - 1, !.body = Append(@, t)]
      [] OTHER -> IF acc.depth = 0 THEN [acc EXCEPT !.out = Append(@, t)]
                  ELSE [acc EXCEPT !.body = Append(@, t)]
outermost(text, inner) ==
    FoldLeft(LAMBDA acc, t : scan(acc, t, inner), [out |-> <<>>, depth |-> 0, body |-> <<>>], text).out

\* Templates nested n deep, rendered from the inside out: a template in a parameter of
\* a kept one is rendered like one of the text.
stripped[n \in Nat] ==
    [text \in Seq(Token) |-> IF n = 0 THEN <<>> ELSE outermost(text, stripped[n - 1])]

\* A text never nests templates deeper than it is long.
stripTemplates(text) == outermost(text, stripped[Len(text)])

\* [[target|shown]] becomes what is shown; a link that is not closed stays as it is.
readLink(acc, t) ==
    CASE ~acc.inside /\ t = "[[" -> [acc EXCEPT !.inside = TRUE, !.link = <<t>>, !.shown = <<>>]
      [] acc.inside /\ t = "]]" -> [acc EXCEPT !.inside = FALSE, !.link = <<>>, !.out = @ \o acc.shown]
      [] acc.inside /\ t # "]]" -> [acc EXCEPT !.link = Append(@, t),
                                               !.shown = IF t = "|" THEN <<>> ELSE Append(@, t)]
      [] OTHER -> [acc EXCEPT !.out = Append(@, t)]
stripLinks(text) ==
    LET end == FoldLeft(readLink, [out |-> <<>>, inside |-> FALSE, link |-> <<>>, shown |-> <<>>], text)
    IN  end.out \o end.link

\* A definition of which no word is left is no definition.
unlessEmpty(plain) == IF ToSet(plain) \subseteq {"[[", "]]", "|"} THEN <<>> ELSE plain
stripWikitext(text) == unlessEmpty(stripLinks(stripTemplates(text)))

----------------------------------------------------------------------------
(* The definitions *)

posLabel(code) == IF code \in DOMAIN posLabelMap THEN posLabelMap[code] ELSE <<>>

\* Mutant of classifyHeading: "dfn" is a heading like the others.
classifyHeadingDfn(line, pos) ==
    LET relabel(old, code) == IF code \in otherSectionCodes THEN <<>> ELSE posLabel(code)
    IN  CASE line.kind = "codes" -> FoldLeft(relabel, pos, line.codes)
          [] line.kind = "heading" /\ line.level >= 3 -> relabel(pos, line.code)
          [] line.kind = "headword" /\ line.code \in DOMAIN posLabelMap -> posLabel(line.code)
          [] OTHER -> pos

\* What a code does to the label: "dfn" stands under a part of speech and changes
\* nothing; any other sets it, or clears it.
label(old, code) ==
    CASE code = "dfn" -> old
      [] code # "dfn" /\ code \in otherSectionCodes -> <<>>
      [] OTHER -> posLabel(code)

\* What a line does to it; the last of several codes on a line decides.
classifyHeading(line, pos) ==
    CASE line.kind = "codes" -> FoldLeft(label, pos, line.codes)
      [] line.kind = "heading" /\ line.level >= 3 -> label(pos, line.code)
      [] line.kind = "headword" /\ line.code \in DOMAIN posLabelMap -> posLabel(line.code)
      [] OTHER -> pos

\* A definition line adds its sense, with the label it stands under, up to the cap.
addSense(senses, pos, gloss) ==
    IF gloss = <<>> \/ Len(senses) >= maxSenses THEN senses
    ELSE Append(senses, [pos |-> pos, gloss |-> gloss])

define(acc, line) ==
    [pos |-> classifyHeading(line, acc.pos),
     senses |-> IF line.kind = "item" THEN addSense(acc.senses, acc.pos, stripWikitext(line.text))
                ELSE acc.senses]
definitions(section) == FoldLeft(define, [pos |-> <<>>, senses |-> <<>>], section).senses

\* What readDump asks of a page.
hasVietnamese(lines) == dialectOf(lines) # "none"
pageSenses(lines) == definitions(vietnameseSection(lines))
=============================================================================
