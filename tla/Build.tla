-------------------------------- MODULE Build --------------------------------
(***************************************************************************)
(* The dictionary builder (cmd/build-dictionary): one build after another  *)
(* over the same files, from a dump of the wiki, from the corpus an        *)
(* earlier dump build exported, or from a hand-written list; any of them   *)
(* may fail at a write or be killed between two steps.                     *)
(*                                                                         *)
(* The alias table is built by AliasTable's loop, a word at a time in any  *)
(* order; the files change in the steps write and writeCorpus take.  The   *)
(* file system is POSIX: a rename replaces its target at once.             *)
(***************************************************************************)
EXTENDS AliasTable, Senses, Store

CONSTANTS
    Text,               \* what the wiki's pages may say
    isVietnamese(_),    \* whether a text has a Vietnamese section
    sensesOf(_),        \* the definitions in it
    Dumps,          \* bound: the dumps the first build may be given, the second ...
    Lists,          \* bound: the hand-written lists, likewise
    minWords,
    minPages

\* accept() has made a word of a title or of a line, or refused it (<<>>).
Page == [ns : Nat, redirect : BOOLEAN, word : Spelling \cup {<<>>}, lines : Text]
Line == [word : Spelling \cup {<<>>}, cells : Seq(Seq(Token))]

ASSUME BuildAssumption ==
    /\ Dumps \in Seq(SUBSET Seq(Page))
    /\ Lists \in Seq(SUBSET Seq(Line))
    /\ Len(Dumps) = Len(Lists)
    /\ minWords \in Nat \ {0}
    /\ minPages \in Nat
    /\ \A text \in Text : sensesOf(text) \in Seq(Sense)

VARIABLES
    stage,          \* where the build is; "idle" between two
    mode,           \* dump, corpus or words
    pages,          \* the dump being read
    meanings,
    disk,           \* what is under each name: out, tmp, corpus, corpusTmp
    outcome,        \* of the last build: none, done, failed
    builds

vars == <<aliasVars, stage, mode, pages, meanings, disk, outcome, builds>>

Absent == [absent |-> TRUE]
present(file) == file # Absent

----------------------------------------------------------------------------
(***************************************************************************)
(* Reading                                                                 *)
(***************************************************************************)

\* The pages that count: of the main namespace, no redirect, with a Vietnamese section.
vietnamese(page) == page.ns = 0 /\ ~page.redirect /\ isVietnamese(page.lines)

\* A word without senses has no entry among the meanings.
withSenses(senses) == Restrict(senses, {w \in DOMAIN senses : senses[w] # <<>>})

\* readDump.  Pages whose titles make the same word share one entry: their senses
\* follow one another, to the cap.
accepted(page) == vietnamese(page) /\ page.word # <<>>
addPage(senses, page) ==
    IF accepted(page)
    THEN [senses EXCEPT ![page.word] = capped(@ \o sensesOf(page.lines))]
    ELSE senses
readDump(dump) ==
    LET all == {page.word : page \in {p \in ToSet(dump) : accepted(p)}}
    IN  [words |-> all,
         meanings |-> withSenses(FoldLeft(addPage, [w \in all |-> <<>>], dump))]
enoughPages(dump) == Cardinality({i \in DOMAIN dump : vietnamese(dump[i])}) >= minPages

\* parseSenses: a cell is label|gloss, cut at the first bar, or a bare gloss.  A cell
\* without a gloss is skipped.
bars(cell) == {i \in DOMAIN cell : cell[i] = bar}
sense(cell) ==
    IF bars(cell) = {} THEN [pos |-> <<>>, gloss |-> cell]
    ELSE LET cut == Min(bars(cell))
         IN  [pos |-> SubSeq(cell, 1, cut - 1), gloss |-> SubSeq(cell, cut + 1, Len(cell))]
addCell(senses, cell) ==
    IF sense(cell).gloss = <<>> \/ Len(senses) >= maxSenses THEN senses
    ELSE Append(senses, sense(cell))
parseSenses(cells) == FoldLeft(addCell, <<>>, cells)

\* readWordList.  A word that stands on two lines keeps the last senses given for it.
readWordList(lines) ==
    LET given == {i \in DOMAIN lines : lines[i].word # <<>>}
        explained == {i \in given : parseSenses(lines[i].cells) # <<>>}
        lastOn(w) == Max({i \in explained : lines[i].word = w})
    IN  [words |-> {lines[i].word : i \in given},
         meanings |-> [w \in {lines[i].word : i \in explained} |->
                          parseSenses(lines[lastOn(w)].cells)]]

\* The senses of a word, if it has any.
sensesFor(w) == IF w \in DOMAIN meanings THEN meanings[w] ELSE <<>>

\* Mutant of corpusLines: a sense without a label is written as the gloss alone.
corpusLinesBare ==
    LET cell(s) == IF s.pos = <<>> THEN s.gloss ELSE s.pos \o <<bar>> \o s.gloss
        line(w) == [word |-> w, cells |-> [j \in DOMAIN sensesFor(w) |-> cell(sensesFor(w)[j])]]
        sorted == SetToSeq(words)
    IN  [i \in DOMAIN sorted |-> line(sorted[i])]

\* The lines writeCorpus writes: every sense as label|gloss, even with an empty label.
corpusLines ==
    LET cell(s) == s.pos \o <<bar>> \o s.gloss
        line(w) == [word |-> w, cells |-> [j \in DOMAIN sensesFor(w) |-> cell(sensesFor(w)[j])]]
        sorted == SetToSeq(words)
    IN  [i \in DOMAIN sorted |-> line(sorted[i])]

----------------------------------------------------------------------------
(***************************************************************************)
(* A build                                                                 *)
(***************************************************************************)

\* What was read clears the floors, or the build ends here.
begin(kind, dump, read, enough) ==
    /\ builds' = builds + 1
    /\ mode' = kind
    /\ pages' = dump
    /\ words' = read.words
    /\ todo' = read.words
    /\ aliases' = {}
    /\ poisoned' = {}
    /\ meanings' = read.meanings
    /\ IF enough /\ Cardinality(read.words) >= minWords
       THEN stage' = "aliases" /\ outcome' = "none"
       ELSE stage' = "idle" /\ outcome' = "failed"
    /\ UNCHANGED disk

runFromDump ==
    /\ stage = "idle" /\ builds < Len(Dumps)
    /\ \E dump \in Dumps[builds + 1] :
        begin("dump", dump, readDump(dump), enoughPages(dump))

\* A corpus that is not there or names no dump is refused before anything is read.
runFromCorpus ==
    /\ stage = "idle" /\ builds < Len(Dumps)
    /\ present(disk.corpus)
    /\ begin("corpus", <<>>, readWordList(disk.corpus.lines), disk.corpus.header)

runFromWordList ==
    /\ stage = "idle" /\ builds < Len(Lists)
    /\ \E list \in Lists[builds + 1] : begin("words", <<>>, readWordList(list), TRUE)

\* buildAliases, one word at a time.
buildAliases ==
    /\ stage = "aliases"
    /\ \/ /\ \E w \in todo : claim(w)
          /\ UNCHANGED stage
       \/ /\ todo = {}
          /\ stage' = "create"
          /\ UNCHANGED aliasVars
    /\ UNCHANGED <<mode, pages, meanings, disk, outcome, builds>>

to(next, files) ==
    /\ stage' = next
    /\ disk' = files
    /\ UNCHANGED <<aliasVars, mode, pages, meanings, outcome, builds>>

\* Mutant of create: the tables are created in place.
createInPlace ==
    /\ stage = "create"
    /\ to("fill", [disk EXCEPT !.out = uncommitted, !.tmp = uncommitted])

\* write: what an earlier build left under tmp goes first; then the tables are created.
create ==
    /\ stage = "create"
    /\ to("fill", [disk EXCEPT !.tmp = uncommitted])

\* writeTo, whose transaction commits.
fill ==
    /\ stage = "fill"
    /\ to("move", [disk EXCEPT !.tmp = database(words, meanings, aliases)])

move ==
    /\ stage = "move"
    /\ to("verify", [disk EXCEPT !.out = disk.tmp, !.tmp = Absent])

\* At least 60 % of the words have a meaning, of a dump's or a corpus's.
covered(db) == 10 * Cardinality(DOMAIN db.meanings) >= 6 * Cardinality(db.words)

sound(db) ==
    /\ Cardinality(db.words) >= minWords
    /\ \A w \in db.words : Len(w) >= 2
    /\ \A a \in db.aliases : a[2] \in db.words /\ a[1] \notin db.words
    /\ \A w \in db.words : first(w) \in DOMAIN db.outDegree
    /\ DOMAIN db.meanings \subseteq db.words
    /\ \A w \in DOMAIN db.meanings : Len(db.meanings[w]) <= maxSenses

ends(result) ==
    /\ stage' = "idle"
    /\ outcome' = result
    /\ UNCHANGED <<aliasVars, mode, pages, meanings, builds>>

\* verify reads what has landed under out.  Only a dump build may go on to an export;
\* it need not.
verify ==
    /\ stage = "verify"
    /\ LET good == sound(disk.out) /\ (mode = "words" \/ covered(disk.out))
       IN  \/ ~good /\ ends("failed") /\ UNCHANGED disk
           \/ good /\ ends("done") /\ UNCHANGED disk
           \/ good /\ mode = "dump" /\ to("export", disk)

\* writeCorpus: created empty, written out, moved into place.
createCorpus ==
    /\ stage = "export"
    /\ to("flush", [disk EXCEPT !.corpusTmp = [header |-> FALSE, lines |-> <<>>, of |-> disk.out]])

flushCorpus ==
    /\ stage = "flush"
    /\ to("moveCorpus", [disk EXCEPT !.corpusTmp =
                            [header |-> TRUE, lines |-> corpusLines, of |-> disk.out]])

moveCorpus ==
    /\ stage = "moveCorpus"
    /\ disk' = [disk EXCEPT !.corpus = disk.corpusTmp, !.corpusTmp = Absent]
    /\ ends("done")

\* A write that fails: the deferred call removes the half-built file, but for a stale
\* one that could not be removed in the first place.
ioError ==
    \/ /\ stage = "create"
       /\ ends("failed")
       /\ UNCHANGED disk
    \/ /\ stage \in {"fill", "move"}
       /\ disk' = [disk EXCEPT !.tmp = Absent]
       /\ ends("failed")
    \/ /\ stage \in {"export", "flush", "moveCorpus"}
       /\ disk' = [disk EXCEPT !.corpusTmp = Absent]
       /\ ends("failed")

\* The process is killed: nothing is cleaned up.
killed ==
    /\ stage # "idle"
    /\ ends("none")
    /\ UNCHANGED disk

Init ==
    /\ AliasInit({})
    /\ stage = "idle"
    /\ mode = "none"
    /\ pages = <<>>
    /\ meanings = <<>>
    /\ disk = [name \in {"out", "tmp", "corpus", "corpusTmp"} |-> Absent]
    /\ outcome = "none"
    /\ builds = 0

Next ==
    \/ runFromDump \/ runFromCorpus \/ runFromWordList
    \/ buildAliases
    \/ create \/ fill \/ move \/ verify
    \/ createCorpus \/ flushCorpus \/ moveCorpus
    \/ ioError \/ killed

Spec == Init /\ [][Next]_vars

----------------------------------------------------------------------------
(***************************************************************************)
(* Properties                                                              *)
(***************************************************************************)

\* Whatever fails or is killed, and whatever an earlier build left lying about, the
\* server can open what stands under out once anything does: never a database whose
\* transaction did not commit.  And a game in it can start and go on: every word an
\* opening draws for has the continuations asked for, every alias one word behind it.
\* A build that reported success left a database that passes every check of verify's
\* but the floor on meanings, which a build from a list is not held to.
OutIsAlwaysServable ==
    /\ outcome = "done" => present(disk.out) /\ sound(disk.out)
    /\ present(disk.out) =>
          /\ Open(disk.out)
          /\ \A n \in 1..2 : pickOpeningWord(disk.out, n) =
                {w \in disk.out.words : Cardinality(startingWith(disk.out.words, lastOf(w))) >= n}
          /\ \A a \in disk.out.aliases : Resolve(disk.out, a[1]) = {a[2]}

\* A corpus build turns the committed text back into the database the dump build
\* exported it from, meanings, labels and aliases included; and only a dump build that
\* passed every floor is ever exported.
CorpusRebuildsTheSame ==
    present(disk.corpus) =>
        /\ disk.corpus.header
        /\ sound(disk.corpus.of) /\ covered(disk.corpus.of)
        /\ LET read == readWordList(disk.corpus.lines)
           IN  /\ read.words = disk.corpus.of.words
               /\ read.meanings = disk.corpus.of.meanings
        /\ (stage = "verify" /\ mode = "corpus") => disk.out = disk.corpus.of
=============================================================================
