----------------------------- MODULE PackSelection -----------------------------
(***************************************************************************)
(* Which packs one query searches: services/pack_selection.py with         *)
(* ontology/pack_registry.py (automatic choice by words, and by content    *)
(* where no name matches), pack/read_scope.py (the readable packs, and the *)
(* check at process start) and the two callers, mcp/tools/query.py and the *)
(* query command of cli.py.                                                *)
(*                                                                         *)
(* The readable packs, the candidate rows, the manifest files, the content *)
(* probe and the search itself are five reads; other processes publish,    *)
(* create, rename and delete packs and load content between any two.       *)
(***************************************************************************)
EXTENDS Integers, Sequences, FiniteSets, Functions

CONSTANTS
    SelPacks,          \* pack ids
    SelName,           \* pack |-> the words its id is made of, in order
    SelWords,          \* words
    SelShort,          \* the words of one letter
    SelFragments,      \* word |-> the shorter words a field's tokenizer cuts from it
    SelAliases,        \* sets of words that stand for each other
    SelRows,           \* registry rows: readable, title, description
    SelManifests,      \* manifest files: title, description, source, keywords, tags
    SelContents,       \* sets of words a pack's content can have
    SelQuestions,      \* questions, as sequences of words
    MinScore,          \* OPENCRAB_AUTO_PACK_MIN_SCORE
    MaxSelWrites       \* steps of other processes

ASSUME SelectionAssumption ==
    /\ MaxSelWrites \in Nat /\ MinScore \in Nat
    /\ SelName \in [SelPacks -> Seq(SelWords) \ {<<>>}] /\ SelQuestions \subseteq Seq(SelWords)
    /\ SelFragments \in [SelWords -> SUBSET SelWords]
    /\ IsFiniteSet(SelWords) /\ SelAliases \subseteq SUBSET SelWords

VARIABLES
    packRows,          \* the packs table: pack |-> row or <<>>
    manifests,     \* pack |-> manifest or <<>>
    contents,      \* pack |-> words of its nodes and chunks
    selPc,
    ask,           \* the caller, its words, the packs it names, auto_pack
    registered,    \* the packs with a row, as the start check read them
    orphans,       \* packs with content that had no row all through the check
    scope,         \* read_scope, or <<>> before it is read
    packCandidates,    \* pack |-> [row, manifest] of the second read
    autoPack,        \* [pack, by] of auto_pack, or <<>>
    effective,     \* the packs to be searched
    notes,         \* warning codes
    foundPacks,         \* the packs the results come from
    selWrites

selVars == <<packRows, manifests, contents, selPc, ask, registered, orphans, scope,
             packCandidates, autoPack, effective, notes, foundPacks, selWrites>>

Askings == [by : {"mcp", "cli"}, words : SelQuestions, wanted : SUBSET SelPacks, auto : BOOLEAN]
Registered == {p \in SelPacks : packRows[p] # <<>>}
InGraph == {p \in SelPacks : contents[p] # {}}
\* status = 'ready' AND (owner_id = :uid OR visibility != 'private')
Readable == {p \in Registered : packRows[p].readable}
NoCandidate == <<>>

SelectionInit ==
    /\ packRows \in [SelPacks -> {<<>>} \cup SelRows]
    /\ manifests \in [SelPacks -> {<<>>} \cup SelManifests]
    /\ contents \in [SelPacks -> SelContents]
    /\ ask \in Askings
    /\ selPc = "down" /\ registered = {} /\ orphans = {} /\ scope = {}
    /\ packCandidates = NoCandidate /\ autoPack = <<>> /\ effective = {} /\ notes = {}
    /\ foundPacks = {} /\ selWrites = 0

-----------------------------------------------------------------------------
(* The check at process start.                                              *)

BootReadsRegistry ==
    /\ selPc = "down" /\ selPc' = "boot"
    /\ registered' = Registered /\ orphans' = InGraph \ Registered
    /\ UNCHANGED <<packRows, manifests, contents, ask, scope, packCandidates, autoPack,
                   effective, notes, foundPacks, selWrites>>

\* Mutant: the process is refused only where the registry is empty (a design
\* that the docstring rejects)
RefusesEmpty == registered = {} /\ InGraph # {}

RefusesStart == ~ InGraph \subseteq registered

BootReadsGraph ==
    /\ selPc = "boot"
    /\ selPc' = (IF RefusesStart THEN "refused" ELSE "up")
    /\ UNCHANGED <<packRows, manifests, contents, ask, registered, orphans, scope,
                   packCandidates, autoPack, effective, notes, foundPacks, selWrites>>

-----------------------------------------------------------------------------
(* Scores.                                                                 *)

SameWord(a, b) == a = b \/ \E group \in SelAliases : {a, b} \subseteq group

\* The phrase occurs in the question, in order and without a gap.
InOrder(phrase, words) ==
    /\ phrase # <<>>
    /\ \E pos \in 0..(Len(words) - Len(phrase)) :
         \A i \in DOMAIN phrase : SameWord(words[pos + i], phrase[i])

AtBoundary(phrase, words) ==
    /\ phrase # <<>>
    /\ \E pos \in 0..(Len(words) - Len(phrase)) : \A i \in DOMAIN phrase : words[pos + i] = phrase[i]

WithAliases(words) == words \cup UNION {group \in SelAliases : group \cap words # {}}
WithFragments(field) == Range(field) \cup UNION {SelFragments[w] : w \in Range(field)}
Asked(words) == WithAliases(Range(words))

\* Title and description come from the row where it has them.
FieldOf(c, name) ==
    IF c.row[name] # <<>> \/ c.manifest = <<>> THEN c.row[name] ELSE c.manifest[name]
OfManifest(c, name, none) == IF c.manifest = <<>> THEN none ELSE c.manifest[name]

\* The weak bonuses take no word of one letter.
Overlap(words, field) == Cardinality((Asked(words) \ SelShort) \cap field)

Score(words, p, c) ==
    LET title == FieldOf(c, "title")
        text == FieldOf(c, "description")
        source == OfManifest(c, "source", <<>>)
        keywords == OfManifest(c, "keywords", {})
        tags == OfManifest(c, "tags", {})
        free == WithFragments(SelName[p]) \cup WithFragments(title) \cup WithFragments(text)
        gate == Asked(words) \cap (free \cup WithFragments(source) \cup keywords \cup tags) # {}
        When(holds, bonus) == IF holds THEN bonus ELSE 0
    IN  IF ~gate THEN 0
        ELSE When(InOrder(SelName[p], words), 100) + When(AtBoundary(title, words), 50)
             + When(InOrder(source, words), 30)
             + 5 * Overlap(words, WithFragments(title)) + 3 * Overlap(words, WithFragments(text))
             + 5 * Overlap(words, keywords) + 4 * Overlap(words, tags)
             + When(\E group \in SelAliases : group \cap Asked(words) # {} /\ group \cap free # {}, 20)

-----------------------------------------------------------------------------
(* One query.                                                              *)

\* Mutant: naming only packs that cannot be read counts as naming none
NothingNamed(wanted) == wanted \cap Readable = {}

Unnamed(wanted) == wanted = {}

\* read_scope, then narrow(): the named packs that can be read, or all of them.
\* A request that names packs makes no automatic choice.
ReadScope ==
    /\ selPc = "up"
    /\ scope' = Readable
    /\ effective' = (IF Unnamed(ask.wanted) THEN Readable ELSE ask.wanted \cap Readable)
    /\ notes' = {n \in {"out_of_scope"} : ~ ask.wanted \subseteq Readable}
                \cup {n \in {"override"} : ask.wanted # {} /\ ask.auto}
    /\ selPc' = (IF ask.auto /\ Unnamed(ask.wanted) THEN "list" ELSE "search")
    /\ UNCHANGED <<packRows, manifests, contents, ask, registered, orphans, packCandidates,
                   autoPack, foundPacks, selWrites>>

\* The command line lets the error through; a tool call goes on with the whole
\* readable scope and says so.
ChoiceFails ==
    IF ask.by = "cli" THEN selPc' = "error" /\ UNCHANGED notes
    ELSE selPc' = "search" /\ notes' = notes \cup {"failed"}

\* Mutant: the second read is not cut down to the scope
AllListed == Readable

ListedPacks == Readable \cap scope

ListPacks ==
    /\ selPc = "list"
    /\ \/ /\ packCandidates' = [p \in ListedPacks |-> [row |-> packRows[p], manifest |-> <<>>]]
          /\ selPc' = "enrich" /\ UNCHANGED notes
       \/ ChoiceFails /\ UNCHANGED packCandidates
    /\ UNCHANGED <<packRows, manifests, contents, ask, registered, orphans, scope, autoPack,
                   effective, foundPacks, selWrites>>

\* The rows say which packs are candidates; the files only add fields.
Enriched == [p \in DOMAIN packCandidates |-> [packCandidates[p] EXCEPT !.manifest = manifests[p]]]

\* A scan of the manifests that fails leaves the rows alone.
Enrich ==
    /\ selPc = "enrich" /\ selPc' = "choose"
    /\ packCandidates' \in {Enriched, packCandidates}
    /\ UNCHANGED <<packRows, manifests, contents, ask, registered, orphans, scope, autoPack,
                   effective, notes, foundPacks, selWrites>>

PackScore(p) == Score(ask.words, p, packCandidates[p])
Scored == {p \in DOMAIN packCandidates : PackScore(p) >= MinScore /\ PackScore(p) > 0}

\* Mutant: the content is asked whatever the names say
NoNameMatches == TRUE

NoneScored == Scored = {}

Takes(p, by) ==
    autoPack' = [pack |-> p, by |-> by] /\ effective' = {p} /\ selPc' = "search"

ChooseByWords ==
    /\ selPc = "choose"
    /\ \/ \E p \in Scored : (\A q \in Scored : PackScore(p) >= PackScore(q)) /\ Takes(p, "words")
          /\ UNCHANGED notes
       \/ NoneScored /\ selPc' = "probe" /\ UNCHANGED <<autoPack, effective, notes>>
       \/ ChoiceFails /\ UNCHANGED <<autoPack, effective>>
    /\ UNCHANGED <<packRows, manifests, contents, ask, registered, orphans, scope,
                   packCandidates, foundPacks, selWrites>>

Overlapping(p) == Cardinality(Asked(ask.words) \cap contents[p])
Hit == {p \in DOMAIN packCandidates : Overlapping(p) > 0}

\* The content probe: the most distinct words of the question, and equal counts
\* by the search scores, which are left open here.  The index may say that it
\* is behind, and then the caller is told.
ChooseByContent ==
    /\ selPc = "probe"
    /\ \/ \E p \in Hit : /\ \A q \in Hit : Overlapping(p) >= Overlapping(q)
                         /\ Takes(p, "content") /\ notes' \in {notes, notes \cup {"coverage"}}
       \/ /\ Hit = {} /\ selPc' = "search" /\ UNCHANGED <<autoPack, effective>>
          /\ notes' \in {notes \cup {"below"}, notes \cup {"below", "coverage"}}
       \/ ChoiceFails /\ UNCHANGED <<autoPack, effective>>
    /\ UNCHANGED <<packRows, manifests, contents, ask, registered, orphans, scope,
                   packCandidates, foundPacks, selWrites>>

\* The search takes the packs as they are now; an empty list finds nothing.
SearchPacks ==
    /\ selPc = "search" /\ selPc' = "answered"
    /\ foundPacks' = {p \in effective : Overlapping(p) > 0}
    /\ UNCHANGED <<packRows, manifests, contents, ask, registered, orphans, scope,
                   packCandidates, autoPack, effective, notes, selWrites>>

-----------------------------------------------------------------------------
(* Other processes.                                                        *)

Elsewhere ==
    /\ selPc \notin {"down", "refused", "answered", "error"}
    /\ selWrites < MaxSelWrites /\ selWrites' = selWrites + 1
    /\ UNCHANGED <<selPc, ask, registered, scope, packCandidates, autoPack, effective, notes,
                   foundPacks>>

\* A pack is created, published or hidden, renamed, or its row deleted.
RowChanges(p) ==
    /\ Elsewhere
    /\ \E r \in {<<>>} \cup SelRows : r # packRows[p] /\ packRows' = [packRows EXCEPT ![p] = r]
    /\ orphans' = {q \in orphans : packRows'[q] = <<>>}
    /\ UNCHANGED <<manifests, contents>>

ManifestChanges(p) ==
    /\ Elsewhere
    /\ \E f \in {<<>>} \cup SelManifests : f # manifests[p] /\ manifests' = [manifests EXCEPT ![p] = f]
    /\ UNCHANGED <<packRows, contents, orphans>>

ContentChanges(p) ==
    /\ Elsewhere
    /\ \E c \in SelContents : c # contents[p] /\ contents' = [contents EXCEPT ![p] = c]
    /\ orphans' = {q \in orphans : contents'[q] # {}}
    /\ UNCHANGED <<packRows, manifests>>

SelectionNext ==
    \/ BootReadsRegistry \/ BootReadsGraph \/ ReadScope \/ ListPacks \/ Enrich
    \/ ChooseByWords \/ ChooseByContent \/ SearchPacks
    \/ \E p \in SelPacks : RowChanges(p) \/ ManifestChanges(p) \/ ContentChanges(p)

SelectionSpec == SelectionInit /\ [][SelectionNext]_selVars

-----------------------------------------------------------------------------
SelectionTypeOK ==
    /\ \A p \in SelPacks : /\ packRows[p] \in {<<>>} \cup SelRows
                           /\ manifests[p] \in {<<>>} \cup SelManifests
                           /\ contents[p] \in SelContents
    /\ selPc \in {"down", "boot", "refused", "up", "list", "enrich", "choose", "probe",
                  "search", "answered", "error"}
    /\ ask \in Askings /\ scope \subseteq SelPacks /\ effective \subseteq SelPacks
    /\ notes \subseteq {"out_of_scope", "override", "failed", "below", "coverage"}
    /\ selWrites \in 0..MaxSelWrites

\* A query searches only packs that its caller could read when it began, and
\* only those it named where it named any.  The pack auto_pack chose was still
\* readable at the second read.
StaysInScope ==
    /\ effective \cup foundPacks \subseteq scope
    /\ ask.wanted # {} => effective \subseteq ask.wanted /\ autoPack = <<>>
    /\ autoPack # <<>> => autoPack.pack \in DOMAIN packCandidates /\ packCandidates[autoPack.pack].row.readable

\* Where auto_pack was asked for and chose nothing, the answer says why.
SaysWhy ==
    selPc = "answered" /\ ask.auto /\ autoPack = <<>> =>
        Cardinality(notes \cap {"failed", "below", "override"}) = 1

SpelledIn(words, name) ==
    \E i \in 1..Len(words), j \in 1..Len(words) : SubSeq(words, i, j) = name

\* A pack whose id the question spells out is not passed over for a pack with
\* the same fields whose id has the words in another order; and the content of
\* a pack decides nothing where the name of some candidate matched.
NamesDecide ==
    autoPack # <<>> =>
        /\ (\A group \in SelAliases : group \cap Range(ask.words) = {}) =>
             \A p \in DOMAIN packCandidates :
                SpelledIn(ask.words, SelName[p]) /\ packCandidates[p] = packCandidates[autoPack.pack]
                   => SpelledIn(ask.words, SelName[autoPack.pack])
        /\ autoPack.by = "content" =>
             \A p \in DOMAIN packCandidates : ~SpelledIn(ask.words, SelName[p])

\* A process that serves has no pack that was without a row all through the
\* start check: the data of such a pack no reader would ever see.
StartsWhole == selPc \notin {"down", "boot", "refused"} => orphans = {}

SelectionIsSound == StaysInScope /\ SaysWhy /\ NamesDecide /\ StartsWhole
=============================================================================
