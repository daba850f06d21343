------------------------------ MODULE PrunedSearch ------------------------------
(***************************************************************************)
(* The pruned search of the node index (MaxScore, term at a time): select  *)
(* of _node_bm25_prune finds the best PruneLimit documents of every group  *)
(* without scoring every document that holds a term of the question.       *)
(*                                                                         *)
(* It reads one snapshot, of an index without listed keys.  A document is  *)
(* what each term adds to its score; the estimates of cost that choose     *)
(* between a term's postings and tokenising the documents again are left   *)
(* open, as they must not matter to the result; sums are exact, so the     *)
(* margin for rounding is left out.                                        *)
(***************************************************************************)
EXTENDS Naturals, FiniteSets, FiniteSetsExt

CONSTANTS
    Documents,
    NumTerms,           \* the terms of the question are 1 .. NumTerms, by falling bound
    TermBound,          \* no document gets more than this from a term
    ScoreTables         \* what a term adds to a document, the groups, the limit

Terms == 1 .. NumTerms

ASSUME PruneAssumption ==
    /\ IsFiniteSet(Documents) /\ NumTerms \in Nat /\ TermBound \in [Terms -> Nat]
    /\ \A s, t \in Terms : s < t => TermBound[s] >= TermBound[t]
    /\ \A w \in ScoreTables : \A d \in Documents :
          w.group[d] \in w.groups /\ \A t \in Terms : w.adds[d][t] \in 0 .. TermBound[t]
    /\ \A w \in ScoreTables : w.limit \in Nat

VARIABLES
    table,          \* the snapshot and the question
    pendingTerms, candidates, dead,
    partial,        \* what the scanned terms add to a candidate
    exact,          \* candidates with their whole score
    closedGroups,   \* groups that take no new document
    phase,          \* "prune", "take" or "chosen"
    chosen

pruneVars == <<table, pendingTerms, candidates, dead, partial, exact, closedGroups, phase, chosen>>

-----------------------------------------------------------------------------
SumOver(f) == LET upto[t \in 0 .. NumTerms] == IF t = 0 THEN 0 ELSE upto[t - 1] + f[t] IN upto[NumTerms]
ScoreOf(d) == SumOver(table.adds[d])
Bound(ts) == SumOver([t \in Terms |-> IF t \in ts THEN TermBound[t] ELSE 0])
GroupOf(d) == table.group[d]

\* What is known of a candidate's score.
Lower(d, xs) == IF d \in xs THEN ScoreOf(d) ELSE partial[d]
Upper(d, xs) == IF d \in xs THEN ScoreOf(d) ELSE partial[d] + Bound(pendingTerms)

\* _kth: the lower bound of the group's last place, 0 where it is not full.
Others(d, xs) == {x \in candidates : GroupOf(x) = GroupOf(d) /\ Lower(x, xs) >= Lower(d, xs)}
Threshold(g, xs) ==
    Max({0} \cup {Lower(d, xs) : d \in {x \in candidates : GroupOf(x) = g /\ Cardinality(Others(x, xs)) >= table.limit}})

PruneTypeOK ==
    /\ pendingTerms \subseteq Terms
    /\ candidates \subseteq Documents /\ dead \subseteq Documents \ candidates
    /\ partial \in [Documents -> 0 .. Bound(Terms)] /\ exact \subseteq candidates
    /\ closedGroups \subseteq table.groups /\ phase \in {"prune", "take", "chosen"}
    /\ chosen \subseteq Documents

PruneInit ==
    /\ table \in ScoreTables
    /\ pendingTerms = {t \in Terms : \E d \in Documents : table.adds[d][t] > 0}
    /\ candidates = {} /\ dead = {} /\ exact = {} /\ closedGroups = {} /\ chosen = {}
    /\ partial = [d \in Documents |-> 0]
    /\ phase = "prune"

-----------------------------------------------------------------------------
\* Candidates among the best so far whose whole score is not known yet.
Seeds == {d \in candidates \ exact :
            Cardinality({x \in Others(d, exact) : Lower(x, exact) > Lower(d, exact)}) < table.limit}

\* Mutant: a group is closed as soon as its last place reaches the bound.
ClosesEarly(g, xs) == Threshold(g, xs) >= Bound(pendingTerms) /\ Threshold(g, xs) > 0

\* A document outside cannot come up to the last place any more.
Closes(g, xs) == Threshold(g, xs) > Bound(pendingTerms)

\* Mutant: a candidate is judged by what it has so far.
HopelessByLower(d, xs) == Lower(d, xs) < Threshold(GroupOf(d), xs)

\* What a candidate may still reach is below the last place.
Hopeless(d, xs) == Upper(d, xs) < Threshold(GroupOf(d), xs)

\* The head of the loop: the best candidates may be tokenised again, the
\* hopeless ones are dropped for ever, and groups closed.
Prune ==
    /\ phase = "prune" /\ pendingTerms # {}
    /\ \E seeds \in SUBSET Seeds :
          LET xs == exact \cup seeds
              hopeless == {d \in candidates : Hopeless(d, xs)} IN
          /\ candidates' = candidates \ hopeless /\ dead' = dead \cup hopeless
          /\ exact' = xs \ hopeless
          /\ closedGroups' = closedGroups \cup {g \in table.groups : Closes(g, xs)}
    /\ phase' = "take"
    /\ UNCHANGED <<table, pendingTerms, partial, chosen>>

Adds(ds, t) == partial' = [d \in Documents |-> partial[d] + IF d \in ds \ exact THEN table.adds[d][t] ELSE 0]

\* All groups are closed: the candidates get a term's postings ...
ScanPending(t) ==
    /\ phase = "take" /\ closedGroups = table.groups /\ t \in pendingTerms
    /\ Adds(candidates, t)
    /\ pendingTerms' = pendingTerms \ {t} /\ phase' = "prune"
    /\ UNCHANGED <<table, candidates, dead, exact, closedGroups, chosen>>

\* ... or are tokenised again, and nothing is left to know.
FinishCandidates ==
    /\ phase = "take" /\ closedGroups = table.groups
    /\ exact' = candidates /\ pendingTerms' = {} /\ phase' = "prune"
    /\ UNCHANGED <<table, candidates, dead, partial, closedGroups, chosen>>

\* _match_docs: the documents with the term, in the open groups, not seen yet.
NewDocuments(t) ==
    {d \in Documents \ (candidates \cup dead) : table.adds[d][t] > 0 /\ GroupOf(d) \notin closedGroups}

\* The next term brings new candidates, with its postings or tokenised at once.
TakeTerm ==
    /\ phase = "take" /\ closedGroups # table.groups
    /\ LET t == Min(pendingTerms) IN
       /\ candidates' = candidates \cup NewDocuments(t)
       /\ pendingTerms' = pendingTerms \ {t}
       /\ \/ Adds(candidates', t) /\ UNCHANGED exact
          \/ exact' = candidates' /\ UNCHANGED partial
    /\ phase' = "prune"
    /\ UNCHANGED <<table, dead, closedGroups, chosen>>

\* The last place's ties are taken along; the caller sorts and cuts.
Choose ==
    /\ phase = "prune" /\ pendingTerms = {}
    /\ chosen' = {d \in candidates : Lower(d, exact) >= Threshold(GroupOf(d), exact)}
    /\ phase' = "chosen"
    /\ UNCHANGED <<table, pendingTerms, candidates, dead, partial, exact, closedGroups>>

PruneNext == Prune \/ (\E t \in Terms : ScanPending(t)) \/ FinishCandidates \/ TakeTerm \/ Choose

PruneSpec == PruneInit /\ [][PruneNext]_pruneVars

-----------------------------------------------------------------------------
(* Properties. *)

\* full_scored: the documents of a place within the limit, with their ties.
Best(ds) ==
    {d \in ds : ScoreOf(d) > 0 /\
        Cardinality({x \in ds : GroupOf(x) = GroupOf(d) /\ ScoreOf(x) > ScoreOf(d)}) < table.limit}

\* The pruned search finds exactly what scoring every document finds, with the
\* ties of the last place and whole scores, whichever way the costs choose.
PruningIsExact ==
    phase = "chosen" =>
        /\ Best(chosen) = Best(Documents)
        /\ \A d \in chosen : Lower(d, exact) = ScoreOf(d)
=============================================================================
