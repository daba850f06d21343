------------------------------- MODULE Reconcile -------------------------------
(***************************************************************************)
(* scripts/reconcile_doc_graph_nodes.py: the graph store and the document  *)
(* store keep the same nodes, and this tool lists what only one of them    *)
(* has.  With --apply it copies nodes of the graph alone to the documents, *)
(* with --promote-doc-only also the other way.  It holds no lock: other    *)
(* processes write to both stores between any two of its steps.            *)
(***************************************************************************)
EXTENDS Integers, FiniteSets

CONSTANTS
    HealIds,          \* node ids
    RecSpaces,       \* spaces of the grammar
    RecTypes,        \* node types
    MaxRecWrites,    \* writes of other processes
    MaxRecRuns       \* runs of the tool

ASSUME ReconcileAssumption == MaxRecWrites \in Nat /\ MaxRecRuns \in Nat

VARIABLES
    inGraph,     \* id |-> the graph's row or <<>>
    inDocs,      \* id |-> space |-> the document row or <<>>
    recSchema,   \* the graph schema's state
    recPc, recRuns,
    promotes,    \* --promote-doc-only
    sawGraph,    \* the first pass: id |-> graph row
    sawDocs,     \* the second pass: id |-> space |-> document row
    sawSchema,   \* the schema's state when the diagnosis began
    toHeal,        \* [way, id] still to be healed
    reread,      \* the row read again just before it is copied, or <<>>
    sinceDiag,   \* states of the two stores since the diagnosis ended
    recWrites

recVars == <<inGraph, inDocs, recSchema, recPc, recRuns, promotes, sawGraph, sawDocs, sawSchema,
             toHeal, reread, sinceDiag, recWrites>>

NoSpace == "no space"
\* "usable" stands for what both checks of the copied row ask: readable
\* properties, no normalization issue, a pack_id that is a text, prepare_node.
GraphRows == [space : RecSpaces \cup {NoSpace}, type : RecTypes, usable : BOOLEAN, body : 0..MaxRecWrites]
DocRows == [type : RecTypes, usable : BOOLEAN, body : 0..MaxRecWrites]
NothingRead == [i \in HealIds |-> <<>>]
SpacesOf(docs) == {s \in RecSpaces : docs[s] # <<>>}
Stores == <<inGraph, inDocs>>

ReconcileInit ==
    /\ inGraph \in [HealIds -> {<<>>} \cup {r \in GraphRows : r.body = 0}]
    /\ inDocs \in [HealIds -> [RecSpaces -> {<<>>} \cup {d \in DocRows : d.body = 0}]]
    /\ recSchema \in {"target", "legacy", "fresh"}
    /\ recSchema = "fresh" => inGraph = NothingRead
    /\ recPc = "idle" /\ recRuns = 0 /\ promotes = FALSE
    /\ sawGraph = NothingRead /\ sawDocs = NothingRead
    /\ sawSchema = "target" /\ toHeal = {} /\ reread = <<>> /\ sinceDiag = {} /\ recWrites = 0

StartDiagnosis ==
    /\ recPc = "idle" /\ recRuns < MaxRecRuns
    /\ recRuns' = recRuns + 1 /\ promotes' \in BOOLEAN /\ sawSchema' = recSchema
    /\ recPc' = (IF recSchema = "legacy" THEN "idle" ELSE "graph")
    /\ UNCHANGED <<inGraph, inDocs, recSchema, sawGraph, sawDocs, toHeal, reread, sinceDiag,
                   recWrites>>

\* The graph's rows stream in batches, and only then the documents' rows.
StreamGraph ==
    /\ recPc = "graph"
    /\ sawGraph' = inGraph /\ recPc' = "docs"
    /\ UNCHANGED <<inGraph, inDocs, recSchema, recRuns, promotes, sawDocs, sawSchema, toHeal,
                   reread, sinceDiag, recWrites>>

Heals(g, docs) ==
    LET at == SpacesOf(docs)
    IN  IF g # <<>> /\ at = {}
        THEN IF g.usable /\ g.space # NoSpace THEN "backfill" ELSE "unhealable"
        ELSE IF g = <<>> /\ at # {}
        THEN IF \E s \in at : at = {s} /\ docs[s].usable THEN "promotion" ELSE "unhealable"
        ELSE IF \E s \in at : s # g.space \/ docs[s].type # g.type THEN "conflict" ELSE "match"

StreamDocs ==
    /\ recPc = "docs"
    /\ sawDocs' = inDocs /\ recPc' = "judge"
    /\ UNCHANGED <<inGraph, inDocs, recSchema, recRuns, promotes, sawGraph, sawSchema, toHeal,
                   reread, sinceDiag, recWrites>>

\* The properties of a document that the graph lacks are read once more for the
\* verdict; one that is gone by then counts as a document without properties.
Reviewed(i) ==
    [s \in RecSpaces |->
        IF sawDocs[i][s] = <<>> THEN <<>>
        ELSE [sawDocs[i][s] EXCEPT !.usable = inDocs[i][s] = <<>> \/ inDocs[i][s].usable]]

JudgeHealable ==
    /\ recPc = "judge"
    /\ toHeal' = {[way |-> w, id |-> i] : w \in {"backfill", "promotion"}, i \in HealIds} \cap
               {[way |-> Heals(sawGraph[i], Reviewed(i)), id |-> i] : i \in HealIds}
    /\ recPc' = "apply" /\ sinceDiag' = {Stores}
    /\ UNCHANGED <<inGraph, inDocs, recSchema, recRuns, promotes, sawGraph, sawDocs, sawSchema,
                   reread, recWrites>>

\* Mutant: the rows to be promoted are left aside whatever was asked
AppliesBackfills ==
    /\ recPc = "apply"
    /\ recPc' \in {"idle", IF sawSchema # "fresh" /\ recSchema = "target" THEN "heal" ELSE "idle"}
    /\ toHeal' = {t \in toHeal : t.way = "backfill"}
    /\ UNCHANGED <<inGraph, inDocs, recSchema, recRuns, promotes, sawGraph, sawDocs, sawSchema,
                   reread, sinceDiag, recWrites>>

\* Without --apply the run ends here; so it does where the backup fails, and
\* where the schema was "fresh" or is not "target" at the second look.
Apply ==
    /\ recPc = "apply"
    /\ recPc' \in {"idle", IF sawSchema # "fresh" /\ recSchema = "target" THEN "heal" ELSE "idle"}
    /\ toHeal' = {t \in toHeal : t.way = "backfill" \/ promotes}
    /\ UNCHANGED <<inGraph, inDocs, recSchema, recRuns, promotes, sawGraph, sawDocs, sawSchema,
                   reread, sinceDiag, recWrites>>

NextRows == {t \in toHeal : t.way = "backfill" \/ \A u \in toHeal : u.way = "promotion"}
OnlySpace(i) == CHOOSE s \in RecSpaces : sawDocs[i][s] # <<>>

\* Mutant: the row of the id is copied whatever it has become
StillTheNode(i) == inGraph[i] # <<>> /\ inGraph[i].usable /\ inGraph[i].space # NoSpace

\* The graph row is still there, can be copied, and is the diagnosed node.
SameNode(i) ==
    /\ inGraph[i] # <<>> /\ inGraph[i].usable /\ inGraph[i].space # NoSpace
    /\ inGraph[i].space = sawGraph[i].space /\ inGraph[i].type = sawGraph[i].type

\* The id has exactly the diagnosed space's document, and it can be promoted.
SameDocument(i) ==
    SpacesOf(inDocs[i]) = {OnlySpace(i)} /\ inDocs[i][OnlySpace(i)].usable

Promoted(i) ==
    LET d == inDocs[i][OnlySpace(i)]
    IN  [space |-> OnlySpace(i), type |-> d.type, usable |-> TRUE, body |-> d.body]

\* The row is read again; a row that is gone or another is skipped, with a line
\* in the record, and so is one that cannot be copied.
ReadAgain ==
    /\ recPc = "heal" /\ reread = <<>>
    /\ \E t \in NextRows :
         \/ /\ t.way = "backfill" /\ SameNode(t.id)
            /\ reread' = [way |-> t.way, id |-> t.id, row |-> inGraph[t.id]] /\ UNCHANGED toHeal
         \/ /\ t.way = "promotion" /\ SameDocument(t.id)
            /\ reread' = [way |-> t.way, id |-> t.id, row |-> Promoted(t.id)] /\ UNCHANGED toHeal
         \/ /\ IF t.way = "backfill" THEN ~SameNode(t.id) ELSE ~SameDocument(t.id)
            /\ toHeal' = toHeal \ {t} /\ UNCHANGED reread
    /\ UNCHANGED <<inGraph, inDocs, recSchema, recPc, recRuns, promotes, sawGraph, sawDocs,
                   sawSchema, sinceDiag, recWrites>>

\* History for the properties: the states of the stores since the diagnosis.
Notes == sinceDiag' = (IF sinceDiag = {} THEN {} ELSE sinceDiag \cup {<<inGraph', inDocs'>>})

DocOf(r) == [type |-> r.type, usable |-> TRUE, body |-> r.body]

\* Mutant: upsert_node_doc, which overwrites
Upserted(docs, r) == [docs EXCEPT ![r.space] = DocOf(r)]

\* create_node_doc_if_absent: ON CONFLICT DO NOTHING
CreatedIfAbsent(docs, r) == IF docs[r.space] = <<>> THEN [docs EXCEPT ![r.space] = DocOf(r)] ELSE docs

\* upsert_node inserts or leaves the row as it is: an equal one is a success,
\* another one a conflict that is reported.
Inserted(g, r) == IF g = <<>> THEN r ELSE g

\* The copy, its line in the record (flushed and synced), and the next row.
\* A line that cannot be written does not stop the run (exit code 5).
CopyRow ==
    /\ recPc = "heal" /\ reread # <<>>
    /\ \/ /\ reread.way = "backfill" /\ UNCHANGED inGraph
          /\ inDocs' = [inDocs EXCEPT ![reread.id] = CreatedIfAbsent(@, reread.row)]
       \/ /\ reread.way = "promotion" /\ UNCHANGED inDocs
          /\ inGraph' = [inGraph EXCEPT ![reread.id] = Inserted(@, reread.row)]
    /\ toHeal' = {t \in toHeal : t.way # reread.way \/ t.id # reread.id} /\ reread' = <<>>
    /\ Notes
    /\ UNCHANGED <<recSchema, recPc, recRuns, promotes, sawGraph, sawDocs, sawSchema, recWrites>>

FinishRun ==
    /\ recPc = "heal" /\ toHeal = {} /\ reread = <<>> /\ recPc' = "reported"
    /\ UNCHANGED <<inGraph, inDocs, recSchema, recRuns, promotes, sawGraph, sawDocs, sawSchema,
                   toHeal, reread, sinceDiag, recWrites>>

\* The end of the process: the next run starts from nothing.  It may also be
\* killed, and an unexpected error of a store ends it, at any step.
EndProcess ==
    /\ recPc # "idle" /\ recPc' = "idle"
    /\ toHeal' = {} /\ reread' = <<>> /\ sinceDiag' = {}
    /\ sawGraph' = NothingRead /\ sawDocs' = NothingRead
    /\ UNCHANGED <<inGraph, inDocs, recSchema, recRuns, promotes, sawSchema, recWrites>>

-----------------------------------------------------------------------------
(* The other processes.                                                    *)

\* A node is written or deleted in one of the stores; a written body is new.
OtherWritesGraph(i) ==
    /\ recWrites < MaxRecWrites /\ recWrites' = recWrites + 1 /\ recSchema # "legacy"
    /\ \E r \in {<<>>} \cup {g \in GraphRows : g.body = recWrites + 1 /\ g.usable} :
          inGraph' = [inGraph EXCEPT ![i] = r] /\ r # inGraph[i]
    /\ recSchema' = "target"
    /\ UNCHANGED <<inDocs, recPc, recRuns, promotes, sawGraph, sawDocs, sawSchema, toHeal, reread>>
    /\ Notes

OtherWritesDoc(i, s) ==
    /\ recWrites < MaxRecWrites /\ recWrites' = recWrites + 1
    /\ \E d \in {<<>>} \cup {e \in DocRows : e.body = recWrites + 1 /\ e.usable} :
          inDocs' = [inDocs EXCEPT ![i][s] = d] /\ d # inDocs[i][s]
    /\ UNCHANGED <<inGraph, recSchema, recPc, recRuns, promotes, sawGraph, sawDocs, sawSchema,
                   toHeal, reread>>
    /\ Notes

ReconcileNext ==
    \/ StartDiagnosis \/ StreamGraph \/ StreamDocs \/ JudgeHealable \/ Apply \/ ReadAgain \/ CopyRow
    \/ FinishRun \/ EndProcess
    \/ \E i \in HealIds : OtherWritesGraph(i) \/ \E s \in RecSpaces : OtherWritesDoc(i, s)

ReconcileSpec == ReconcileInit /\ [][ReconcileNext]_recVars

-----------------------------------------------------------------------------
ReconcileTypeOK ==
    /\ \A i \in HealIds : inGraph[i] = <<>> \/ inGraph[i] \in GraphRows
    /\ \A i \in HealIds, s \in RecSpaces : inDocs[i][s] = <<>> \/ inDocs[i][s] \in DocRows
    /\ recSchema \in {"target", "legacy", "fresh"}
    /\ recPc \in {"idle", "graph", "docs", "judge", "apply", "heal", "reported"}
    /\ toHeal \subseteq [way : {"backfill", "promotion"}, id : HealIds]
    /\ recWrites \in 0..MaxRecWrites /\ recRuns \in 0..MaxRecRuns /\ promotes \in BOOLEAN

\* The tool only adds: a step of its own (no write of another process) leaves
\* every row that exists as it is, in both stores, whatever was written since
\* the diagnosis (docstring, "additive-only").
AddsOnly ==
    [][recWrites' = recWrites =>
         \A i \in HealIds :
            /\ inGraph[i] # <<>> => inGraph'[i] = inGraph[i]
            /\ \A s \in RecSpaces : inDocs[i][s] # <<>> => inDocs'[i][s] = inDocs[i][s]]_recVars

\* A row that the tool adds is a copy of what the other store held after the
\* diagnosis, at one moment: a node deleted or rewritten while the diagnosis
\* was read is not brought back in its old form.  And it is the node that was
\* diagnosed: the same space, and for a graph node the same type.
AddsWhatIsThere ==
    [][recWrites' = recWrites =>
         \A i \in HealIds :
            /\ inGraph'[i] # inGraph[i] =>
                 /\ sawDocs[i][inGraph'[i].space] # <<>>
                 /\ \E st \in sinceDiag :
                      LET d == st[2][i][inGraph'[i].space]
                      IN  d # <<>> /\ d.type = inGraph'[i].type /\ d.body = inGraph'[i].body
            /\ \A s \in RecSpaces : inDocs'[i][s] # inDocs[i][s] =>
                 /\ sawGraph[i].space = s /\ sawGraph[i].type = inDocs'[i][s].type
                 /\ \E st \in sinceDiag : st[1][i] # <<>> /\ st[1][i].body = inDocs'[i][s].body
                                          /\ st[1][i].space = s]_recVars

\* A run that nobody disturbs leaves nothing to heal: every id is then the same
\* node in both stores, or one that the diagnosis reports as not healable.
HealsAll ==
    (recPc = "reported" /\ promotes /\ recWrites = 0) =>
        \A i \in HealIds : Heals(inGraph[i], inDocs[i]) \notin {"backfill", "promotion"}
=============================================================================
