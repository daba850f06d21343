---------------------------- MODULE SpaceBackfill ----------------------------
(***************************************************************************)
(* scripts/backfill_space.py: every vector and document record without a   *)
(* valid space gets one, or is held.  What a record gets depends on the    *)
(* graph and, for a vector, on what its document gets.  A run plans from   *)
(* one scan, writes the plan in batches, documents first, and decides again*)
(* inside each transaction; a run that stops or dies is followed by a new  *)
(* one, with a plan of its own.                                            *)
(***************************************************************************)
EXTENDS Integers, FiniteSets

CONSTANTS
    RecIds,              \* ids of records and of graph nodes
    GrSpaces, GrPacks,   \* names of spaces and packs
    Evidence,            \* the space of what no graph node describes
    Nothing,             \* no record, no space, no pack
    Worlds,              \* [graph, docs, vectors]: what a run may find
    AllowMissing,        \* --allow-pack-missing
    BatchSize, MaxScans, MaxOthers    \* batch size; bounds: runs, writes of others

\* sound: the metadata is an object and its pack_id a string; of a graph entry,
\* that its properties can be read and all rows of the id agree.
GraphEntry == [sound : BOOLEAN, space : GrSpaces \cup {Nothing}, pack : GrPacks \cup {Nothing}]
DocRecord == [sound : BOOLEAN, space : GrSpaces \cup {Nothing}, pack : GrPacks \cup {Nothing}]
VecRecord == [sound : BOOLEAN, space : GrSpaces \cup {Nothing}, pack : GrPacks \cup {Nothing},
              part : GrPacks \cup {Nothing}, sourced : BOOLEAN]
World == [graph : [RecIds -> GraphEntry \cup {Nothing}],
          docs : [RecIds -> DocRecord \cup {Nothing}],
          vectors : [RecIds -> VecRecord \cup {Nothing}]]

ASSUME BackfillAssumption ==
    /\ IsFiniteSet(RecIds) /\ Evidence \in GrSpaces
    /\ Nothing \notin GrSpaces \cup GrPacks \cup GraphEntry \cup DocRecord \cup VecRecord
    /\ Worlds \subseteq World /\ AllowMissing \in BOOLEAN
    /\ BatchSize \in Nat \ {0} /\ {MaxScans, MaxOthers} \subseteq Nat

VARIABLES
    world,      \* the three stores
    first,      \* what they held at the beginning
    job,        \* the run that is under way, with its apply-state.db
    scans, others

backfillVars == <<world, first, job, scans, others>>

Resting == [at |-> "idle", graph |-> Nothing, docs |-> Nothing, plan |-> {},
            left |-> {}, done |-> {}, held |-> {}, count |-> 0, skipped |-> FALSE,
            limited |-> FALSE]

BackfillInit ==
    /\ world \in Worlds /\ first = world
    /\ job = Resting /\ scans = 0 /\ others = 0

------------------------------------------------------------------------------
\* decide: what becomes of a record.  A result has a class and a space.
Held(why) == [class |-> why, space |-> Nothing]
Apply(s) == [class |-> "apply", space |-> s]

MappedDecision(g, pack) ==
    IF ~g.sound THEN Held("graph_bad")
    ELSE IF g.space = Nothing THEN Held("graph_space_missing")
    ELSE IF Nothing \in {pack, g.pack}
    THEN IF AllowMissing THEN Apply(g.space) ELSE Held("pack_missing")
    ELSE IF pack # g.pack THEN Held("pack_disagrees") ELSE Apply(g.space)

OwnDecision(r) ==
    IF ~r.sound THEN Held("bad_meta") ELSE [class |-> "skip_valid", space |-> r.space]

DecideDoc(r, g) ==
    IF ~r.sound \/ r.space # Nothing THEN OwnDecision(r)
    ELSE IF g # Nothing THEN MappedDecision(g, r.pack) ELSE Apply(Evidence)

\* Mutant: only a document that has its space already has one to give.
GivesStored(d) == IF d.class = "skip_valid" THEN d.space ELSE Nothing

\* The effective space of a document, which its vector inherits.
Gives(d) == d.space

PairDecision(pack, pair) ==
    IF pair.pack # pack THEN Held("doc_pair_pack_differs")
    ELSE IF pair.space = Nothing THEN Held("doc_pair_held") ELSE Apply(pair.space)

\* Two arms of decide make no difference here: a partition that contradicts
\* the metadata holds, and an unmapped vector needs a document or a source.
DecideVec(r, g, pair) ==
    IF ~r.sound \/ r.space # Nothing THEN OwnDecision(r)
    ELSE IF r.pack # r.part THEN Held("pack_partition_mismatch")
    ELSE IF g # Nothing THEN MappedDecision(g, r.part)
    ELSE IF pair # Nothing THEN PairDecision(r.part, pair)
    ELSE IF r.sourced THEN Apply(Evidence) ELSE Held("orphan")

\* The resolver tables of apply-state.db.
Pairs(docs, graph) ==
    [i \in RecIds |-> IF docs[i] = Nothing THEN Nothing
                      ELSE [pack |-> docs[i].pack, space |-> Gives(DecideDoc(docs[i], graph[i]))]]

Stored(w) == ({"doc"} \X {i \in RecIds : w.docs[i] # Nothing})
              \cup ({"vector"} \X {i \in RecIds : w.vectors[i] # Nothing})

Decision(w, graph, pairs, rec) ==
    IF rec[1] = "doc" THEN DecideDoc(w.docs[rec[2]], graph[rec[2]])
    ELSE DecideVec(w.vectors[rec[2]], graph[rec[2]], pairs[rec[2]])

Respaced(w, rec, s) ==
    IF rec[1] = "doc" THEN [w EXCEPT !.docs[rec[2]].space = s]
    ELSE [w EXCEPT !.vectors[rec[2]].space = s]

SpaceOf(w, rec) == IF rec[1] = "doc" THEN w.docs[rec[2]].space ELSE w.vectors[rec[2]].space

------------------------------------------------------------------------------
\* run_apply: the lock, the backup set, and the scan: graph, documents, vectors.
ScanGraph ==
    /\ job.at = "idle" /\ scans < MaxScans
    /\ job' = [Resting EXCEPT !.at = "scan", !.graph = world.graph]
    /\ scans' = scans + 1
    /\ UNCHANGED <<world, first, others>>

ScanDocs ==
    /\ job.at = "scan" /\ job.docs = Nothing
    /\ LET of(rec) == DecideDoc(world.docs[rec[2]], job.graph[rec[2]])
           docs == {rec \in Stored(world) : rec[1] = "doc"}
       IN job' = [job EXCEPT !.docs = Pairs(world.docs, job.graph),
                     !.plan = {<<rec, of(rec).space>> : rec \in {r \in docs : of(r).class = "apply"}},
                     !.held = {<<rec, of(rec).class>> : rec \in docs},
                     !.count = Cardinality(docs)]
    /\ UNCHANGED <<world, first, scans, others>>

ScanVectors ==
    /\ job.at = "scan" /\ job.docs # Nothing
    /\ LET of(rec) == Decision(world, job.graph, job.docs, rec)
           vecs == {rec \in Stored(world) : rec[1] = "vector"}
           planned == {<<rec, of(rec).space>> : rec \in {r \in vecs : of(r).class = "apply"}}
       IN job' = [job EXCEPT !.at = "write", !.plan = @ \cup planned,
                     !.left = job.plan \cup planned,
                     !.held = @ \cup {<<rec, of(rec).class>> : rec \in vecs},
                     !.count = @ + Cardinality(vecs)]
    /\ UNCHANGED <<world, first, scans, others>>

Turn == IF \E p \in job.left : p[1][1] = "doc" THEN "doc" ELSE "vector"

\* Mutant: the plan is written as it stands.
StillThere(p) == p[1] \in Stored(world)

\* A row is written if it is still there and the same decision still holds, by
\* the resolver of the plan.
StillHolds(p) ==
    /\ p[1] \in Stored(world)
    /\ Decision(world, job.graph, job.docs, p[1]) = Apply(p[2])

\* One transaction; the run may die before its commit, or after it and before
\* the outcome is on record.  --max-batches ends the run between two.
WriteBatch ==
    /\ job.at = "write" /\ job.left # {}
    /\ \E batch \in SUBSET {p \in job.left : p[1][1] = Turn} :
        LET good == {p \in batch : StillHolds(p)}
            written(s, i) == {p \in good : p[1] = <<s, i>>}
            space(s, i) == (CHOOSE p \in written(s, i) : TRUE)[2]
        IN /\ batch # {} /\ Cardinality(batch) <= BatchSize
           /\ world' = [world EXCEPT
                 !.docs = [i \in RecIds |-> IF written("doc", i) = {} THEN @[i]
                                            ELSE [@[i] EXCEPT !.space = space("doc", i)]],
                 !.vectors = [i \in RecIds |-> IF written("vector", i) = {} THEN @[i]
                                               ELSE [@[i] EXCEPT !.space = space("vector", i)]]]
           /\ \/ job' = [job EXCEPT !.left = @ \ batch, !.done = @ \cup good,
                                    !.skipped = @ \/ good # batch]
              \/ job' = Resting
    /\ UNCHANGED <<first, scans, others>>

Limit ==
    /\ job.at = "write" /\ job.left # {}
    /\ job' = [job EXCEPT !.left = {}, !.limited = TRUE]
    /\ UNCHANGED <<world, first, scans, others>>

\* reconcile_state: a fresh scan; rows, held rows, rows without a space and what
\* was committed are compared.  Nothing is repaired.
Reconciles ==
    LET pairs == Pairs(world.docs, world.graph)
        now == {<<rec, Decision(world, world.graph, pairs, rec).class>> : rec \in Stored(world)}
        holds(s) == {h \in s : h[2] \notin {"apply", "skip_valid"}}
        spaceless(s, store) == Cardinality({h \in s : h[1][1] = store /\ h[2] # "skip_valid"})
        committed(store) == Cardinality({p \in job.done : p[1][1] = store})
    IN /\ Cardinality(Stored(world)) = job.count
       /\ holds(now) = holds(job.held)
       /\ \A s \in {"doc", "vector"} : spaceless(now, s) = spaceless(job.held, s) - committed(s)
       /\ \A p \in job.done : SpaceOf(world, p[1]) = p[2]

Reconcile ==
    /\ job.at = "write" /\ job.left = {}
    /\ job' = [job EXCEPT !.at = IF Reconciles THEN "clean" ELSE "mismatch"]
    /\ UNCHANGED <<world, first, scans, others>>

EndRun ==
    /\ job.at # "idle"
    /\ job' = Resting
    /\ UNCHANGED <<world, first, scans, others>>

\* A writer that skips write.lock gives a record a space, or another pack.
OtherWrites(rec) ==
    /\ others < MaxOthers /\ others' = others + 1
    /\ \/ \E s \in GrSpaces : world' = Respaced(world, rec, s)
       \/ \E p \in GrPacks : world' = IF rec[1] = "doc" THEN [world EXCEPT !.docs[rec[2]].pack = p]
                                      ELSE [world EXCEPT !.vectors[rec[2]].pack = p]
    /\ UNCHANGED <<first, job, scans>>

BackfillNext ==
    \/ ScanGraph \/ ScanDocs \/ ScanVectors \/ WriteBatch \/ Limit \/ Reconcile \/ EndRun
    \/ \E rec \in Stored(world) : OtherWrites(rec)

BackfillSpec == BackfillInit /\ [][BackfillNext]_backfillVars

------------------------------------------------------------------------------
BackfillTypeOK == world \in World /\ job.at \in {"idle", "scan", "write", "clean", "mismatch"}

\* However many runs stopped early or died before, the first that ends clean
\* leaves every record where one undisturbed run over the first stores would
\* have put it; until then no record has any other space than that or its own.
Settled(rec) ==
    LET d == Decision(first, first.graph, Pairs(first.docs, first.graph), rec)
    IN IF d.class = "apply" THEN d.space ELSE SpaceOf(first, rec)

BackfillConverges ==
    others = 0 =>
        \A rec \in Stored(first) :
            /\ SpaceOf(world, rec) \in {SpaceOf(first, rec), Settled(rec)}
            /\ job.at = "clean" /\ ~job.limited => SpaceOf(world, rec) = Settled(rec)
            /\ job.at # "mismatch"

\* No batch takes a space away from a record that has one, whoever gave it; and
\* where another writer gave a record its space while the run was under way,
\* the run does not end clean.
SpacesStay ==
    [][/\ others' = others =>
            \A rec \in Stored(world) : SpaceOf(world, rec) # Nothing => SpaceOf(world', rec) = SpaceOf(world, rec)
       /\ job.at # "clean" /\ job'.at = "clean" =>
            \A p \in job'.plan : SpaceOf(world', p[1]) # Nothing /\ ~job.limited => p \in job'.done]_backfillVars
==============================================================================
