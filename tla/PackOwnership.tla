---------------------------- MODULE PackOwnership ----------------------------
(***************************************************************************)
(* scripts/migrate_pack_ownership.py --apply, local mode: every row gets a *)
(* pack, every pack an owner.  Graph rows are tagged in one transaction,   *)
(* packs are registered one insert at a time, document rows one chunk at a *)
(* time, all under write.lock; the registry is open to others, who do not  *)
(* take that lock.  A run that fails or dies is followed by a new one.     *)
(***************************************************************************)
EXTENDS Naturals, FiniteSets

CONSTANTS
    Rows,                \* rows of the graph and of the documents
    OwnPacks, DefaultPack,
    OwnIds, OwnSpaces, NoSpace,
    NoPack, Malformed,   \* no pack_id; a pack_id that is not a string
    LegacyRows,          \* [Rows -> LegacyRow]: what a migration may find
    MaxMigrations, MaxTags    \* bounds: runs, document rows tagged by others

\* sound: the properties are a JSON object.  hint: the pack a path in them names.
LegacyRow == [kind : {"node", "edge", "doc", "source"}, id : OwnIds,
              space : OwnSpaces \cup {NoSpace}, pack : OwnPacks \cup {NoPack, Malformed},
              hint : OwnPacks \cup {NoPack}, sound : BOOLEAN]

ASSUME OwnershipAssumption ==
    /\ DefaultPack \in OwnPacks /\ NoPack \notin OwnPacks /\ Malformed \notin OwnPacks \cup {NoPack}
    /\ NoSpace \notin OwnSpaces /\ LegacyRows \subseteq [Rows -> LegacyRow]
    /\ {MaxMigrations, MaxTags} \subseteq Nat

VARIABLES
    ownRows,       \* the rows of the graph and the documents
    before,     \* what they were at first
    owner,      \* the registry: packs and their owners
    mig,        \* the run of the script
    migrations, tags

ownershipVars == <<ownRows, before, owner, mig, migrations, tags>>

Fresh == [at |-> "idle", accept |-> FALSE, left |-> {}, planned |-> {}, lost |-> FALSE,
          unfit |-> FALSE]

OwnershipInit ==
    /\ ownRows \in LegacyRows /\ before = ownRows
    /\ owner \in [OwnPacks -> {"nobody", "other"}]
    /\ mig = Fresh /\ migrations = 0 /\ tags = 0

------------------------------------------------------------------------------
Kind(k) == {r \in Rows : ownRows[r].kind = k}
GraphRows == Kind("node") \cup Kind("edge")
DocRows == Kind("doc") \cup Kind("source")
Missing == {r \in Rows : ownRows[r].pack = NoPack}

\* resolve_row_pack_id: the row's own pack, one that a path in it names, a default.
Resolved(row, assumed) ==
    IF row.pack # NoPack THEN row.pack ELSE IF row.hint # NoPack THEN row.hint ELSE assumed

AnyOf(set) == CHOOSE x \in set : TRUE

\* The graph node of a document row: of the same space, or of none.
Twins(r) == {n \in Kind("node") : /\ ownRows[r].kind = "doc" /\ ownRows[n].id = ownRows[r].id
                                  /\ ownRows[n].space \in {ownRows[r].space, NoSpace}}

\* Mutant: what the row itself says goes before what the graph says.
HintBeforeTwin(r) ==
    IF ownRows[r].hint # NoPack \/ Twins(r) = {} THEN Resolved(ownRows[r], DefaultPack)
    ELSE Resolved(ownRows[AnyOf(Twins(r))], DefaultPack)

\* The pack of a document row: the graph's, else what the row itself says.
Target(r) == LET by == IF Twins(r) = {} THEN r ELSE AnyOf(Twins(r))
             IN Resolved(ownRows[by], DefaultPack)

\* Nothing is guessed for a row that cannot be read and that the graph does not know.
Excluded(r) == r \in Missing /\ ~ownRows[r].sound /\ Twins(r) = {}
Fillable(kinds) == {r \in Missing : ownRows[r].kind \in kinds /\ ~Excluded(r)}

------------------------------------------------------------------------------
Goes(at) == mig' = [mig EXCEPT !.at = at]

\* main: the operator says whether packs that others own are acceptable.
StartMigration(accept) ==
    /\ mig.at \in {"idle", "exit 0", "exit 1", "exit 3"} /\ migrations < MaxMigrations
    /\ mig' = [Fresh EXCEPT !.at = "default", !.accept = accept]
    /\ migrations' = migrations + 1
    /\ UNCHANGED <<ownRows, before, owner, tags>>

EnsureDefaultPack ==
    /\ mig.at = "default"
    /\ IF owner[DefaultPack] = "other" THEN Goes("exit 1") /\ UNCHANGED owner
       ELSE Goes("graph") /\ owner' = [owner EXCEPT ![DefaultPack] = "local"]
    /\ UNCHANGED <<ownRows, before, migrations, tags>>

\* inspect_pack_ids reads all of the graph before it proposes anything.
Unreadable == \E r \in GraphRows : ~ownRows[r].sound \/ ownRows[r].pack = Malformed

\* backfill_pack_provenance: all rows, or none.
BackfillGraph ==
    /\ mig.at = "graph"
    /\ IF Unreadable
       THEN Goes("exit 1") /\ UNCHANGED ownRows
       ELSE /\ Goes("register graph")
            /\ ownRows' = [r \in Rows |-> IF r \in GraphRows
                                       THEN [ownRows[r] EXCEPT !.pack = Resolved(ownRows[r], DefaultPack)]
                                       ELSE ownRows[r]]
    /\ UNCHANGED <<before, owner, migrations, tags>>

\* The packs that document rows have, or are about to get.
PacksOfDocs ==
    ({ownRows[r].pack : r \in DocRows} \ {NoPack, Malformed}) \cup {Target(r) : r \in Fillable({"doc", "source"})}

\* _assert_no_foreign_owned, and the candidates among the packs found.
Gate(packs, planned, next) ==
    IF (\E p \in packs : owner[p] = "other") /\ ~mig.accept THEN Goes("exit 1")
    ELSE LET candidates == {p \in packs \ planned : owner[p] = "nobody"}
         IN mig' = [mig EXCEPT !.at = next, !.left = candidates, !.planned = planned \cup candidates]

GateGraphPacks ==
    /\ mig.at = "register graph"
    /\ Gate({ownRows[r].pack : r \in GraphRows}, {DefaultPack}, "insert graph")
    /\ UNCHANGED <<ownRows, before, owner, migrations, tags>>

GateDocPacks ==
    /\ mig.at = "register docs"
    /\ Gate(PacksOfDocs, mig.planned, "insert docs")
    /\ UNCHANGED <<ownRows, before, owner, migrations, tags>>

\* Mutant: a pack that someone else took meanwhile counts as registered.
InsertAny(p) ==
    /\ owner' = [owner EXCEPT ![p] = IF @ = "nobody" THEN "local" ELSE @]
    /\ mig' = [mig EXCEPT !.left = @ \ {p}]

\* _insert_pack: a transaction of its own; the count is compared at the end.
Insert(p) ==
    /\ owner' = [owner EXCEPT ![p] = IF @ = "nobody" THEN "local" ELSE @]
    /\ mig' = [mig EXCEPT !.left = @ \ {p}, !.lost = @ \/ owner[p] # "nobody"]

InsertCandidate(p) ==
    /\ mig.at \in {"insert graph", "insert docs"} /\ p \in mig.left
    /\ Insert(p)
    /\ UNCHANGED <<ownRows, before, migrations, tags>>

Registered ==
    /\ mig.at \in {"insert graph", "insert docs"} /\ mig.left = {}
    /\ Goes(IF mig.lost THEN "exit 1"
            ELSE IF mig.at = "insert graph" THEN "register docs" ELSE "select doc")
    /\ UNCHANGED <<ownRows, before, owner, migrations, tags>>

SelectOf == [doc |-> "select doc", source |-> "select source"]
UpdateOf == [doc |-> "update doc", source |-> "update source"]

\* _backfill_doc_table: the rows without a pack, resolved ...
SelectDocs(kind) ==
    /\ mig.at = SelectOf[kind]
    /\ mig' = [mig EXCEPT !.at = UpdateOf[kind],
                          !.left = {<<Target(r), r>> : r \in Fillable({kind})},
                          !.unfit = @ \/ (\E r \in Kind(kind) : Excluded(r) \/ ownRows[r].pack = Malformed)]
    /\ UNCHANGED <<ownRows, before, owner, migrations, tags>>

\* ... and updated, one pack after the other, if they still lack one.  json_set
\* finds nothing to set in a row that is no object, and counts it as updated.
UpdateDocs(kind, p) ==
    /\ mig.at = UpdateOf[kind]
    /\ LET chunk == {r \in Rows : <<p, r>> \in mig.left}
       IN /\ chunk # {}
          /\ IF chunk \subseteq Missing
             THEN /\ ownRows' = [r \in Rows |-> IF r \in chunk /\ ownRows[r].sound
                                             THEN [ownRows[r] EXCEPT !.pack = p] ELSE ownRows[r]]
                  /\ mig' = [mig EXCEPT !.left = @ \ ({p} \X chunk)]
             ELSE Goes("exit 1") /\ UNCHANGED ownRows
    /\ UNCHANGED <<before, owner, migrations, tags>>

Filled(kind) ==
    /\ mig.at = UpdateOf[kind] /\ mig.left = {}
    /\ Goes(IF kind = "doc" THEN "select source" ELSE IF mig.unfit THEN "exit 3" ELSE "exit 0")
    /\ UNCHANGED <<ownRows, before, owner, migrations, tags>>

Die ==
    /\ mig.at \notin {"idle", "exit 0", "exit 1", "exit 3"}
    /\ mig' = Fresh
    /\ UNCHANGED <<ownRows, before, owner, migrations, tags>>

\* Registration is open to others, at any time.
OtherRegisters(p) ==
    /\ owner[p] = "nobody"
    /\ owner' = [owner EXCEPT ![p] = "other"]
    /\ UNCHANGED <<ownRows, before, mig, migrations, tags>>

\* A writer that skips write.lock tags a document row with a registered pack.
OtherTags(r, p) ==
    /\ tags < MaxTags /\ tags' = tags + 1
    /\ r \in DocRows \cap Missing /\ ownRows[r].sound /\ owner[p] # "nobody"
    /\ ownRows' = [ownRows EXCEPT ![r].pack = p]
    /\ UNCHANGED <<before, owner, mig, migrations>>

OwnershipNext ==
    \/ \E accept \in BOOLEAN : StartMigration(accept)
    \/ EnsureDefaultPack \/ BackfillGraph \/ GateGraphPacks \/ GateDocPacks
    \/ \E p \in OwnPacks : InsertCandidate(p) \/ OtherRegisters(p)
    \/ \E kind \in {"doc", "source"} :
           \/ SelectDocs(kind) \/ Filled(kind)
           \/ \E p \in OwnPacks : UpdateDocs(kind, p)
    \/ \E r \in Rows, p \in OwnPacks : OtherTags(r, p)
    \/ Registered \/ Die

OwnershipSpec == OwnershipInit /\ [][OwnershipNext]_ownershipVars

------------------------------------------------------------------------------
\* Rows, registry and the run keep their types (the tables of main).
OwnershipTypeOK ==
    /\ ownRows \in [Rows -> LegacyRow] /\ owner \in [OwnPacks -> {"nobody", "local", "other"}]
    /\ mig.accept \in BOOLEAN /\ mig.planned \subseteq OwnPacks
    /\ migrations \in 0 .. MaxMigrations /\ tags \in 0 .. MaxTags

\* The exit code 0 on which the scoping of reads is deployed: no row has a pack
\* that is not a registered one, and none has a pack of another owner unless the
\* operator accepted those or it was tagged from outside, whoever registered
\* what between the look and the insert.
ExitZeroMeansOwned ==
    mig.at = "exit 0" =>
        \A r \in Rows : ownRows[r].pack # NoPack =>
            /\ ownRows[r].pack \in OwnPacks /\ owner[ownRows[r].pack] # "nobody"
            /\ owner[ownRows[r].pack] = "other" => mig.accept \/ tags > 0

\* However many runs failed or died in between, a row that had no pack gets the
\* one that a single undisturbed run would give it: a document row that of its
\* graph node, whether the node had it from the beginning or got it in some run.
FirstTwins(r) == {n \in Rows : /\ before[r].kind = "doc" /\ before[n].kind = "node"
                               /\ before[n].id = before[r].id
                               /\ before[n].space \in {before[r].space, NoSpace}}
FirstPack(r) ==
    IF before[r].pack # NoPack THEN before[r].pack
    ELSE IF FirstTwins(r) = {} THEN Resolved(before[r], DefaultPack)
    ELSE Resolved(before[AnyOf(FirstTwins(r))], DefaultPack)

AttributionIsStable == tags = 0 => \A r \in Rows : ownRows[r].pack \in {before[r].pack, FirstPack(r)}

\* "A doc row still left without ANY resolvable pack_id [...] or its own
\* properties/metadata is valid JSON but not an object [...] demotes
\* docs_backfill to `skipped` (rc 3)" (lines 47-54): a run that exits 0 leaves
\* no row without a pack.  The code does not keep this (README, 5).
ExitZeroLeavesNone == mig.at = "exit 0" => Missing = {}
==============================================================================
