----------------------------- MODULE MCRepairs -----------------------------
(***************************************************************************)
(* One instance of the tools that copy, move and repair whole stores: each *)
(* behaviour exercises one of them, named by tool, while the others stay   *)
(* in an initial state.  They share no state: each of them models the      *)
(* stores at its own level.                                                *)
(***************************************************************************)
EXTENDS SchemaPacks, NoneOwnerRepair, MismatchRepair, ForkCopy, Reconcile,
        BackupRun, StoreMigration, TLC

VARIABLE tool    \* the component that moves

CONSTANTS
    nr1, nr2,                             \* vectors of the owner 'None'
    mi1, mi2, mi4, mih,                   \* mismatched ids, one of each class
    fn1, fn2, fs1, fanchor, fstray,       \* a pack to copy
    ri1, rsA, rsB, rtA, rtB,              \* a document without a node, or the reverse
    w1, j1, j2, d1b,                      \* files: WAL, journal, unlocked, plain
    mm1, mm2, mu1, mu2, mu3, mt1, mt2, ma, mb, mn, mk, mh, mbad    \* the migration

-----------------------------------------------------------------------------
(* Schemas: two packs that generate the same type, two threads. *)
CONSTANTS sc1, sc2, stX, si1, si2

MCTypesOf == (sc1 :> {stX}) @@ (sc2 :> {stX})

-----------------------------------------------------------------------------
(* The fork: two nodes, a source, and vector exports that are short, double, *)
(* strange or graded down.                                                   *)
MCVec(c, d) == [of |-> c, dim |-> d, grade |-> "fine"]
MCBad(c, g) == [of |-> c, dim |-> 1, grade |-> g]
MCVectorReads == {
    <<>>,
    <<MCVec(fn1, 1), MCVec(fs1, 1)>>,
    <<MCVec(fs1, 1), MCVec(fn2, 1), MCVec(fn1, 2), MCVec(fn1, 1)>>,
    <<MCVec(fn1, 1), MCVec(fanchor, 1), MCVec(fn1, 1)>>,
    <<MCVec(fn1, 1), MCVec(fstray, 1)>>,
    <<MCVec(fs1, 1), MCBad(fn1, "mistagged")>>,
    <<MCBad(fs1, "invalid"), MCVec(fn1, 1), MCVec(fn2, 1)>>}
MCForkEnds == {<<fn1, fn2>>, <<fanchor, fn1>>}

-----------------------------------------------------------------------------
(* Store migration: sources with and without a helper row, targets that are *)
(* empty, hold an older source, or credentials of their own.                *)
MCUserOf == mt1 :> mu1 @@ mt2 :> mu2
MCNone(S) == [k \in S |-> mn]
MCEmpty == [docs |-> MCNone(RowIds), sources |-> MCNone(RowIds), vectors |-> MCNone(RowIds),
            users |-> MCNone(Users), tokens |-> MCNone(Tokens), history |-> 0]
MCSource(t, h) == [text |-> t, helper |-> h]
MCSources ==
    {[docs |-> mm1 :> ma @@ mm2 :> mb,
      sources |-> mm1 :> MCSource(ma, h) @@ mm2 :> MCSource(mb, mb),
      vectors |-> mm1 :> ma @@ mm2 :> mn, users |-> [MCNone(Users) EXCEPT ![mu1] = ma],
      tokens |-> mt1 :> mb @@ mt2 :> mn, history |-> 2] : h \in {mb, mh}}
    \cup {[MCEmpty EXCEPT !.users[mu2] = x, !.tokens[mt2] = ma, !.sources[mm1] = MCSource(ma, ma)] :
             x \in {ma, mbad}}
MCTargets == {MCEmpty,
    [MCEmpty EXCEPT !.users[mu1] = mb, !.tokens[mt1] = ma, !.sources[mm1] = MCSource(mb, mb)],
    [MCEmpty EXCEPT !.users[mu2] = mb, !.tokens[mt2] = ma],
    [MCEmpty EXCEPT !.users[mu3] = mb]}

-----------------------------------------------------------------------------
\* The initial state a component rests in while another one moves.
AtRest(name, resting) == tool = name \/ resting

RepairsInit ==
    /\ tool \in {"schema", "none", "mismatch", "fork", "reconcile", "backup", "migration"}
    /\ AtRest("schema", file = [t \in SchemaTypes |-> Absent])
    /\ SchemaInit
    /\ AtRest("none", vrow = [v \in VectorRows |-> [owner |-> "pack", key |-> "named", xmin |-> OldWriter]])
    /\ NoneInit
    /\ MisInit
    /\ AtRest("fork", forkMeans = Anchor /\ spelled = "plain")
    /\ ForkInit
    /\ AtRest("reconcile", /\ inGraph = NothingRead /\ recSchema = "target"
                           /\ inDocs = [i \in HealIds |-> [s \in RecSpaces |-> <<>>]])
    /\ ReconcileInit
    /\ AtRest("backup", rotten = {})
    /\ BackupInit
    /\ AtRest("migration", /\ direction = "pg" /\ allowed = FALSE /\ to = MCEmpty
                           /\ from = CHOOSE x \in SourcesOf : TRUE)
    /\ StoreMigrationInit

RepairsNext ==
    /\ UNCHANGED tool
    /\ \/ /\ tool = "schema" /\ SchemaNext
          /\ UNCHANGED <<noneVars, misVars, forkVars, recVars, backupVars, smVars>>
       \/ /\ tool = "none" /\ NoneNext
          /\ UNCHANGED <<schemaVars, misVars, forkVars, recVars, backupVars, smVars>>
       \/ /\ tool = "mismatch" /\ MisNext
          /\ UNCHANGED <<schemaVars, noneVars, forkVars, recVars, backupVars, smVars>>
       \/ /\ tool = "fork" /\ ForkNext
          /\ UNCHANGED <<schemaVars, noneVars, misVars, recVars, backupVars, smVars>>
       \/ /\ tool = "reconcile" /\ ReconcileNext
          /\ UNCHANGED <<schemaVars, noneVars, misVars, forkVars, backupVars, smVars>>
       \/ /\ tool = "backup" /\ BackupNext
          /\ UNCHANGED <<schemaVars, noneVars, misVars, forkVars, recVars, smVars>>
       \/ /\ tool = "migration" /\ StoreMigrationNext
          /\ UNCHANGED <<schemaVars, noneVars, misVars, forkVars, recVars, backupVars>>

RepairsSpec ==
    RepairsInit
    /\ [][RepairsNext]_<<schemaVars, noneVars, misVars, forkVars, recVars, backupVars, smVars, tool>>

\* Every component's variables keep their types.
RepairsTypesOK ==
    /\ tool = "schema" => SchemaTypeOK
    /\ tool = "none" => NoneTypeOK
    /\ tool = "mismatch" => MisTypeOK
    /\ tool = "fork" => ForkTypeOK
    /\ tool = "reconcile" => ReconcileTypeOK
    /\ tool = "backup" => BackupTypeOK
    /\ tool = "migration" => StoreMigrationTypeOK

\* What a tool reports as done is done and nothing it was told to leave is
\* touched: the repair of the owner 'None' (repair_pgvector_legacy_none_owner.py),
\* of mismatched ids (repair_store_mismatch_499.py), the copy of a pack
\* (pack/fork.py), the reconciliation of documents and nodes
\* (reconcile_doc_graph_nodes.py); a backup set that is accepted restores to one
\* moment (stores/backup.py), and a migration that exits 0 is a copy
\* (migrate_to_local.py, migrate_sqlite_to_pg.py).
RepairsAreSound ==
    /\ NoneRepairIsSafe /\ HeldIsUntouched /\ ForkIsHonest /\ HealsAll
    /\ BackupIsSound /\ MigrationIsHonest

\* What the tools leave alone, each up to a limit of its own.
\* - The repair of the owner 'None' takes the place of another writer's version
\*   only if that writer left the row legacy.
\* - The repair of mismatched ids replaces a service's write only if it came
\*   after the tool's last look at the id; an id it calls done is at its targets,
\*   but for what a service put back as it was recorded.
\* - The reconciliation replaces nothing; what it adds is a copy of what was there.
\* - A person's schema file goes only if it came after the tool had looked, by
\*   force, or because the name of the uninstalled pack is in its text; a stub
\*   brought to the current shape keeps its required fields.
\* So a write after the last look may be lost, and a file that only mentions the
\* pack is removed without force, which the docstring of uninstall_pack
\* (pack_registry.py:560) rules out: its promise is RemovesOnlyGenerated of
\* SchemaPacks, which the code does not keep (README, 5).
ToolsSpareOthers ==
    /\ OthersAreKept /\ DoneIsRepaired /\ OverwritesOnlyUnseen
    /\ AddsOnly /\ AddsWhatIsThere /\ SparesPeoplesFiles /\ MigrationKeepsFields
=============================================================================
