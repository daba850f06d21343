------------------------------ MODULE CleanupRun ------------------------------
(***************************************************************************)
(* scripts/cleanup_openclaw_heartbeat_493.py: an approved set of candidate *)
(* ids is removed from four databases, one transaction per candidate and   *)
(* database, and can be taken back by restoring all four files.            *)
(*                                                                         *)
(* The tool holds write.lock, but a connection that knows nothing of the   *)
(* lock may still commit: the tool watches PRAGMA data_version of the four *)
(* databases.  A run that dies is taken up again from what the databases   *)
(* hold; the progress journal is not read.                                 *)
(***************************************************************************)
EXTENDS Integers, FiniteSets, Sequences

CONSTANTS
    Cands,        \* ids of candidates
    Links,        \* recorded graph edges, each the set of candidates at its ends
    MaxStarts, MaxForeign    \* bounds of the instance: tool runs, foreign commits

Axes == <<"vector", "graph", "document", "registry">>
Dbs == {Axes[i] : i \in 1..4}
ASSUME CleanupAssumption ==
    /\ Cands # {} /\ IsFiniteSet(Cands) /\ Links \subseteq (SUBSET Cands) \ {{}}
    /\ {MaxStarts, MaxForeign} \subseteq Nat

VARIABLES
    rows,        \* per database and candidate: as frozen, changed, or gone
    links,       \* per recorded graph edge likewise
    alien,       \* a graph edge nobody recorded touches a candidate
    kept,        \* per database: the protected rows are as frozen
    runDir,      \* the run directory: receipt, markers and what was left half done
    sidecar,     \* a killed run left a -wal file
    tool,        \* the run that holds write.lock
    removed,     \* what the tool deleted: pairs of database and candidate
    late,        \* how often in this run it deleted though protected rows had changed
    starts, foreign      \* what has been used of the bounds

cleanupVars == <<rows, links, alien, kept, runDir, sidecar, tool, removed, late,
                 starts, foreign>>
data == <<rows, links, alien, kept>>

States == {"frozen", "changed", "gone"}

\* unseen: databases with a foreign commit behind the adopted data_version;
\* dirty: a full check of the protected set is due; passed: the axes whose checks
\* of what is no candidate may be skipped; full: the first check of every row
\* against the frozen snapshot still stands.
Quiet == [at |-> "idle", todo |-> {}, cand |-> CHOOSE c \in Cands : TRUE, axis |-> 1,
          unseen |-> {}, dirty |-> FALSE, passed |-> {}, full |-> FALSE,
          wrote |-> FALSE, copies |-> <<>>]

NoReceipt == <<>>

CleanupInit ==
    /\ rows = [a \in Dbs |-> [c \in Cands |-> "frozen"]]
    /\ links = [l \in Links |-> "frozen"]
    /\ alien = FALSE
    /\ kept = [a \in Dbs |-> TRUE]
    /\ runDir = [receipt |-> NoReceipt, tomb |-> FALSE, complete |-> FALSE, debris |-> {}]
    /\ sidecar = FALSE
    /\ tool = Quiet
    /\ removed = {} /\ late = 0 /\ starts = 0 /\ foreign = 0

\* All there is in one database, and so in a copy of its file.
Content(a) == [rows |-> rows[a], kept |-> kept[a],
               links |-> IF a = "graph" THEN <<links, alien>> ELSE <<>>]

Touching(c) == {l \in Links : c \in l}
NoEdgesAt(c) == ~alien /\ \A l \in Touching(c) : links[l] = "gone"

------------------------------------------------------------------------------
\* What the tool asks of the data.
\* _validate_graph_intent: no edge at a candidate but the recorded ones.
IntentHolds == ~alien /\ \A l \in Links : links[l] # "changed"

AxisDone(c, a) == rows[a][c] = "gone" /\ (a = "graph" => NoEdgesAt(c))

\* _allowed with _done_axes: each axis as frozen, or wholly gone.
Allowed(c) == \A a \in Dbs : rows[a][c] = "frozen" \/ AxisDone(c, a)

ProtectionHolds == \A a \in Dbs : kept[a]

FullSnapshot == /\ ProtectionHolds /\ IntentHolds
                /\ \A l \in Links : links[l] = "frozen"
                /\ \A a \in Dbs, c \in Cands : rows[a][c] = "frozen"

\* _registry_resume_precheck, over all candidates.
Precheck == (tool.full /\ tool.unseen = {}) \/ \A c \in Cands : Allowed(c)

\* Mutant: the foreign commit is adopted, what was checked before stays checked.
Adopted(t) == [t EXCEPT !.unseen = {}, !.full = FALSE]

\* _handle_change, when a foreign commit is behind the adopted versions.
HandleChange(t) ==
    IF t.unseen = {} THEN t
    ELSE [t EXCEPT !.unseen = {}, !.dirty = TRUE, !.passed = {}, !.full = FALSE]

ChangeIsBearable == tool.unseen # {} => IntentHolds

------------------------------------------------------------------------------
\* marker_state.
NoMarkers == ~runDir.tomb /\ ~runDir.complete /\ "tmp" \notin runDir.debris

Starts(t) == /\ tool.at = "idle" /\ starts < MaxStarts
             /\ starts' = starts + 1
             /\ late' = 0
             /\ tool' = t

\* _apply_run up to the witness.  With a receipt its backups are checked, else
\* everything has to be as frozen before they are made.
StartApply ==
    /\ NoMarkers /\ ~sidecar
    /\ runDir.receipt = NoReceipt => FullSnapshot
    /\ Starts([Quiet EXCEPT !.at = IF runDir.receipt = NoReceipt THEN "backup" ELSE "check",
                            !.full = runDir.receipt = NoReceipt])
    /\ UNCHANGED <<data, runDir, sidecar, removed, foreign>>

\* _backup_receipt: one database after the other, into a new directory.
CopyDb ==
    /\ tool.at = "backup" /\ Len(tool.copies) < 4
    /\ tool' = [tool EXCEPT !.copies = Append(@, Content(Axes[Len(@) + 1]))]
    /\ UNCHANGED <<data, runDir, sidecar, removed, late, starts, foreign>>

PublishReceipt ==
    /\ tool.at = "backup" /\ Len(tool.copies) = 4
    /\ runDir' = [runDir EXCEPT !.receipt = tool.copies]
    /\ tool' = [tool EXCEPT !.at = "check"]
    /\ UNCHANGED <<data, sidecar, removed, late, starts, foreign>>

\* The rest of _apply_run before its first write.
Preflight ==
    /\ tool.at = "check"
    /\ ChangeIsBearable /\ ProtectionHolds /\ Precheck /\ IntentHolds
    /\ \E c \in Cands :
        tool' = [HandleChange(tool) EXCEPT !.at = "gate", !.todo = Cands \ {c}, !.cand = c]
    /\ UNCHANGED <<data, runDir, sidecar, removed, late, starts, foreign>>

Axis == Axes[tool.axis]

\* One axis of one candidate in _apply_records: the gate and the snapshot.
BeforeAxis ==
    /\ tool.at = "gate"
    /\ ChangeIsBearable /\ IntentHolds
    /\ tool.unseen # {} /\ ~tool.wrote => Precheck
    /\ Allowed(tool.cand)
    /\ tool' = [HandleChange(tool) EXCEPT
                  !.at = IF AxisDone(tool.cand, Axis) THEN "after" ELSE "write"]
    /\ UNCHANGED <<data, runDir, sidecar, removed, late, starts, foreign>>

\* What a transaction finds once it has the lock: _delete_vector, _delete_graph,
\* _delete_document and _delete_registry.  A document or a registry row that
\* went since the snapshot is not missed.
CasHolds(c, a) ==
    \/ rows[a][c] = "frozen"
    \/ rows[a][c] = "gone" /\ a \in {"document", "registry"}

\* The checks of the whole that a transaction repeats unless they passed since
\* the last foreign commit.  A vector or a document is deleted without one.
InlineHolds(t, a) ==
    a \in {"graph", "registry"} \ t.passed => kept[a] /\ kept["document"]

WriteAxis ==
    LET c == tool.cand
        t == HandleChange(tool)
    IN /\ tool.at = "write"
       /\ ChangeIsBearable
       /\ CasHolds(c, Axis) /\ InlineHolds(t, Axis)
       /\ Axis = "graph" => IntentHolds
       /\ rows' = [rows EXCEPT ![Axis][c] = "gone"]
       /\ links' = [l \in Links |-> IF Axis = "graph" /\ c \in l THEN "gone" ELSE links[l]]
       /\ removed' = removed \cup ({<<Axis, c, rows[Axis][c]>>} \ {<<Axis, c, "gone">>})
       /\ late' = IF ProtectionHolds \/ removed' = removed THEN late ELSE late + 1
       /\ tool' = [t EXCEPT !.at = "after", !.wrote = TRUE,
                            !.passed = @ \cup ({"graph", "registry"} \cap {Axis})]
       /\ UNCHANGED <<alien, kept, runDir, sidecar, starts, foreign>>

AfterAxis ==
    /\ tool.at = "after"
    /\ ChangeIsBearable /\ IntentHolds
    /\ AxisDone(tool.cand, Axis) /\ Allowed(tool.cand)
    /\ tool' = [HandleChange(tool) EXCEPT !.at = "end"]
    /\ UNCHANGED <<data, runDir, sidecar, removed, late, starts, foreign>>

NextAxis(t) ==
    IF t.axis < 4 THEN {[t EXCEPT !.at = "gate", !.axis = @ + 1]}
    ELSE IF t.todo = {} THEN {[t EXCEPT !.at = "finish"]}
    ELSE {[t EXCEPT !.at = "gate", !.axis = 1, !.cand = c, !.todo = @ \ {c}] : c \in t.todo}

\* _axis_end_check: a commit since the snapshot sends the axis round again.
EndAxis ==
    LET t == HandleChange(tool) IN
    /\ tool.at = "end"
    /\ ChangeIsBearable
    /\ t.dirty => ProtectionHolds
    /\ IF tool.unseen # {} THEN tool' = [t EXCEPT !.at = "gate", !.dirty = FALSE]
       ELSE tool' \in NextAxis([t EXCEPT !.dirty = FALSE])
    /\ UNCHANGED <<data, runDir, sidecar, removed, late, starts, foreign>>

FinishApply ==
    /\ tool.at = "finish"
    /\ IntentHolds /\ ProtectionHolds
    /\ tool' = Quiet
    /\ UNCHANGED <<data, runDir, sidecar, removed, late, starts, foreign>>

------------------------------------------------------------------------------
\* A marker is written under a temporary name and renamed; what a dead run
\* leaves of that makes marker_state say "incomplete artifact" for ever.
PrepareRollback ==
    /\ runDir.receipt # NoReceipt /\ NoMarkers
    /\ Starts([Quiet EXCEPT !.at = "tomb"])
    /\ runDir' = [runDir EXCEPT !.debris = @ \cup {"tmp"}]
    /\ UNCHANGED <<data, sidecar, removed, foreign>>

Tombstone ==
    /\ tool.at = "tomb"
    /\ runDir' = [runDir EXCEPT !.tomb = TRUE, !.debris = @ \ {"tmp"}]
    /\ tool' = Quiet
    /\ UNCHANGED <<data, sidecar, removed, late, starts, foreign>>

\* rollback: the markers, and _validate_attempts, which bears no attempt
\* directory without its marker, no torn metadata and no sidecar.
StartRollback ==
    /\ runDir.tomb /\ ~runDir.complete
    /\ runDir.debris = {} /\ ~sidecar
    /\ Starts([Quiet EXCEPT !.at = "attempt"])
    /\ runDir' = [runDir EXCEPT !.debris = {"directory"}]
    /\ UNCHANGED <<data, sidecar, removed, foreign>>

FilesMatch == \A i \in 1..4 : Content(Axes[i]) = runDir.receipt[i]

\* The completed rollback is only verified.
VerifyRollback ==
    /\ runDir.complete /\ runDir.debris = {} /\ ~sidecar
    /\ FilesMatch
    /\ Starts(Quiet)
    /\ UNCHANGED <<data, runDir, sidecar, removed, foreign>>

\* The marker of the attempt; then, per database, its metadata (torn until it
\* is synced) and the file.
PublishAttempt ==
    /\ tool.at = "attempt"
    /\ tool' = [tool EXCEPT !.at = "restore", !.axis = 1]
    /\ runDir' = [runDir EXCEPT !.debris = {}]
    /\ UNCHANGED <<data, sidecar, removed, late, starts, foreign>>

WriteMetadata ==
    /\ tool.at = "restore" /\ tool.axis <= 4
    /\ "torn" \notin runDir.debris
    /\ runDir' = [runDir EXCEPT !.debris = {"torn"}]
    /\ UNCHANGED <<data, tool, sidecar, removed, late, starts, foreign>>

RestoreFile ==
    LET a == Axes[tool.axis]
        copy == runDir.receipt[tool.axis]
    IN /\ tool.at = "restore" /\ "torn" \in runDir.debris
       /\ rows' = [rows EXCEPT ![a] = copy.rows]
       /\ kept' = [kept EXCEPT ![a] = copy.kept]
       /\ IF a = "graph" THEN links' = copy.links[1] /\ alien' = copy.links[2]
          ELSE UNCHANGED <<links, alien>>
       /\ removed' = {r \in removed : r[1] # a}
       /\ runDir' = [runDir EXCEPT !.debris = {}]
       /\ tool' = [tool EXCEPT !.axis = @ + 1]
       /\ UNCHANGED <<sidecar, late, starts, foreign>>

VerifyFiles ==
    /\ tool.at = "restore" /\ tool.axis = 5 /\ runDir.debris = {}
    /\ FilesMatch
    /\ runDir' = [runDir EXCEPT !.debris = {"tmp"}]
    /\ tool' = [tool EXCEPT !.at = "complete"]
    /\ UNCHANGED <<data, sidecar, removed, late, starts, foreign>>

Complete ==
    /\ tool.at = "complete"
    /\ runDir' = [runDir EXCEPT !.complete = TRUE, !.debris = {}]
    /\ tool' = Quiet
    /\ UNCHANGED <<data, sidecar, removed, late, starts, foreign>>

------------------------------------------------------------------------------
\* A check refuses, or the process dies: in WAL mode that may leave a sidecar,
\* which an operator can checkpoint away.
StopTool ==
    /\ tool.at # "idle"
    /\ tool' = Quiet
    /\ sidecar' \in {sidecar, tool.wrote}
    /\ UNCHANGED <<data, runDir, removed, late, starts, foreign>>

Checkpoint ==
    /\ tool.at = "idle" /\ sidecar
    /\ sidecar' = FALSE
    /\ UNCHANGED <<data, runDir, tool, removed, late, starts, foreign>>

\* A connection outside commits; nothing it changed ever is as frozen again.
\* (One between the last look at the restored files and the completion marker
\* is the same as one behind the marker.)
ForeignCommit(a) ==
    /\ tool.at # "complete"
    /\ foreign < MaxForeign /\ foreign' = foreign + 1
    /\ \/ /\ \E c \in Cands, s \in {"changed", "gone"} : rows' = [rows EXCEPT ![a][c] = s]
          /\ UNCHANGED <<links, alien, kept>>
       \/ kept' = [kept EXCEPT ![a] = FALSE] /\ UNCHANGED <<rows, links, alien>>
       \/ /\ a = "graph"
          /\ \/ alien' = TRUE /\ UNCHANGED links
             \/ \E l \in Links, s \in {"changed", "gone"} :
                   links' = [links EXCEPT ![l] = s] /\ UNCHANGED alien
          /\ UNCHANGED <<rows, kept>>
    /\ tool' = IF tool.at = "idle" THEN tool ELSE [tool EXCEPT !.unseen = @ \cup {a}]
    /\ UNCHANGED <<runDir, sidecar, removed, late, starts>>

CleanupNext ==
    \/ StartApply \/ CopyDb \/ PublishReceipt \/ Preflight
    \/ BeforeAxis \/ WriteAxis \/ AfterAxis \/ EndAxis \/ FinishApply
    \/ PrepareRollback \/ Tombstone
    \/ StartRollback \/ VerifyRollback \/ PublishAttempt \/ WriteMetadata \/ RestoreFile
    \/ VerifyFiles \/ Complete
    \/ StopTool \/ Checkpoint
    \/ \E a \in Dbs : ForeignCommit(a)

CleanupSpec == CleanupInit /\ [][CleanupNext]_cleanupVars

------------------------------------------------------------------------------
CleanupTypeOK ==
    /\ rows \in [Dbs -> [Cands -> States]]
    /\ links \in [Links -> States]
    /\ kept \in [Dbs -> BOOLEAN] /\ alien \in BOOLEAN /\ sidecar \in BOOLEAN
    /\ tool.unseen \subseteq Dbs /\ tool.axis \in 1..5
    /\ runDir.debris \subseteq {"tmp", "directory", "torn"}

\* Whatever the tool deleted was as frozen when it went and is so in the backup
\* the receipt names, across resumed runs; and once a protected row has changed
\* under a run, at most the one transaction that is under way deletes still.
CleanupIsRecoverable ==
    /\ \A r \in removed :
          /\ r[3] = "frozen"
          /\ runDir.receipt # NoReceipt
          /\ \A i \in 1..4 : Axes[i] = r[1] => runDir.receipt[i].rows[r[2]] = "frozen"
    /\ late <= 1

\* The completion marker says that all four files hold the backup of one
\* receipt, however many attempts it took and whatever was committed between.
RollbackIsWhole ==
    [][~runDir.complete /\ runDir'.complete =>
        /\ runDir.tomb /\ removed' = {}
        /\ \A i \in 1..4 : Content(Axes[i])' = runDir'.receipt[i]]_cleanupVars
==============================================================================
