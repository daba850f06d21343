-------------------------- MODULE NoneOwnerRepair --------------------------
(***************************************************************************)
(* scripts/repair_pgvector_legacy_none_owner.py: one statement takes the   *)
(* owner off the pgvector rows that an old writer stamped with the text    *)
(* 'None', and the transaction commits only after a snapshot of those rows *)
(* is published as a file.  A later run can roll the rows back from that   *)
(* snapshot, each only while its xmin is still the repair's.               *)
(*                                                                         *)
(* The tool may be killed at any step, every file operation and every      *)
(* database call may fail, other writers change rows that the tool does    *)
(* not hold, and somebody may replace the temporary file.                  *)
(***************************************************************************)
EXTENDS Integers, FiniteSets

CONSTANTS
    VectorRows,        \* node ids
    MaxToolRuns,       \* runs of the tool, with --apply
    MaxSwaps           \* replacements of the temporary file

ASSUME NoneOwnerAssumption ==
    MaxToolRuns \in Nat /\ MaxSwaps \in Nat /\ IsFiniteSet(VectorRows)

VARIABLES
    vrow,        \* the table: owner, metadata key, and its last writer (xmin)
    held,        \* rows the tool's open transaction has written
    was,         \* their content before it
    toolPc, toolRuns, swaps,
    counted,     \* the expected count
    covered,     \* --backup-to was given
    temp, final, \* directory entries: "none", "ours" (of this run), "other"
    fileRows,    \* the rows of the last published snapshot
    fileRun,     \* and the run that wrote it
    outcome,     \* what really happened to the transaction
    report       \* what the run says: publication state and database outcome

noneVars == <<vrow, held, was, toolPc, toolRuns, swaps, counted, covered, temp, final,
              fileRows, fileRun, outcome, report>>

Owners == {"None", "unowned", "pack", "gone"}
\* xmin, the last writing transaction: the tool's runs are 1, 2, ...
OldWriter == 0
OtherWriter == -1
RowStates == [owner : Owners, key : {"null", "named"}, xmin : -1..MaxToolRuns]

\* Mutant: every row whose owner column says 'None', the pack of that name included
SaysNone(r) == r.owner = "None"

\* The column says 'None' and the metadata has the key with a JSON null.
IsLegacy(r) == r.owner = "None" /\ r.key = "null"

LegacyRows == {v \in VectorRows : IsLegacy(vrow[v])}
SayNothing == [pub |-> "none", db |-> "none"]

NoneInit ==
    /\ vrow \in [VectorRows -> {[owner |-> o, key |-> k, xmin |-> OldWriter] :
                                   o \in {"None", "pack"}, k \in {"null", "named"}}]
    /\ \A v \in VectorRows : vrow[v].owner = "pack" => vrow[v].key = "named"
    /\ held = {} /\ was = vrow /\ toolPc = "idle" /\ toolRuns = 0 /\ swaps = 0
    /\ counted = 0 /\ covered = FALSE /\ temp = "none" /\ final = "none"
    /\ fileRows = {} /\ fileRun = 0 /\ outcome = "none" /\ report = SayNothing

\* A new run has a process id of its own, so it meets no temporary file of an
\* earlier one; the snapshot of an earlier run is a file like any other.
StartRepair ==
    /\ toolPc = "idle" /\ toolRuns < MaxToolRuns
    /\ toolRuns' = toolRuns + 1 /\ toolPc' = "count" /\ covered' \in BOOLEAN
    /\ temp' = "none" /\ final' = (IF final = "ours" THEN "other" ELSE final)
    /\ outcome' = "open" /\ report' = SayNothing
    /\ UNCHANGED <<vrow, held, was, swaps, counted, fileRows, fileRun>>

Fails(next) == toolPc' = next

\* The expected count takes no lock.
CountLegacy ==
    /\ toolPc = "count"
    /\ \/ counted' = Cardinality(LegacyRows) /\ toolPc' = "take"
       \/ Fails("settle") /\ UNCHANGED counted
    /\ UNCHANGED <<vrow, held, was, toolRuns, swaps, covered, temp, final, fileRows, fileRun,
                   outcome, report>>

\* One statement finds, locks and rewrites the rows.
TakeOwnersOff ==
    /\ toolPc = "take"
    /\ \/ /\ vrow' = [v \in VectorRows |->
                        IF v \in LegacyRows
                        THEN [vrow[v] EXCEPT !.owner = "unowned", !.xmin = toolRuns]
                        ELSE vrow[v]]
          /\ held' = LegacyRows /\ was' = vrow
          /\ toolPc' = (IF Cardinality(LegacyRows) # counted THEN "settle"
                        ELSE IF covered /\ LegacyRows # {} THEN "open" ELSE "commit")
       \/ Fails("settle") /\ UNCHANGED <<vrow, held, was>>
    /\ UNCHANGED <<toolRuns, swaps, counted, covered, temp, final, fileRows, fileRun, outcome,
                   report>>

-----------------------------------------------------------------------------
(* The snapshot's publication.                                             *)

\* O_EXCL creates the temporary file; writing and syncing it may still fail,
\* and then it is removed when it is the one that was written.
WriteTemp ==
    /\ toolPc = "open"
    /\ \/ temp' = "ours" /\ toolPc' = "link"
       \/ temp' \in {"none", "ours"} /\ Fails("settle")
    /\ UNCHANGED <<vrow, held, was, toolRuns, swaps, counted, covered, final, fileRows, fileRun,
                   outcome, report>>

RemovesOwn(entry) == IF entry = "ours" THEN "none" ELSE entry

\* The link fails where the name is taken; it links whatever the name has.
LinkFinal ==
    /\ toolPc = "link"
    /\ \/ /\ final = "none" /\ temp # "none"
          /\ final' = temp /\ toolPc' = "confirm" /\ UNCHANGED temp
       \/ /\ temp' \in {temp, RemovesOwn(temp)} /\ Fails("settle") /\ UNCHANGED final
    /\ UNCHANGED <<vrow, held, was, toolRuns, swaps, counted, covered, fileRows, fileRun,
                   outcome, report>>

Says(pub) == report' = [report EXCEPT !.pub = pub]

\* Mutant: the linked file is not compared with the one that was written
TakesTheLink == final # "none"

\* The inode of the linked file is the written one's.
IsConfirmed == final = "ours"

ConfirmFinal ==
    /\ toolPc = "confirm"
    /\ \/ IsConfirmed /\ toolPc' = "clean" /\ UNCHANGED report
       \/ Fails("settle") /\ Says("unconfirmed")
    /\ UNCHANGED <<vrow, held, was, toolRuns, swaps, counted, covered, temp, final, fileRows,
                   fileRun, outcome>>

\* The temporary file goes and the directory is synced; a failure takes the
\* final file back, or says that it stays.
CleanTemp ==
    /\ toolPc = "clean"
    /\ \/ /\ temp \in {"none", "ours"} /\ temp' = "none" /\ toolPc' = "commit"
          /\ fileRows' = held /\ fileRun' = toolRuns
          /\ UNCHANGED <<final, report>>
       \/ /\ temp' \in {temp, RemovesOwn(temp)} /\ Fails("settle") /\ UNCHANGED <<fileRows, fileRun>>
          /\ \/ final' = RemovesOwn(final)
                /\ report' = [report EXCEPT !.pub = IF final = "ours" THEN "none" ELSE "unconfirmed"]
             \/ UNCHANGED final /\ Says("published")
    /\ UNCHANGED <<vrow, held, was, toolRuns, swaps, counted, covered, outcome>>

-----------------------------------------------------------------------------
(* The transaction's end.                                                  *)

Undo ==
    /\ vrow' = [v \in VectorRows |-> IF v \in held THEN was[v] ELSE vrow[v]]
    /\ held' = {} /\ was' = vrow'
Keep == UNCHANGED vrow /\ held' = {} /\ was' = vrow

Published == final = "ours"

CommitRepair ==
    /\ toolPc = "commit"
    /\ \/ /\ Keep /\ outcome' = "committed" /\ toolPc' = "idle"
          /\ report' = [pub |-> IF Published THEN "published" ELSE "not published", db |-> "committed"]
       \/ Undo /\ outcome' = "aborted" /\ toolPc' = "refused" /\ UNCHANGED report
       \/ \* the connection is lost in the commit: the server did either
          /\ \/ Keep /\ outcome' = "committed"
             \/ Undo /\ outcome' = "aborted"
          /\ toolPc' = "lost" /\ UNCHANGED report
    /\ UNCHANGED <<toolRuns, swaps, counted, covered, temp, final, fileRows, fileRun>>

Closes(pub, db) == report' = [pub |-> pub, db |-> db] /\ toolPc' = "idle"

\* The state error of the writer keeps its publication state; otherwise nothing
\* was published before the commit.  A failed rollback leaves the transaction to
\* the end of its connection.
Settle1 ==
    /\ toolPc = "settle"
    /\ Undo /\ outcome' = "aborted"
    /\ \E db \in {"rolled back", "not committed"} :
         Closes(IF report.pub = "none" THEN "not published" ELSE report.pub, db)
    /\ UNCHANGED <<toolRuns, swaps, counted, covered, temp, final, fileRows, fileRun>>

\* Mutant: the backup goes after any failed commit
DiscardsAnyway == TRUE

\* After a lost connection nobody knows, so the backup stays.
DiscardsBackup == toolPc = "refused"

\* A definite failure of the commit takes the backup back when it is provably
\* this process's; a rollback that fails after it leaves the outcome unknown.
SettleCommit ==
    /\ toolPc \in {"refused", "lost"}
    /\ \E rolledBack \in BOOLEAN :
         LET db == IF rolledBack THEN "rolled back" ELSE "unknown"
         IN  IF ~Published THEN UNCHANGED final /\ Closes("not published", db)
             ELSE IF rolledBack /\ DiscardsBackup
             THEN \/ final' = "none" /\ Closes("not published", db)
                  \/ UNCHANGED final /\ Closes("published", db)
             ELSE UNCHANGED final /\ Closes("published", "unknown")
    /\ UNCHANGED <<vrow, held, was, toolRuns, swaps, counted, covered, temp, fileRows, fileRun,
                   outcome>>

KillTool ==
    /\ toolPc \notin {"idle", "refused", "lost"}
    /\ Undo /\ outcome' = "aborted" /\ toolPc' = "idle"
    /\ report' = SayNothing
    /\ UNCHANGED <<toolRuns, swaps, counted, covered, temp, final, fileRows, fileRun>>

-----------------------------------------------------------------------------
(* Rollback: the snapshot's rows one by one, in one transaction.  A target *)
(* whose signature differs from the snapshot's is refused before any row.  *)

StartRollback ==
    /\ toolPc = "idle" /\ toolRuns < MaxToolRuns
    /\ final # "none" /\ fileRows # {}
    /\ toolRuns' = toolRuns + 1 /\ toolPc' = "rollback" /\ held' = {} /\ was' = vrow
    /\ outcome' = "open" /\ report' = SayNothing /\ counted' = 0
    /\ UNCHANGED <<vrow, swaps, covered, temp, final, fileRows, fileRun>>

\* Mutant: a row without an owner is taken to be the repair's
IsUnowned(v) == vrow[v].owner = "unowned"

\* No writer has touched the row since the repair.
IsOfRepair(v) == vrow[v].owner = "unowned" /\ vrow[v].xmin = fileRun

RollRowBack(v) ==
    /\ toolPc = "rollback" /\ v \in fileRows \ held
    /\ IsOfRepair(v)
    /\ vrow' = [vrow EXCEPT ![v].owner = "None", ![v].xmin = toolRuns]
    /\ was' = [was EXCEPT ![v] = vrow[v]] /\ held' = held \cup {v}
    /\ UNCHANGED <<toolPc, toolRuns, swaps, counted, covered, temp, final, fileRows, fileRun,
                   outcome, report>>

\* A row that is not the repair's any more is reported, and the run fails.
EndRollback ==
    /\ toolPc = "rollback"
    /\ \/ /\ \A v \in fileRows \ held : ~IsOfRepair(v)
          /\ Keep /\ outcome' = "committed"
          /\ Closes("none", IF held = fileRows THEN "committed" ELSE "partial")
       \/ Undo /\ outcome' = "aborted" /\ Closes("none", "refused")
    /\ UNCHANGED <<toolRuns, swaps, counted, covered, temp, final, fileRows, fileRun>>

-----------------------------------------------------------------------------
(* Others.                                                                 *)

\* A legitimate writer takes a row over, writes it without an owner, or deletes
\* it; a row the tool has written is locked.
OtherWrites(v) ==
    /\ v \notin held
    /\ \E o \in {"pack", "unowned", "gone"} :
         vrow' = [vrow EXCEPT ![v] = [owner |-> o, key |-> IF o = "pack" THEN "named" ELSE @.key,
                                      xmin |-> OtherWriter]]
    /\ UNCHANGED <<held, was, toolPc, toolRuns, swaps, counted, covered, temp, final, fileRows, fileRun,
                   outcome, report>>

SwapTemp ==
    /\ swaps < MaxSwaps /\ temp = "ours" /\ temp' \in {"none", "other"} /\ swaps' = swaps + 1
    /\ UNCHANGED <<vrow, held, was, toolPc, toolRuns, counted, covered, final, fileRows,
                   fileRun, outcome, report>>

NoneNext ==
    \/ StartRepair \/ CountLegacy \/ TakeOwnersOff \/ WriteTemp \/ LinkFinal \/ ConfirmFinal
    \/ CleanTemp \/ CommitRepair \/ Settle1 \/ SettleCommit \/ KillTool
    \/ StartRollback \/ EndRollback \/ SwapTemp
    \/ \E v \in VectorRows : RollRowBack(v) \/ OtherWrites(v)

NoneSpec == NoneInit /\ [][NoneNext]_noneVars

-----------------------------------------------------------------------------
\* The table's rows, the phases of a run and its report.
NoneTypeOK ==
    /\ \A v \in VectorRows : vrow[v] \in RowStates /\ was[v] \in RowStates
    /\ held \subseteq VectorRows
    /\ toolPc \in {"idle", "count", "take", "open", "link", "confirm", "clean", "commit",
                   "settle", "refused", "lost", "rollback"}
    /\ toolRuns \in 0..MaxToolRuns /\ counted \in 0..Cardinality(VectorRows)
    /\ {temp, final} \subseteq {"none", "ours", "other"}
    /\ outcome \in {"none", "open", "committed", "aborted"}

\* A committed repair that was asked for a backup has one: whichever rows the
\* run took over are in a file that this run published.
RepairIsCovered ==
    toolPc = "idle" /\ outcome = "committed" /\ report.pub # "none" /\ covered =>
        \/ final = "ours" /\ report.pub = "published"
        \/ counted = 0

\* What the run says is so: "rolled back" only when the table is as before,
\* "published" and "not published" only when the file is there, or not.  A run
\* without a backup says "rolled back" of a lost connection as well.
ReportIsTrue ==
    toolPc = "idle" =>
        /\ report.db \in {"rolled back", "not committed", "refused"} =>
              outcome = "aborted" \/ ~covered \/ counted = 0
        /\ report.db \in {"committed", "partial"} => outcome = "committed"
        /\ report.pub = "published" => final = "ours"
        /\ report.pub = "not published" => final # "ours"

\* A row that a pack of the name 'None' owns, or that others wrote after the
\* repair, never carries the tool's mark: the mark stands on former legacy rows.
ToolMarksLegacy ==
    \A v \in VectorRows : vrow[v].xmin > OldWriter => vrow[v].key = "null" /\ vrow[v].owner \in {"unowned", "None"}

NoneRepairIsSafe == RepairIsCovered /\ ReportIsTrue /\ ToolMarksLegacy

\* Nobody else's later write is ever undone: the tool, whether it rolls back or
\* aborts, takes the place of another writer's version only when that writer left
\* the row legacy.
OthersAreKept ==
    [][\A v \in VectorRows :
         vrow[v].xmin = OtherWriter => vrow'[v].xmin = OtherWriter]_noneVars
=============================================================================
