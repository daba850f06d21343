------------------------------ MODULE BackupRun ------------------------------
(***************************************************************************)
(* stores/backup.py: one set with a copy of every file, taken beside the   *)
(* running service.  Under write.lock a file in WAL mode is only pinned    *)
(* and the others are copied; pinned files are copied after it.  The set   *)
(* is staged, verified, described, flushed and renamed, in this order.     *)
(* A file is as many pages as tell a torn copy from a whole one: two; what *)
(* a page holds is the number of the commit that wrote it, 0 for nothing.  *)
(***************************************************************************)
EXTENDS Naturals, FiniteSets

CONSTANTS
    BFiles,              \* the files of the data directory
    Wal, Plain,          \* SQLite files in WAL mode, and as plain directories
    Unlocked,            \* files that are also written without write.lock
    MaxOps, MaxUnlocked, MaxBackups, MaxLosses    \* bounds

\* The rest is SQLite with a rollback journal.
ASSUME BackupAssumption ==
    /\ Wal \cap Plain = {} /\ Wal \cup Plain \cup Unlocked \subseteq BFiles
    /\ {MaxOps, MaxUnlocked, MaxBackups, MaxLosses} \subseteq Nat

VARIABLES
    liveDb,       \* [BFiles -> [1 .. 2 -> Nat]]: what the files hold
    hot,        \* files with a hot journal: a writer died inside a transaction
    rotten,     \* SQLite files that are damaged inside
    fileWriter,     \* the files that an operation under write.lock has yet to write
    locked,     \* who holds write.lock: nobody, "writer" or "backup"
    bk,         \* the backup that is under way
    sets,       \* what stands under a final name
    ops, unlockedWrites, backups, losses

backupVars == <<liveDb, hot, rotten, fileWriter, locked, bk, sets, ops, unlockedWrites,
                backups, losses>>
storeVars == <<liveDb, hot, rotten, fileWriter>>
boundVars == <<ops, unlockedWrites, losses>>

Sqlite == BFiles \ Plain
Honest == BFiles \ Unlocked
Empty == [k \in 1 .. 2 |-> 0]
NoCopy == [f \in BFiles |-> Empty]

NoBackup == [at |-> "none", todo |-> {}, busy |-> {}, pinned |-> {}, pin |-> NoCopy,
             copy |-> NoCopy, from |-> NoCopy, result |-> "none"]

BackupInit ==
    /\ liveDb = [f \in BFiles |-> [k \in 1 .. 2 |-> 1]]
    /\ hot = {} /\ rotten \in {{}} \cup {{f} : f \in Sqlite} /\ fileWriter = {}
    /\ locked = "nobody" /\ bk = NoBackup /\ sets = {}
    /\ ops = 0 /\ unlockedWrites = 0 /\ backups = 0 /\ losses = 0

------------------------------------------------------------------------------
(* The service. *)

\* What a connection that may write finds: a hot journal is rolled back first.
Recovered(f) == IF f \in hot THEN [k \in 1 .. 2 |-> liveDb[f][2]] ELSE liveDb[f]

\* Mutant: the bytes of the file, as a plain copy takes them.
RawBytes(f) == liveDb[f]

\* What SQLite's online copy of a file starts from.
Opened(f) == Recovered(f)

\* A transaction of whoever opened the file, all of it or nothing.
CommitWrite(f) ==
    /\ liveDb' = [liveDb EXCEPT ![f] = [k \in 1 .. 2 |-> Recovered(f)[k] + 1]]
    /\ hot' = hot \ {f}

StartOperation ==
    /\ ops < MaxOps /\ locked = "nobody"
    /\ ops' = ops + 1 /\ locked' = "writer" /\ fileWriter' = Honest
    /\ UNCHANGED <<liveDb, hot, rotten, bk, sets, unlockedWrites, backups, losses>>

WriteDataFile(f) ==
    /\ f \in fileWriter
    /\ CommitWrite(f) /\ fileWriter' = fileWriter \ {f}
    /\ locked' = IF fileWriter = {f} THEN "nobody" ELSE locked
    /\ UNCHANGED <<rotten, bk, sets, boundVars, backups>>

\* The process dies: its lock goes, and half a transaction may be in the file.
WriterDies(f) ==
    /\ f \in fileWriter /\ locked' = "nobody" /\ fileWriter' = {}
    /\ \/ UNCHANGED <<liveDb, hot>>
       \/ /\ f \in Sqlite \ (Wal \cup hot) /\ hot' = hot \cup {f}
          /\ liveDb' = [liveDb EXCEPT ![f][1] = @ + 1]
    /\ UNCHANGED <<rotten, bk, sets, boundVars, backups>>

WriteUnlocked(f) ==
    /\ unlockedWrites < MaxUnlocked /\ unlockedWrites' = unlockedWrites + 1
    /\ f \in Unlocked /\ CommitWrite(f)
    /\ UNCHANGED <<rotten, fileWriter, locked, bk, sets, ops, backups, losses>>

------------------------------------------------------------------------------
(* backup_data_dir *)

TakeLock ==
    /\ bk.at \in {"none", "over"} /\ backups < MaxBackups /\ locked = "nobody"
    /\ backups' = backups + 1 /\ locked' = "backup"
    /\ bk' = [NoBackup EXCEPT !.at = "capture", !.todo = BFiles,
                              !.from = [f \in BFiles |-> Recovered(f)]]
    /\ UNCHANGED <<storeVars, sets, boundVars>>

\* _run_targets: a file in WAL mode is pinned, a read transaction stays open.
PinFile(f) ==
    /\ bk.at = "capture" /\ bk.busy = {} /\ f \in bk.todo \cap Wal
    /\ bk' = [bk EXCEPT !.todo = @ \ {f}, !.pinned = @ \cup {f}, !.pin[f] = liveDb[f]]
    /\ UNCHANGED <<storeVars, locked, sets, boundVars, backups>>

\* One that is not is copied on the spot; opening it rolls a hot journal back.
StartCopy(f) ==
    /\ bk.at = "capture" /\ bk.busy = {} /\ f \in bk.todo \ Wal
    /\ liveDb' = [liveDb EXCEPT ![f] = IF f \in Sqlite THEN Opened(f) ELSE @]
    /\ hot' = hot \ {f}
    /\ bk' = [bk EXCEPT !.busy = {f}, !.copy[f] = [Empty EXCEPT ![1] = liveDb'[f][1]]]
    /\ UNCHANGED <<rotten, fileWriter, locked, sets, boundVars, backups>>

\* The next pages.  SQLite starts again if the file was written in between;
\* a directory is copied file by file, whatever happens to it.
CopyOn(f) ==
    /\ f \in bk.busy
    /\ IF f \in Sqlite /\ liveDb[f][1] # bk.copy[f][1]
       THEN bk' = [bk EXCEPT !.copy[f] = [Empty EXCEPT ![1] = liveDb[f][1]]]
       ELSE bk' = [bk EXCEPT !.copy[f][2] = liveDb[f][2], !.busy = {}, !.todo = @ \ {f}]
    /\ UNCHANGED <<storeVars, locked, sets, boundVars, backups>>

ReleaseLock ==
    /\ bk.at = "capture" /\ bk.todo = {}
    /\ locked' = "nobody" /\ bk' = [bk EXCEPT !.at = "finish"]
    /\ UNCHANGED <<storeVars, sets, boundVars, backups>>

\* Mutant: the connection reads what the file holds by now.
ByNow(f) == liveDb[f]

SnapshotOf(f) == bk.pin[f]

\* _finish_jobs: each snapshot is copied from its transaction, which then ends.
CopySnapshot(f) ==
    /\ bk.at = "finish" /\ f \in bk.pinned
    /\ bk' = [bk EXCEPT !.copy[f] = SnapshotOf(f), !.pinned = @ \ {f}]
    /\ UNCHANGED <<storeVars, locked, sets, boundVars, backups>>

\* Mutant: what opened is taken for good.
NoCheck(f) == TRUE

\* verify_sqlite: integrity_check of the copy.
Sound(f) == f \notin rotten

\* The copies verified, and described by a manifest.
Check ==
    /\ bk.at = "finish" /\ bk.pinned = {}
    /\ bk' = IF \A f \in Sqlite : Sound(f) THEN [bk EXCEPT !.at = "checked"]
             ELSE [NoBackup EXCEPT !.at = "over", !.result = "refused"]
    /\ UNCHANGED <<storeVars, locked, sets, boundVars, backups>>

FlushTree ==
    /\ bk.at = "checked" /\ bk' = [bk EXCEPT !.at = "flushed"]
    /\ UNCHANGED <<storeVars, locked, sets, boundVars, backups>>

Ready == bk.at = "flushed"

\* One rename; it is in the directory, not yet on the disk.
PublishSet ==
    /\ Ready
    /\ sets' = sets \cup {[id |-> backups, copy |-> bk.copy, manifest |-> bk.copy, from |-> bk.from,
                           flushed |-> bk.at = "flushed", durable |-> FALSE, harmed |-> FALSE]}
    /\ bk' = [bk EXCEPT !.at = "published"]
    /\ UNCHANGED <<storeVars, locked, boundVars, backups>>

\* Mutant: success is reported as soon as the set has its name.
NoFlushOfTheName(s) == s

NameFlushed(s) == [s EXCEPT !.durable = TRUE]

\* The directory flushed, and the run reports success; or BackupDurabilityError.
Conclude ==
    /\ bk.at = "published"
    /\ \/ /\ sets' = {IF s.id = backups THEN NameFlushed(s) ELSE s : s \in sets}
          /\ bk' = [NoBackup EXCEPT !.at = "over", !.result = "success"]
       \/ UNCHANGED sets /\ bk' = [NoBackup EXCEPT !.at = "over", !.result = "published"]
    /\ UNCHANGED <<storeVars, locked, boundVars, backups>>

\* A deadline, a full disk, a snapshot that cannot be closed, or the process
\* dies: the staging directory is removed or stays, the pins and the lock go.
GiveUp ==
    /\ bk.at \in {"capture", "finish", "checked", "flushed"}
    /\ locked' = IF bk.at = "capture" THEN "nobody" ELSE locked
    /\ bk' = [NoBackup EXCEPT !.at = "over", !.result = "failed"]
    /\ UNCHANGED <<storeVars, sets, boundVars, backups>>

\* The power goes: what was not flushed is empty, a name may be gone.
PowerLoss ==
    /\ losses < MaxLosses /\ losses' = losses + 1
    /\ locked' = "nobody" /\ fileWriter' = {}
    /\ \E gone \in SUBSET {s \in sets : ~s.durable} :
        sets' = {[s EXCEPT !.copy = IF s.flushed THEN @ ELSE NoCopy, !.durable = TRUE] : s \in sets \ gone}
    /\ bk' = IF bk.at = "over" THEN bk ELSE NoBackup
    /\ UNCHANGED <<liveDb, hot, rotten, ops, unlockedWrites, backups>>

------------------------------------------------------------------------------
\* What may happen to a set later.
DamageSet(s, f) ==
    /\ losses < MaxLosses /\ losses' = losses + 1
    /\ bk.at = "over" /\ s \in sets
    /\ \E bytes \in {Empty, [k \in 1 .. 2 |-> s.copy[f][k] + k]} :
        sets' = (sets \ {s}) \cup {[s EXCEPT !.copy[f] = bytes, !.harmed = TRUE]}
    /\ UNCHANGED <<storeVars, locked, bk, ops, unlockedWrites, backups>>

SameBytes(x, y) == x = y

\* verify_backup_set: every file of the manifest is there and has its bytes.
BackupVerified(s) == \A f \in BFiles : SameBytes(s.copy[f], s.manifest[f])

BackupNext ==
    \/ StartOperation \/ TakeLock \/ ReleaseLock \/ Check \/ FlushTree \/ PublishSet
    \/ Conclude \/ GiveUp \/ PowerLoss
    \/ \E f \in BFiles :
          \/ WriteDataFile(f) \/ WriterDies(f) \/ WriteUnlocked(f)
          \/ PinFile(f) \/ StartCopy(f) \/ CopyOn(f) \/ CopySnapshot(f)
          \/ \E s \in sets : DamageSet(s, f)

BackupSpec == BackupInit /\ [][BackupNext]_backupVars

------------------------------------------------------------------------------
\* The files, the lock and the run of backup_data_dir keep their types.
BackupTypeOK ==
    /\ liveDb \in [BFiles -> [1 .. 2 -> Nat]] /\ hot \subseteq Sqlite \ Wal
    /\ rotten \subseteq Sqlite /\ fileWriter \subseteq Honest
    /\ locked \in {"nobody", "writer", "backup"}
    /\ bk.busy \subseteq bk.todo /\ bk.pinned \subseteq Wal
    /\ bk.result \in {"none", "success", "published", "refused", "failed"}

\* A set under its final name, whatever died while it was made, can be restored
\* until something hits it, and afterwards if verify_backup_set still accepts it:
\* no SQLite file in it is missing, damaged, torn between two commits or ahead of
\* its journal.
AcceptedIsWhole ==
    \A s \in sets : ~s.harmed \/ BackupVerified(s) =>
        \A f \in Sqlite : /\ f \notin rotten /\ s.copy[f] # Empty
                          /\ s.copy[f][1] = s.copy[f][2]

\* The files that are only written under write.lock are in a set as they were
\* together when the backup took that lock, however long the copy went on; one
\* that is also written without it is as of then or of later.
SetsAreAligned ==
    \A s \in sets : \A f \in Sqlite :
        IF f \in Honest THEN s.manifest[f] = s.from[f] ELSE s.manifest[f][1] >= s.from[f][1]

\* A run that reported success left a set, which no loss of power takes away; one
\* that reported that nothing was published left none.
ReportsAreTrue ==
    /\ bk.result = "success" => \E s \in sets : s.id = backups /\ (losses = 0 => BackupVerified(s))
    /\ bk.result \in {"refused", "failed"} => \A s \in sets : s.id # backups

\* What a backup is for: what is accepted is whole, of one moment, and there.
BackupIsSound == AcceptedIsWhole /\ SetsAreAligned /\ ReportsAreTrue
==============================================================================
