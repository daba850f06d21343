------------------------------- MODULE NodeIndex -------------------------------
(***************************************************************************)
(* The node index of the SQLite document store: one entry per row of       *)
(* doc_nodes, kept by the store's writes, by triggers that list the keys   *)
(* it does not reflect yet, and by the backfill; and the search that       *)
(* answers from it, or from the index in memory while it is not ready.     *)
(*                                                                         *)
(* Every action on the database is one transaction.  A row's revision      *)
(* stands for its text, an entry's for the terms made of it.               *)
(***************************************************************************)
EXTENDS Naturals, FiniteSets, FiniteSetsExt

CONSTANTS
    NodeKeys,              \* the keys of doc_nodes, as numbers in their order
    IndexPacks,
    Openers, Service,      \* processes; the one whose queries are followed
    SettingWorlds,         \* format and max_text_chars of each process
    NoEntry,
    IndexBatch,            \* keys of a transaction of backfill or drain
    MaxNodeWrites, MaxFaults

RowsOfNodes == [rev : 0 .. MaxNodeWrites, pack : IndexPacks]
Chars == UNION {{w[p].chars : p \in Openers} : w \in SettingWorlds}
Formats == UNION {{w[p].format : p \in Openers} : w \in SettingWorlds}
EntriesOf == [rev : 0 .. MaxNodeWrites, pack : IndexPacks, chars : Chars]
Metas == [format : Formats, chars : Chars, state : {"backfill", "ready"}, cursor : NodeKeys \cup {0}]

ASSUME IndexAssumption ==
    /\ NodeKeys \subseteq Nat \ {0} /\ IsFiniteSet(NodeKeys) /\ Service \in Openers
    /\ IndexBatch \in Nat \ {0} /\ {MaxNodeWrites, MaxFaults} \subseteq Nat
    /\ NoEntry \notin RowsOfNodes \cup EntriesOf \cup Metas

VARIABLES
    settings,   \* of each process
    opened,     \* "closed", "indexed" or "unsupported" for each process
    nodeRow, entry,
    owed,       \* doc_nodes_bm25_pending
    indexed,    \* doc_count of doc_nodes_bm25_stats
    indexMeta,  \* doc_nodes_bm25_meta, NoEntry when dropped
    rebuilt,    \* doc_nodes was made anew, without the triggers
    writer,     \* of the service: "idle", "look" or "note"
    asker,      \* of the service: "idle" or "entered"
    noted,      \* _bm25_invalidation_skipped
    missed,     \* a write that the index in memory was not told of
    nodeWrites, faults

tables == <<nodeRow, entry, owed, indexed, indexMeta, rebuilt>>
paths == <<writer, asker, noted, missed>>
indexVars == <<settings, opened, tables, paths, nodeWrites, faults>>

-----------------------------------------------------------------------------
NodeIndexTypeOK ==
    /\ settings \in SettingWorlds
    /\ opened \in [Openers -> {"closed", "indexed", "unsupported"}]
    /\ nodeRow \in [NodeKeys -> RowsOfNodes \cup {NoEntry}]
    /\ entry \in [NodeKeys -> EntriesOf \cup {NoEntry}]
    /\ owed \subseteq NodeKeys /\ indexed \in 0 .. Cardinality(NodeKeys)
    /\ indexMeta \in Metas \cup {NoEntry}
    /\ writer \in {"idle", "look", "note"} /\ asker \in {"idle", "entered"}
    /\ {rebuilt, noted, missed} \subseteq BOOLEAN
    /\ nodeWrites \in 0 .. MaxNodeWrites /\ faults \in 0 .. MaxFaults

IndexInit ==
    /\ settings \in SettingWorlds
    /\ opened = [p \in Openers |-> "closed"]
    /\ nodeRow \in [NodeKeys -> {NoEntry} \cup [rev : {0}, pack : IndexPacks]]
    /\ entry = [k \in NodeKeys |-> NoEntry]
    /\ owed = {} /\ indexed = 0 /\ indexMeta = NoEntry /\ rebuilt = FALSE
    /\ writer = "idle" /\ asker = "idle" /\ noted = FALSE /\ missed = FALSE
    /\ nodeWrites = 0 /\ faults = 0

Present(f) == {k \in NodeKeys : f[k] # NoEntry}
Fault == faults < MaxFaults /\ faults' = faults + 1
\* is_ready.
Serves(p) == opened[p] = "indexed" /\ indexMeta # NoEntry
             /\ indexMeta.state = "ready" /\ indexMeta.format = settings[p].format

\* _require_format.
Writable(p) == indexMeta # NoEntry /\ indexMeta.format = settings[p].format

-----------------------------------------------------------------------------
(* Opening and dropping. *)

NewMeta(p, state) ==
    [format |-> settings[p].format, chars |-> settings[p].chars, state |-> state, cursor |-> 0]

\* Mutant: the restart only puts the cursor back.
PutsCursorBack(p) ==
    /\ indexMeta' = NewMeta(p, "backfill") /\ owed' = {} /\ UNCHANGED <<entry, indexed>>

\* Mutant: the restart empties the entries but not their count.
KeepsTheCount(p) ==
    /\ indexMeta' = NewMeta(p, "backfill") /\ owed' = {}
    /\ entry' = [k \in NodeKeys |-> NoEntry] /\ UNCHANGED indexed

\* _reset.
Reset(p) ==
    /\ indexMeta' = NewMeta(p, "backfill") /\ owed' = {}
    /\ entry' = [k \in NodeKeys |-> NoEntry] /\ indexed' = 0

CreateIndex(p) ==
    /\ indexMeta' = NewMeta(p, IF Present(nodeRow) = {} THEN "ready" ELSE "backfill") /\ owed' = {}
    /\ entry' = [k \in NodeKeys |-> NoEntry] /\ indexed' = 0

IsStale(p) ==
    \/ indexMeta.format # settings[p].format \/ indexMeta.chars # settings[p].chars
    \/ indexMeta.state = "ready" /\ owed = {} /\ Cardinality(Present(nodeRow)) # indexed

\* _init_node_bm25, ensure_schema.
OpenStore(p) ==
    /\ opened[p] = "closed"
    /\ \/ /\ opened' = [opened EXCEPT ![p] = "indexed"] /\ rebuilt' = FALSE
          /\ IF indexMeta = NoEntry THEN CreateIndex(p)
             ELSE IF IsStale(p) THEN Reset(p) ELSE UNCHANGED <<entry, owed, indexed, indexMeta>>
          /\ UNCHANGED faults
       \/ /\ Fault /\ ~rebuilt
          /\ opened' = [opened EXCEPT ![p] = "unsupported"]
          /\ UNCHANGED tables
    /\ UNCHANGED <<settings, nodeRow, paths, nodeWrites>>

\* The end of a process, and with it of what the service's query object knows.
CloseStore(p) ==
    /\ opened[p] # "closed"
    /\ opened' = [opened EXCEPT ![p] = "closed"]
    /\ IF p = Service
       THEN writer' = "idle" /\ asker' = "idle" /\ noted' = FALSE /\ missed' = FALSE
       ELSE UNCHANGED paths
    /\ UNCHANGED <<settings, tables, nodeWrites, faults>>

\* node_bm25_drop: the triggers go too.  Other processes may still be open.
DropIndex(p) ==
    /\ opened[p] = "indexed"
    /\ indexMeta' = NoEntry /\ owed' = {} /\ indexed' = 0
    /\ entry' = [k \in NodeKeys |-> NoEntry]
    /\ opened' = [opened EXCEPT ![p] = "unsupported"]
    /\ UNCHANGED <<settings, nodeRow, rebuilt, paths, nodeWrites, faults>>

-----------------------------------------------------------------------------
(* Writing. *)

\* Mutant: the entry is made with this process's own setting.
EntryOfOwn(p, row) == IF row = NoEntry THEN NoEntry ELSE [rev |-> row.rev, pack |-> row.pack, chars |-> settings[p].chars]

\* The entry of a row: its terms are cut as the index's meta says.
EntryOf(p, row) == IF row = NoEntry THEN NoEntry ELSE [rev |-> row.rev, pack |-> row.pack, chars |-> indexMeta.chars]

\* reindex_key of each of ks, of the rows as they are after this transaction.
Reindex(p, ks) ==
    /\ entry' = [k \in NodeKeys |-> IF k \in ks THEN EntryOf(p, nodeRow'[k]) ELSE entry[k]]
    /\ indexed' = indexed - Cardinality(Present(entry) \cap ks) + Cardinality({k \in ks : nodeRow'[k] # NoEntry})

ChangeRow(k, row) ==
    /\ nodeWrites < MaxNodeWrites /\ nodeWrites' = nodeWrites + 1
    /\ row # NoEntry \/ nodeRow[k] # NoEntry
    /\ nodeRow' = [nodeRow EXCEPT ![k] = row]

Listed(k) == IF indexMeta = NoEntry THEN owed ELSE owed \cup {k}

\* _exec_node_write: the reindexing runs in a savepoint, and the key stays
\* listed where it fails.
WriteNode(p, k, row) ==
    /\ opened[p] # "closed" /\ ~rebuilt
    /\ p = Service => writer = "idle"
    /\ ChangeRow(k, row)
    /\ \/ /\ opened[p] = "indexed" /\ Writable(p)
          /\ Reindex(p, {k}) /\ owed' = owed \ {k}
          /\ UNCHANGED faults
       \/ /\ \/ opened[p] = "unsupported" \/ ~Writable(p)
             \/ faults < MaxFaults
          /\ faults' = IF opened[p] = "indexed" /\ Writable(p) THEN faults + 1 ELSE faults
          /\ owed' = Listed(k)
          /\ UNCHANGED <<entry, indexed>>
    /\ IF p = Service THEN writer' = "look" /\ missed' = TRUE ELSE UNCHANGED <<writer, missed>>
    /\ UNCHANGED <<settings, opened, indexMeta, rebuilt, asker, noted>>

\* Direct SQL: the deletion of a pack, a script, code that knows no index.
RawWrite(k, row) ==
    /\ ~rebuilt
    /\ ChangeRow(k, row)
    /\ owed' = Listed(k)
    /\ UNCHANGED <<settings, opened, entry, indexed, indexMeta, rebuilt, paths, faults>>

\* The table is made anew without a row while no process is open.
RebuildTable(k) ==
    /\ \A p \in Openers : opened[p] = "closed"
    /\ indexMeta # NoEntry
    /\ indexMeta.state = "ready" /\ owed = {} /\ ~rebuilt
    /\ nodeRow[k] # NoEntry /\ Fault
    /\ nodeRow' = [nodeRow EXCEPT ![k] = NoEntry] /\ rebuilt' = TRUE
    /\ UNCHANGED <<settings, opened, entry, owed, indexed, indexMeta, paths, nodeWrites>>

Batches(ks) == kSubset(IF Cardinality(ks) < IndexBatch THEN Cardinality(ks) ELSE IndexBatch, ks)

\* drain: by a search without waiting for a lock, by node_bm25_sync_pending
\* with it.  A key that cannot be reindexed puts the transaction back: nothing.
Drain(p) ==
    /\ opened[p] = "indexed" /\ Writable(p) /\ owed # {}
    /\ nodeRow' = nodeRow
    /\ \E ks \in Batches(owed) : Reindex(p, ks) /\ owed' = owed \ ks
    /\ UNCHANGED <<settings, opened, indexMeta, rebuilt, paths, nodeWrites, faults>>

NextKeys == LET after == {k \in Present(nodeRow) : k > indexMeta.cursor}
            IN {k \in after : Cardinality({x \in after : x < k}) < IndexBatch}

\* Mutant: the last step drains one batch, and empties the list.
DrainsOnce(p) == \E ks \in Batches(owed) : Reindex(p, ks) /\ owed' = {}

\* The last step drains every key that is listed.
DrainsAll(p) == Reindex(p, owed) /\ owed' = {}

\* backfill_step.
BackfillStep(p) ==
    /\ opened[p] = "indexed" /\ Writable(p) /\ indexMeta.state = "backfill"
    /\ nodeRow' = nodeRow
    /\ IF NextKeys # {}
       THEN /\ Reindex(p, NextKeys) /\ owed' = owed \ NextKeys
            /\ indexMeta' = [indexMeta EXCEPT !.cursor = Max(NextKeys)]
       ELSE /\ DrainsAll(p)
            /\ indexMeta' = [indexMeta EXCEPT !.state = "ready"]
    /\ UNCHANGED <<settings, opened, rebuilt, paths, nodeWrites, faults>>

-----------------------------------------------------------------------------
(* Searching. *)

\* Mutant: a key that is listed is answered with its old entry.
ShowsListed(k, pack) ==
    entry[k] # NoEntry /\ entry[k].pack = pack /\ nodeRow[k] # NoEntry /\ nodeRow[k].pack = pack

\* checked: of the entry's pack, not listed, and still of that pack.
Shows(k, pack) ==
    /\ entry[k] # NoEntry /\ entry[k].pack = pack /\ k \notin owed
    /\ nodeRow[k] # NoEntry /\ nodeRow[k].pack = pack

\* search: in one snapshot, and only while the index serves; otherwise the
\* query takes the way through memory.
Hits(pack) == {k \in NodeKeys : Shows(k, pack)}
Warned == owed # {}

\* invalidate_bm25_cache, by the thread that has written.
LookBeforeNote ==
    /\ writer = "look"
    /\ IF Serves(Service) THEN writer' = "note" /\ UNCHANGED missed
       ELSE writer' = "idle" /\ missed' = FALSE
    /\ UNCHANGED <<settings, opened, tables, asker, noted, nodeWrites, faults>>

NoteSkip ==
    /\ writer = "note"
    /\ noted' = TRUE /\ writer' = "idle"
    /\ UNCHANGED <<settings, opened, tables, asker, missed, nodeWrites, faults>>

\* _memory_path_entered: the note is taken off, then the worker is told.
EnterMemoryPath ==
    /\ opened[Service] # "closed" /\ asker = "idle" /\ noted
    /\ noted' = FALSE /\ asker' = "entered"
    /\ UNCHANGED <<settings, opened, tables, writer, missed, nodeWrites, faults>>

TellMemory ==
    /\ asker = "entered"
    /\ missed' = FALSE /\ asker' = "idle"
    /\ UNCHANGED <<settings, opened, tables, writer, noted, nodeWrites, faults>>

-----------------------------------------------------------------------------
IndexNext ==
    \/ \E p \in Openers :
          OpenStore(p) \/ CloseStore(p) \/ DropIndex(p) \/ Drain(p) \/ BackfillStep(p)
    \/ \E k \in NodeKeys :
          \/ \E row \in {NoEntry} \cup [rev : {nodeWrites + 1}, pack : IndexPacks] :
                RawWrite(k, row) \/ \E p \in Openers : WriteNode(p, k, row)
          \/ RebuildTable(k)
    \/ LookBeforeNote \/ NoteSkip \/ EnterMemoryPath \/ TellMemory

IndexSpec == IndexInit /\ [][IndexNext]_indexVars

-----------------------------------------------------------------------------
(* Properties. *)

\* While the triggers stand, a key that is neither listed nor still before the
\* backfill has exactly the entry of its row, whoever wrote it, whatever failed
\* and whichever process restarted the index with other settings; the counts
\* that the scores are made of are those of the entries.
Reached(k) == indexMeta.state = "ready" \/ k <= indexMeta.cursor

EntriesAreRows ==
    indexMeta # NoEntry /\ ~rebuilt =>
        /\ \A k \in NodeKeys \ owed :
              IF entry[k] = NoEntry THEN Reached(k) => nodeRow[k] = NoEntry
              ELSE /\ nodeRow[k] # NoEntry
                   /\ entry[k] = [rev |-> nodeRow[k].rev, pack |-> nodeRow[k].pack, chars |-> indexMeta.chars]
        /\ indexed = Cardinality(Present(entry))

\* A write that the index in memory was not told of is one that the next search
\* of it tells it of.
SkipsAreNoted == missed => noted \/ writer # "idle" \/ asker = "entered"

\* What a search answers from the index was made of the rows as they are, and
\* is every row of the pack unless it says that rows are missing.
AnswersAreCurrent ==
    (\E p \in Openers : Serves(p)) /\ ~rebuilt => \A pack \in IndexPacks :
        LET ofPack == {k \in NodeKeys : nodeRow[k] # NoEntry /\ nodeRow[k].pack = pack}
        IN /\ Hits(pack) \subseteq ofPack /\ (Warned \/ ofPack = Hits(pack))
           /\ \A k \in Hits(pack) : entry[k].rev = nodeRow[k].rev

IndexIsHonest == EntriesAreRows /\ SkipsAreNoted /\ AnswersAreCurrent
=============================================================================
