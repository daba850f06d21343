# A TLA+ verification of localcrab

localcrab (package `opencrab`) is a local, single-directory knowledge-graph server. Content is
organised in **packs**; agents reach it over MCP, operators over a command line and a set of
maintenance scripts. A pack's rows live in several stores that have **no common transaction**: an SQL
registry, a graph, a document store and a vector store. Most of what is hard in this code follows from
that: calls that stop half way, store calls whose answer is lost, and operators' passes that must tell
a dead call from a slow one. This directory models those parts, model-checks them with TLC and proves
the main invariants with TLAPS.

All paths below are relative to the repository; `PROJECT.json` maps every definition to the lines it
translates.

## 1. Inventory

### 1.1 Components, their state and their operations

| Component | State | Hard behaviour | What makes it correct | Model |
|---|---|---|---|---|
| Keyword index cache (`ontology/query.py`) | published index, epoch, dirty, wake, cold-build lock, the "invalidation skipped" mark | writers, searchers and a daemon thread interleave; a fingerprint that an in-place edit leaves unchanged; failing probes | no published index claims a write it misses; nothing goes back; every invalidation reaches an index | `Bm25CacheWorker` |
| Database node index (`stores/_node_bm25_sqlite.py`) | entries, triggers' list of keys, backfill cursor, readiness | writers and a drop while it is filled; processes with other settings | a ready index shows what the rows say, or lists what it owes | `NodeIndex` |
| Hybrid search and pack selection (`stores/_node_bm25_prune.py`, `services/pack_selection.py`, `pack/read_scope.py`) | none of its own | pruning by bounds; packs that change between five reads | the pruned result is the full one; a search stays in the caller's scope | `PrunedSearch`, `PackSelection` |
| Pack registry and life cycle (`pack/ownership.py`, `pack/lifecycle.py`, `pack/fork.py`, `mcp/tools/pack.py`) | rows `creating`/`ready`/`partial`, graph anchors, `write.lock` per data directory | lost answers, late commits, crashes, two hosts with two locks, operators acting on an earlier read | visible packs are complete; no orphans; young rows are spared; every row is settled | `PackLifecycle` |
| Copy of a pack (`pack/fork.py`, `pack/fork_remap.py`) | the copied rows | the source changes under the copy; ids that collide after remapping | nothing dangles; "ready" is whole; the answer is true | `ForkCopy` |
| Pack content deletion (`pack/load.py`, `pack/delete_journal.py`) | journal file, lock file, content in three stores | partial failures, crashes between commits, writers that go on | nothing is left that can no longer be found; deletion only with licence | `DeletePackJournal` |
| Pack loaders (`pack/load.py`) | rows of three stores, digests | batches, one-by-one fallback, a finaliser that removes what it did not see | a load that ends well is repeated as a no-op; only stale rows go | `PackLoad` |
| Source texts (`pack/source_writer.py`, document stores, `recover_source_vectors.py`) | a source's row, helper row, node, vector | several hosts, crashes between legs, lock order of deletions | a whole text is proved; ranges are of one text; no lock circle | `SourceText` |
| File locks (`locking.py`) | per-path re-entrant lock, held table, OS lock, holder record | threads and processes, re-entrance, timeouts over two locks in a row | exclusion; a timeout leaves nothing held | `FileLock`, `SharedLock` |
| SQL graph stores (`stores/_sql_graph_base.py`, `migrate_graph_identity.py`) | nodes, edges, plan, receipts | cutover to unique identities, edited plans, repeated requests | the graph is whole; a committed request keeps its receipt | `GraphMigration` |
| Neo4j store (`stores/neo4j_store.py`) | nodes, edges, schema, lock node | schema set-up by several, transient errors, lost commits | a store writes only to the target schema; compare-and-set replaces what was read | `Neo4jGraph` |
| Vector stores (`stores/*vector*`, `chroma_store.py`, `sqlite_vec_store.py`) | slots with owners, binary cache | packs meet in a slot; a replacement in two calls; a cache nobody else invalidates | slots keep their owners; a search misses nothing near | `VectorSlots`, `VectorSearch` |
| Embedding model (`stores/llamacpp_embedding.py`) | a model with leases, idle timer | the timer against load and use | no model is closed under an inference | `EmbeddingFallback` |
| Backup (`stores/backup.py`) | sets of copies | WAL, hot journals, power loss | an accepted set is one moment | `BackupRun` |
| Ontology builder (`ontology/builder.py`, `mcp/tools/graph.py`) | none of its own | one store of several failing, two writers of one id | what is answered written is everywhere; packs keep their rows | `OntologyWrite` |
| Approvals and workflow (`execution/`) | queue rows, run rows | two reviewers, stale status | no decision is overwritten | `ActionWorkflow` |
| Users and tokens (`auth.py`) | users, tokens | servers that start on an empty directory | at most one local user | `LocalBootstrap`, `McpHttp` |
| MCP server and HTTP app (`mcp/`) | queue of lookups, two pools, context | a token store that hangs, revoked tokens, a context built by one thread | effects are the caller's own; every request is answered | `McpHttp` |
| Schema packs (`schemas/`) | YAML files shared with people | look, then write; processes that die | people's files go only unseen, by force, or for naming the pack | `SchemaPacks` |
| Operators' scripts (`scripts/`) | plans, receipts, journals, reports | kills, other writers, stale plans | what is reported done is done; others' rows are left alone as of the last look | `CleanupRun`, `SpaceBackfill`, `PackOwnership`, `NoneOwnerRepair`, `MismatchRepair`, `Reconcile`, `StoreMigration` |
| Kuzu, SQL store and factory, impact and rebac, grammar, action registry, command line, extraction, media, observability, cloud export, web API, crabharness, measurement scripts | static tables, wiring or pure I/O | | | not modelled |

### 1.2 How they interact

* `mcp/tools/_registry.py` dispatches writing tools under `write.lock` of the data directory.
  `pack_create` and `pack_fork` run inside it, the operators' passes of `lifecycle.py` take the same
  lock, and `delete_pack` takes **another** lock file, one per pack. `bootstrap.lock` is a third.
* `HybridQuery.ingest` commits documents and then calls `invalidate()` on the cache worker, unless
  the database's own node index serves searches; searches take the other direction when that index
  is not ready.
* `delete_pack` empties a pack but leaves its registry row; `ensure_anchor` can restore the anchor.
* Registry rows gate everything else: the write gate (`pack/write_gate.py`) lets content be written
  to a ready pack, and to a creating one only by the call that reserved it.
* A node and a chunk with one id share one vector slot; the loader, the builder, the sources and the
  deletion all meet there.

## 2. Plan

Done: the core (`Bm25CacheWorker`, `PackLifecycle`, `DeletePackJournal`, `FileLock`), then the loaders
and stores, the write paths, the searches, the services and the scripts; the proofs of section 6.

Next, in this order:

1. `EmbeddingFallback` with the chain of servers of `resilient_embedding.py`.
2. PostgreSQL in the cutover of `GraphMigration`; the graph copy of `StoreMigration`.
3. `FileLock` with the registry of Chroma handles, and its callers' order of locks.

## 3. The modules

Every module has the component's parameters as CONSTANTS with named assumptions, one action per
operation, a type invariant and its properties at the end. `*_proofs` modules hold the theorems. A
definition introduced by a comment "Mutant: ..." is a plausible bug, used by nobody; it shows that the
property named with it in `PROJECT.json` can fail.

The `MC*` modules give constants their values. Three of them stand for one module (`MCBm25CacheWorker`,
`MCPackLifecycle`, `MCDeletePackJournal`). Five are **sums** of components that share no state:
`MCServices`, `MCStores`, `MCWrites`, `MCSearch`, `MCRepairs`. There `Init` chooses which component moves
(`part`, `engineOf`, ...), the others rest in one initial state, and `Next` is the disjunction. A sum
checks every component completely and no interleaving between them, which is what the code has: the
components of one sum meet in nothing that is modelled. Its invariants are conjunctions of the
components' own, named in the comments there.

### 3.1 Bm25CacheWorker

The documents are a version number `db`, the count of committed writes, and `Fp[v]` is the
fingerprint (row count, latest `updated_at`) of version `v`; two versions may share one. `state` is
the published `Bm25CacheState` with the version its rows were read from (`seen`). Each critical section of
`self._lock` is one action; between two of them any other thread may run.

| Code | Actions |
|---|---|
| `HybridQuery.ingest`, `invalidate_bm25_cache` | `Commit`, `CheckNodeIndex`, `SetSkipped`, `Invalidate` |
| search: `_node_index_search`, `_memory_path_entered`, `_bm25_acquire_state` | `SearchNodeIndex`, `SearchMemory`, `ResetSkipped`, `RunSkipped`, `AcquireState`, `HotProbe`, `MarkStale` |
| `ensure_built` | `ColdEnter`, `ColdReadEpoch`, `ColdProbe`, `ColdRead`, `ColdFail`, `ColdPublish` |
| `_rebuild_loop` | `WorkerWake`, `Snapshot`, `Probe`, `Skip`, `Read`, `RebuildFail`, `Publish`, `WorkerExit` |
| index readiness, `shutdown` | `ToggleReady`, `Shutdown` |

`told` is a history variable: which content version each invalidation spoke of. `swallowed` is the
epoch at which a failed round last gave up. Left out: the rows and their ranking, the cut of the window,
the wait for rest before a rebuild (a delay), coverage warnings.

### 3.2 PackLifecycle

`row[s]` is the registry row of a pack id, with status `free` for no row and `stale` for an
`updated_at` older than the repair threshold. `anchor[s]` is the node in the pack's anchor slot (none,
its own, or a foreign node), `copied[s]` the legs of a fork's copy, and `late` the packs whose anchor
write was not acknowledged and may still commit. A fault makes one store call fail, with its effect or
without it.

| Code | Actions |
|---|---|
| `_negotiate_pack_id`, `_insert_pack`, `_row_is_ours` | `ReserveProbe`, `ReserveInsert`, `Adopt` |
| `pack_create` | `StartCall`, `Identity`, `Discard`, `WriteAnchor`, `Reprobe`, `MarkPartial`, `MarkReady`, `ReconcileCreate`, `Reregister`, `Reinsert`, `Ingest` |
| `_fork_pack_inner` | the same reservation, `WriteAnchor` first, `CopyLeg`, `MarkReady`, `ReconcileFork`, `Demote` |
| `repair_incomplete_packs` | `Scan`, `RepairJudge` (with `Verdict`), `RepairApply` |
| `--promote`, `ensure_anchor` | `PromoteJudge`, `PromoteApply`; `EnsureJudge`, `EnsureWrite` |
| the world | `Crash`, `Age`, `LateCommit`, `DeleteContent`, `DeleteRow` |

`HostOf` says whose `write.lock` a process takes: one data directory, or several hosts that share a
registry. Left out: `ensure_default_pack`, `set_visibility`, the verdicts about the optional stores
(they only choose messages). `delete_pack` is one step here; the next module opens it up.

### 3.3 DeletePackJournal

`journal` is the file (`none`, `kept`, `torn`), with the `created_at` of the registration it was begun
for and the set of axes marked done. `graph`, `twin`, `sources`, `vecs` are the pack's content;
`twin[n]` says whether a node's document is missing, tagged with the `pack_id`, or `legacy`, untagged
and therefore only found through its graph row. `owed` are the nodes a builder has written to the
graph and not yet to the documents. `old` is a history variable: what was there when the call began and
was not written again.

| Code | Actions |
|---|---|
| authorization, `file_lock`, authorization again, journal | `Start`, `TakeLock`, `GiveUp`, `Check` (with `MayProceed`, `SameIdentity`, `Open`) |
| reads | `ReadRows`, `ReadDocs`, `ProbeVectors` |
| `node_twin_loop` | `EnterTwins`, `DeleteTwin`, `CommitTwins` |
| `doc_node_extra_and_sources` | `EnterDocs`, `DeleteDocNodes`, `DeleteSources`, `CommitDocs` |
| `graph_nodes` | `EnterNodes`, `DeleteNode`, `CommitNodes` |
| `vectors`, `_delete_pack_vectors` | `EnterVectors`, `DeleteVectors`, `CommitVectors` |
| return, `clear_journal` | `Return`, `ClearJournal` |
| the world | `Crash`, `WriteNode`, `WriteTwin`, `WriteSource`, `WriteVector`, `VectorsGoDown`, `VectorsComeBack`, `Register`, `Unregister`, `Tear` |

`save_journal` writes a temporary file and replaces the journal, so a save happens or does not. Axes
keep the code's sticky failure flags, and every re-entry condition ("done, but something is back").
A journal of an older version has no identity (`NoSnapshot`) and is accepted, as in the code.
Assumed: a store delete that does not raise deletes what it was asked to. (Chroma recounts and the
code confirms the axis even with survivors; the model does not contain them.) A change of ownership
after the check under the lock does not stop a running call, in the code and in the model.

### 3.4 The services of a process (`MCServices`)

**FileLock** is `locking.py`; **SharedLock** its promise: per lock file one exclusive holder or any
number of shared ones. `rlock` is the `_process_locks` registry, `held` the thread-local table of depths,
`mode` what the operating system granted to each open file (a with block's and a store's long-lived
file are different ones), `pending` the purpose on its way from `write_lock` to the record, `record` the
holder record in the lock file; `blocks` is a history variable, the bodies a thread is in. Actions:
`CallWriteLock`, `CallFileLock`, `GetRLock`, `RLockTimeout`, `Reenter`, `Open`, `OpenFail`, `Flock`,
`FlockFail`, `Record`, `Enter`, `LeaveInner`, `LeaveOuter`, `ReleaseHandle`, `Unlock` for the with
blocks; `CallLife`, `LifeGranted`, `LifeFail`, `ReleaseLife` for `acquire_file_lock`; `Crash`. The
refinement maps a with block to a writer from the moment its body starts until it is left, a store's
handle to a reader. `SharedMode` is `"ex"` on Windows. Left out: the checks on the file's kind (they
choose the error of `OpenFail`), reading a record for a message, `chroma_lock_held` with its registry of
handles, asynchronous exceptions between two lines.

**McpHttp** follows a request from the origin guard (`Arrive`) over the one lookup worker (`TakeLookup`,
`LookUp`, `Settle`, `SettleAnyway`, `SettleTooLate`, `GiveUpWaiting`), the choice of loop or pool
(`HandleOnLoop`, `Offload`, `StartOnPool`) to its calls (`RejectCall`, `TakeWriteLock`, `BeginBuild`,
`OpenStore`, `Publish`, `RunTool`, `Finish`); tokens and users change meanwhile. Tools' own effects are a
record in `done`. Not modelled: legacy bodies that are no object, cancellation after offloading.

**EmbeddingFallback** (leases, loads, the timer that takes a model out and closes it) is
`llamacpp_embedding.py`; the chain of `resilient_embedding.py` is left out (there `_resume` may be
overwritten by a concurrent success, lines 201/205). **LocalBootstrap** is `maybe_bootstrap_on_empty`
under `bootstrap.lock` against `opencrab init` without it. **ActionWorkflow** has the two engines of
`execution/`, which only tests call.

### 3.5 Loading and migrating stores (`MCStores`)

| Module | Code | What is abstracted |
|---|---|---|
| `PackLoad` | full and incremental loads: `WriteNode`/`FailNode`/`ConflictNode`, `SkipNode`, `WriteEdge`, `QueueChunk`, `RewriteMeta`, `FlushVectors` with its one-by-one fallback (`FlushSource`, `FlushSingle`), finalisation (`DropNodes`, `DropDocs`, `DropSources`, `DropEdges`, `DropVectors`, `StopAtPin`) | a vector slot says which text was embedded and whose metadata it carries; the order nodes, edges, chunks, finalise is the caller's; full loads only into an empty pack; one-by-one failures are not bounded. The fingerprints of the documents are read once, at the start (`run.agrees`); when that fails no document's value is compared, rows count as same, and the code only warns (`load.py:2084`, `:2630`): such a run is not `clean`. The anchor, whose document is not compared and which is never deleted, and documents that cannot be made into a fingerprint are left out. Of a file without any edge the loader does not believe that all edges must go and skips that cleanup (`load.py:3363`); `Converges` excepts it |
| `GraphMigration` | `DryRun`, `EditPlan`, `LookUp`, `Commit`, `Settle`, and the writers of the target schema | SQLite only; the dry run's comparison with an earlier fingerprint. The validator does not tie the ends of an edited edge to images of the source's ends; a store object that cached "legacy" may cut over again when raw rows coincide |
| `CleanupRun` | the four databases with data versions and protected rows, `ForeignCommit`, resumption, rollback by restoring files | claim support is part of the protected rows; a protected change before a vector or document transaction is refused only at the end of the axis; every refusal is `StopTool`; `immutable=1` readers that ignore a WAL are left out |
| `SpaceBackfill` | `ScanGraph`, `ScanDocs`, `ScanVectors`, `WriteBatch`, `Reconcile`, `EndRun` | a foreign **graph** change between plan and write does not show as a mismatch, although the docstring says so |
| `PackOwnership` | `BackfillGraph`, `GateGraphPacks`, `GateDocPacks`, `Insert`, `SelectDocs`, `UpdateDocs`, exit codes | local mode; the graph already cut over; vectors are best effort and left out. Graph rows are written with an inferred pack that belongs to someone else *before* the gate of step 3 raises |

### 3.6 Writes (`MCWrites`)

**OntologyWrite**: `add_node` (`BeginNode`, `ReadDigest`, `Probe`, `WriteGraph`, `WriteDoc`,
`RegisterNode`, `WriteVector`, `Bill`, `AnswerNode`) and `add_edge` (`BeginEdge`, `LookUpEnds`,
`ProbeEdge`, `WriteEdge`, `RegisterEdge`, `AnswerEdge`) beside batches, deletions and `AssignPacks`. Each
transaction of the SQL graph is one step. A store's availability does not change; a graph that changes
and changes back between dry run and assignment counts as changed; the document row a retyping replace
leaves behind in the old space is covered by no property.

**SourceText**: `Identify`, `GraphLeg`, the states of the helper row, `LockRow` in its order,
`CommitSource`, `VectorLeg`, `ReadRange`, and the recovery script (`PlanRecovery` ... `FinishRecovery`).
With SQLite every caller holds `write.lock`; on PostgreSQL and MongoDB callers may be on several hosts,
and the time between an identity check and the write it licenses is not closed there. A crash between
"written" in the manifest and the upsert makes every later apply refuse (fail-safe: a new plan).

**Neo4jGraph**: start and classification in five queries, schema set-up, write transactions behind the
lock node, `Commit`, `RollBack`, `LoseCommit`. A store started while another first creates the schema
may classify "legacy" for life; the alias of `backfill_pack_provenance` and `hydrate_evidence` are left out.

### 3.7 Searches (`MCSearch`)

| Module | Code | What is abstracted |
|---|---|---|
| `NodeIndex` | opening with its checks, triggers (`RawWrite`, `Drain`), `BackfillStep` and the switch, `DropIndex`, `RebuildTable`, searches | a row's revision is its text, an entry's the terms made of it. A table rebuild is modelled only while the index is ready, nothing is pending and every process closed: equal row counts are missed by design (docs/issue-541, 4.4) |
| `PrunedSearch` | `ScanPending`, `FinishCandidates`, `TakeTerm`, `Choose` of the MaxScore selection | exact sums instead of floats (the margin for rounding is left out); the estimates of cost choose nondeterministically |
| `VectorSlots` | `upsert_texts`, `add_texts`, `import_vectors`, `delete`, `get_by_id` of the three backends, Chroma's undo and replay | texts, embeddings and metadata values are the batch that wrote them; Chroma is one process; `reset_collection` and raw handles are left out |
| `VectorSearch` | strategy, scans, the binary cache (`LookAtCache`, `PublishCache`, `Refine`), pgvector's statement | distances are fixed and distinct; the coarse stage keeps all candidates |
| `PackSelection` | the five reads, the choice by words and by content, start-up checks, both callers | a failing read of the scope is an error answer; ties in score are nondeterministic; `PackRegistryCache` is used by nobody |

### 3.8 Operators' tools (`MCRepairs`)

| Module | Code | Limits |
|---|---|---|
| `ForkCopy` | `ReadRows`, `ReadVectors`, `Reserve`, `CheckTarget`, `PutNodes` ..., `VerifyCopy`, `MarkReadyCopy`, `DemoteCopy` | the source is chosen afresh at every read; a reference to a dropped content whose id equals the pack id is rewritten as the tag (no claim) |
| `SchemaPacks` | install, uninstall, migration, `EditByHand`, `KillServer` | a kill between truncate and write leaves an empty file that no later install repairs; uninstall does not drop the loader's cache |
| `NoneOwnerRepair` | plan, backup link, one transaction, rollback | a run without a backup whose connection is lost in the commit says "rolled back" although it may have committed (853-857) |
| `MismatchRepair` | selection, approval, legs with guards, resumption | the guard looks for services only between batches; a value written back between two legs is not noticed; a fresh run directory after a half-done P2 does not select the id again |
| `Reconcile` | diagnosis, promotion, backfill, records | no lock: a backfill can create a second document row when the id appeared in another space since the diagnosis; a delete between the second look and the upsert is undone by it |
| `BackupRun` | pinning, copying under and after the lock, verification, flush, rename, power loss | a page is the number of the commit that wrote it; file modes, free space and symlinks are `GiveUp` |
| `StoreMigration` | both directions, credentials, keyless tables, verification, exit codes | `--limit`, dry runs and the graph copy are left out; a partly filled keyless table on PostgreSQL blocks success for ever (rc 5) |

## 4. The runs

| Run | Instance | Distinct states | Shows |
|---|---|---|---|
| `bm25` | 1 writer, 1 searcher, the worker; 2 writes, 1 failure, 2 readiness changes; fair | 293,440 | `EpochCoversWrites`, `OneBuild`, `SkippedIsOwed`, `StaleIsScheduled`, `NeverRegresses`, `EventuallyFresh` |
| `bm25_probe_failure` | 1 failure | violation | finding 1 below |
| `pack_safety` | 2 ids, one create, one fork of 2 legs, one operator of each kind, one host; 2 faults, 1 crash, 1 content deletion, 1 row deleted by hand | 925,000 | `ReadyHasAnchor`, `ForkReadyIsComplete`, `NoOrphan`, `OkMeansReady`, `CallsKeepTheirRows` |
| `pack_two_hosts` | the fork and the repair pass on another host; every INSERT answered; fair | 237,000 | `PacksAreSound` (the four above), `CallsAndRowsEnd` |
| `delete_safety` | 1 deleter called again and again, 2 nodes (one legacy), 1 source, 1 vector; 1 write, 1 fault, 1 outage, 1 crash, 2 registrations, 1 damaged and 1 cleared journal | 6,722,212 | `NoLostTwin`, `HalfDeletedIsRecorded`, `CompleteMeansGone`, `DeletionIsLicensed` |
| `delete_deleters` | 2 deleters, 1 node; 1 fault, 1 outage, 1 crash, fair | 117,990 | `ResidueGoes` |
| `delete_all_done` | 1 deleter, 1 write, 1 crash | violation | finding 2 below |
| `services` | 2 requests, 3 tools, 2 users, a queue of 1; 2 servers and 1 init; 2 embedding threads, 3 models, 3 timers; 2 reviewers; 2 threads on 2 lock files, 2 nested blocks; fair | 326,000 | `HttpIsSafe`, `DecidedOnce`, `NoLeak`, `NobodyWaitsForEver`, `Implements`, `RecordSpeaksForItself` |
| `stores` | 2 loads of a pack with a node and a chunk of one id, 1 fault, 1 refused row; graphs of 3 ids, 2 callers, 1 edit; 2 candidates, 4 starts, 1 foreign commit; 2 records, 3 runs; 3 rows, 3 packs, 3 runs | 1,670,000 | `RunsLeaveWholeStores`, `StoresKeepTheirRows` |
| `writes` | 2 tool calls on 2 nodes and their edge, 1 graph change, 1 fault; 2 sources, 2 movers, 1 mishap; 2 Neo4j clients, 2 transactions of up to 2 items, 1 fault | 2,410,000 | `WritesAreSound`, `WritesSpareOthers` |
| `search` | 2 keys, 2 processes with all settings; 3 documents, 3 terms; 2 slots, 2 writers, 2 faults on three backends; 3 rows, 2 threads and a foreign connection; 2 packs, 5 words | 1,190,000 | `AnswersAreHonest`, `OwnersKeepTheirSlots` |
| `repairs` | 2 ids or files of each kind, 1 foreign write, 2 runs of each tool | 1,570,000 | `RepairsAreSound`, `ToolsSpareOthers` |

`ToolsSpareOthers` is not "nothing unread is replaced". It excepts what the tools do to a write that
comes after their last look (`OverwritesOnlyUnseen`), to a file changed after the look, and to a person's
file whose text names the uninstalled pack (both `SparesPeoplesFiles`; the last against the docstring,
see 5).

The first run of each module also checks its type invariant (of a sum, all of them).

**Bounds.** Each bound counts events of the world (writes, faults, crashes, runs, ...), never steps of
the program. Two writes with a shared fingerprint are the least that shows an edit the fingerprint
misses; two nodes are the least that lets one deletion of a loop fail and the other succeed; two ids are
what a refused slug needs to have an alternative; two legs make half a copy; a result of one row out of
three shows what a wrong bound or a stale cache hides; two runs of a tool show what the second makes of
what the first left. One crash, together with one more fault, suffices for every hazard in the list: the
code restarts from what is stored, so a second crash starts from states the first one already reaches.
The proved properties do not depend on the bounds at all.

**Symmetry** is used for the two callers of `GraphMigration` only; no liveness property is checked there.

**Deadlock** is not checked where calls end for good (`CHECK_DEADLOCK FALSE`): a system with no budget
left may stop. "Something must happen" is stated as liveness instead.

**Fairness.**
* `Bm25CacheWorker`: a thread inside a call goes on (threads are scheduled); nobody has to write,
  search or shut down.
* `PackLifecycle`: a running call goes on; time passes (`Age`); the operator runs the repair pass again
  and again (strong fairness: he gets the lock when it is free often enough). The last is an
  assumption about operators: nothing in the code starts that pass.
* `DeletePackJournal`: a running call goes on; the vector store comes back; the owner resumes again
  and again, and his `lock_timeout` is in the end long enough (`Patience`). Without the last a
  waiter can be unlucky for ever, since the lock gives no order. Resumption is never automatic by contract.
* `FileLock`: a thread inside `locking.py` goes on; nobody has to leave a block or give a handle back.
* `McpHttp`: the loop, the pools' threads and the deadline's timer run; a lookup in the token store may
  never return. `EmbeddingFallback`: threads and timers run.

The tools of `MCStores`, `MCWrites` and `MCRepairs` are started by people and may be left, so nothing is
claimed to happen there.

## 5. Findings

1. `bm25_probe_failure`: the docs of issue 541 say that a rebuild round is passed over only when no
   invalidation landed since the published state was observed; after a failed fingerprint probe the
   loop passes over it all the same. The next search or write repairs it.
2. `delete_all_done`: a resumed `delete_pack` over a finished journal re-enters its axes when content is
   back, but does not open the journal again first. If it dies between the document loop and the node
   loop, the journal says that all axes are done although a node is half deleted, and the documented
   rule for `clear_journal` would remove the only record. Live counts in the report and a further
   resumed run still help.

**Noticed while modelling.** Five properties are defined beside the others, what the code or its
documents say; the code keeps none of them, as small counterexamples of TLC show. They are in no run:

| Property | Where | What happens |
|---|---|---|
| `EmbeddingIsCurrent` (`PackLoad`) | `pack/load.py:2459`, against the table at 2386-2402 | a node whose text changed keeps its old embedding after a failed vector write |
| `ExitZeroLeavesNone` (`PackOwnership`) | `migrate_pack_ownership.py:766` | a document row whose properties are valid JSON but no object counts as updated by an UPDATE that changes nothing: exit 0, row without a pack |
| `MovesAreLegal` (`ActionWorkflow`) | `execution/workflow.py:222` | `advance` reads the status, then updates by `run_id` alone: two callers can move a run out of a final state. (`resolve` in `approvals.py` is one conditional UPDATE and correct.) |
| `RemovesOnlyGenerated` (`SchemaPacks`) | `schemas/pack_registry.py:610`, against the docstring 560-565 | a file counts as generated when the text `pack: <name>` occurs anywhere in it: a person's file that mentions the pack is removed without force, although 207-216 say that the field alone is no proof. `SparesPeoplesFiles`, hence `ToolsSpareOthers`, excepts this case |
| `DeletesAreNoticed` (`VectorSearch`) | `stores/sqlite_vec_store.py:754`, 840-857 | the check that finds the cache stale notes the new `data_version` all the same, so the next one finds it fresh |

Smaller ones: the comment at `migrate_to_local.py:926` calls `OR IGNORE` the only guard against
duplicates of re-runs, but `id` is left out of those rows, so re-runs duplicate `impact_records` and
`lever_simulations`; an unreadable graph row makes the ownership migration exit 1 where its documents
promise 3 with the row skipped.

With two hosts **and** unanswered INSERTs or rows deleted by hand, `ForkReadyIsComplete`, `NoOrphan`,
`OkMeansReady` and the sparing of young rows fail (the residual named in `ownership.py`, around line
295): one call may adopt another's row. That is why `pack_two_hosts` excludes these two and why the
theorems about rows assume `Settled`. `ReadyHasAnchor` holds in every setting.

Residuals without a property: a bulk insert between the count and the scan makes a search's coverage
note wrong for one query (`ontology/query.py:1446`, the code says so itself); the live counts that
distrust a finished journal are read before its axes run (`pack/load.py:1440`); an unreadable answer of
Chroma about survivors is a warning (`pack/load.py:1218`).

## 6. What is proved

For every value of the constants (any number of threads, packs, hosts, nodes, ..., any bounds):

| Module | Theorems | Argument |
|---|---|---|
| `Bm25CacheWorker_proofs` | `TypeCorrect`, `PublishedCoversInvalidations`, `BuildsAreExclusive`, `PublicationIsMonotone` | `IInv`: the counters bound the history; the cold lock is held exactly during a cold build, which means nothing is published; and a candidate at its publish point already covers its epoch (`Covers`), because the epoch is read before the rows |
| | `NoInvalidationIsLost` | whoever cleared the mark still has the invalidation to run, and a writer that saw the node index serving sets the mark before it goes |
| | `NoWakeUpIsLost` | `WakeInv`: what the worker has seen in its round bounds what it may leave unseen; a round that ends without publishing leaves the wake-up, the epoch at which it failed, or the shutdown |
| `PackLifecycle_proofs` | `TypeCorrect`, `ReadyPacksHaveAnchors` | `IInv`: whoever is about to make a row ready has seen the anchor (`AnchorSeen`), only a content deletion removes anchors, and a fork still copying has legs left |
| | `VisibleForksAreWhole`, `GraphIsRegistered`, `AnswersAreTrue`, `PacksStaySound`, `CallsAreLeftAlone` | `SoundInv`: each call in progress owns its row (`CallOf`), no two are at one row (`Apart`), and nobody resolves a row that is not there. Every step obeys three rules (`LockRule`, `TouchRule` and one for the row it is at), and the invariant is preserved by the rules, not action by action |
| `DeletePackJournal_proofs` | `TypeCorrect`, `NoTwinIsLost`, `EveryRestIsRecorded`, `DeletionsAreLicensed` | `IInv`: whoever is inside holds the lock, so the journal changes in no other hands (`InOrder`); beyond the check a call is licensed; and no row it read still has an untagged document once `twins` is marked done (`TwinsFirst`) |
| | `CompletedCallsLeaveNothing` | `SweepInv`: what was there at the start and is still there is in the part of the sweep that is yet to come, or its axis has failed |
| `Services_proofs` | `HttpTypeCorrect`, `RequestsAreSafe` | `HttpIInv`: a request that is open and whose token is good has had a good token since it came (`VouchedWhileGood`); lookups and principals speak of the request's own token; what stands on a pool passed the protocol checks, and each line holds a request once; a call that ran belongs to a request that can only be answered 200 or 202 |
| | `ServicesTypeCorrect`, `DecisionsStand` | `BootIInv`: init takes no lock, and whoever inserts under the lock looked under it; `EmbedIInv`: the one timer that closes and the one thread that loads hold `_llm_lock`, a lease is of the loaded model, and `inflight` counts the leases; `WorkflowIInv` is inductive as it stands. The sum follows from its parts |
| | `TypeCorrect`, `NothingLeaks`, `RecordsSpeakForThemselves`, `ImplementsSharedLock`, `BlocksExclude` | `IInv`: the operating system's table (`TableInv`), the RLock counts the blocks plus the call in progress (`BlockInv`), and a purpose is pending only in its own call (`PurposeInv`). Each step is then a step of `SharedLock` or invisible |
| `Search_proofs` | `StoreIsWhatCallsLeft`, `SlotsStayWithTheirOwners` | `VectorIInv`: who holds the collection's lock; what a Chroma call has staged, merged, removed and added so far, and that its snapshot puts exactly that back; what an SQL writer saw is repeated in its statement |
| | `PrunedSearchIsExact` | `PruneIInv`: a candidate's partial score and the bounds of the terms to come enclose its score, and a document dropped or never admitted has the limit's number of better ones in its group. Sums and counts over the terms are handled by lemmas (`SumIsMonotone`, `SumOfSums`, ...) |
| | `NodeIndexIsHonest` | `IndexIInv`: outside the listed keys every entry is made of its row (`KeysAreSettled`), the count is that of the entries, and a table made anew is found by its count before anybody serves |
| | `SelectionStaysSound` | `SelIInv`: the stages of a query (`SelStages`); a name spelled out scores 100 and more than a candidate of the same row and file without it (`SpelledScoresMore`), so the words decide first |
| | `NearestAreFound` | `SearchIInv`: a cache that a thread finds fresh has every row of the commits it has seen; what a scan took and what is behind it are all rows that match (`GivenOrBehind`), and the nearest of enough are the nearest of all (`NearestAreNearest`) |
| | `SearchesTypeCorrect`, `AnswersStayHonest` | the sum: each invariant is kept by its component's steps and by the others', which do not touch its variables |
| `Writes_proofs` | `NeoStartsWritable`, `NeoReplacesWhatWasRead` | `NeoInv`: one client writes at a time, and only under a lock node; its view differs from the committed graph only by what its kind of write may do to rows it has read (`ViewFits`); and nodes came after the lock nodes, so a start that read "not empty" also finds them (`NothingWrongFound`) |
| | `SourcesStaySound`, `RewritesKeepTexts` | `SourcesInv`: a text counts as whole only if it was vouched for, in the row as in what a caller has read of it (`SourceInv`); the call under SQLite's `write.lock` is the last that began and has passed its legs (`LegsInv`); a row is locked on the way to a commit, in the order of `KeyRank` (`LocksInv`); a recovery holds the lock and fits its manifest (`RecoveryInv`) |
| | `WritesStayWhole`, `PacksStay` | `WriteInv`: what a call has seen of a row or of an edge's ends still holds, as far as its pack and type go, unless something the property excuses touched the row (`CallsAreRight`); a document or vector of another pack counts as claimed by the node (`DocIsClaimed`, `VectorIsClaimed`). Every step moves rows by the rule `Moves`, and the calls of others are carried over by the rule, not action by action |
| | `WritesTypesCorrect`, `WritesSound`, `OthersSpared` | the sum of the three, as in `Search_proofs` |
| `Stores_proofs` | `OwnershipTypeCorrect`, `OwnershipConverges` | `OwnInv`: nothing of a row changes but its pack, once (`RowsFollow`); past the graph stage every graph row has a registered pack, and what is left to fill in was decided as the first run would have (`ChunksAreRight`) |
| | `BackfillTypeCorrect`, `BackfillEndsSettled`, `BackfillSparesSpaces` | `BackInv` and, while no other program writes, `Undisturbed`: a record is as it was first or has the space it is to get, so every scan comes to the decisions of the first; a reconciliation that fits is counted out with the library's facts on finite sets (`ClassCount`) |
| | `CleanupTypeCorrect`, `CleanupRecoverable`, `RollbackRestoresAll` | `CleanInv`: a row still as frozen was so when it was copied (`CopyIsEarlier`); protected rows that changed have been seen or will be before a second transaction (`LateFits`); a restored file has nothing left to give back (`RestoreFits`) |
| | `GraphTypeCorrect`, `GraphStaysWhole`, `CutoverKeepsAll`, `RetriesAreAnswered` | `GraphInv`: a plan nobody edited was made from its source by a mapping file (`Honest`), a receipt in the ledger means the target schema, and a caller that is answered holds the ledger's receipt of its own plan (`CallerFits`). The validator's conditions then give the cutover, for edited plans too |
| | `LoadTypeCorrect`, `LoadsConverge`, `LoadsLoseOnlyStale` | `LoadInv`: a chunk that has its row has a slot of its own or none (`SlotsAreOwn`), an edge not tried has an end that the file does not list (`EdgesTried`), and, of a run nothing disturbed so far, `Unspoilt`: row by row, what the run has passed is as the file says and the rest is as the snapshot |
| | `StoresTypesCorrect`, `StoresAreLeftWhole`, `RowsAreKept` | the sum of the five, as in `Writes_proofs`: a behaviour of the sum is one of each component |
| `Repairs_proofs` | `NoneTypeCorrect`, `NoneRepairStaysSafe`, `OthersStay` | `NoneInv`: the rows held are marked by this run (`HoldsItsMarks`), and the backup's name is this run's from the confirmation to the end of the commit, unless there was nothing to save (`PublicationFits`) |
| | `MisTypeCorrect`, `HeldStay`, `MismatchesAreRepaired` | `MisInv`: the look before a write saw, of every leg, what was recorded or the target, and the legs before this one have been at their targets since, or a service has written there (`LookFits`) |
| | `ForkTypeCorrect`, `ForksAreHonest` | `ForkInv`: what the preflight let through hangs together (`ForkPlanOK`), each row of the copy is a planned one as the call writes it (`ForkCopiesOK`), each phase finds the ones before it finished (`ForkPhaseOK`), and only a whole copy is ready (`ForkVerdictOK`) |
| | `ReconcileTypeCorrect`, `ReconcilingAdds`, `UndisturbedRunsHealAll` | `ReconcileInv`: what was read again for a leg stood in a state since the diagnosis (`RereadFits`), and while no other process has written, the stores are what the run has seen of every id it still has to heal (`SeesAll`) |
| | `BackupTypeCorrect`, `BackupsAreSound` | `BackupInv`: while the lock is held a file recovered from its journal is as at the start (`AsOfStart`); a pinned snapshot and a copy are of one page count, of that moment, or later for the files that do not keep the lock (`CopiesAlign`); and so is every set (`SetsHold`) |
| | `MigrationTypeCorrect`, `MigrationsAreHonest` | `MigInv`: a run reads a table of credentials once and leaves what it read (`MigReads`), past the second check every credential is accounted for (`MigAccounted`), and while nobody else writes, the target holds only what the source holds and all of the tables behind the run (`MigCopies`) |
| | `SchemaTypeCorrect`, `PeoplesFilesStay`, `StubsKeepTheirFields` | `SchemaInv`: a call that is about to act has looked at the file and found it installable or removable (`CallIsLicensed`) |
| | `RepairsTypesCorrect`, `RepairsStaySound`, `ToolsSpare` | the sum of the seven, as in `Stores_proofs`; `ToolsSpare` with the exceptions named in 4 |

Why the strengthenings are needed. `EpochCoversWrites` is not inductive without `BuildInv`: a publish step
could otherwise publish anything. `ReadyHasAnchor` is not without `AnchorSeen`: the anchor is seen in one
step and the row changed in a later one. `NoOrphan` is not without `Apart`: another call could discard the
row between a call's insert and its anchor. `NoLostTwin` is not without `TwinsFirst` and the lock: the
rows were read before the documents went, and another call could have taken the mark back. `NoLeak` and the
refinement are not without `BlockInv`: that a count of 1 is the last level is what makes an inner exit
harmless. `EffectsAreTheCallers` is not without `LinesAreDistinct` (a request that stands twice on a pool
would run after it was answered) and `VouchedWhileGood`. `ModelIsSound` is not without
`TimerOwnsTheLock`: two timers could each hold a model to close. `PacksKeepTheirRows` is not without
`DocIsClaimed`: a document is written many steps after its probe, and if it became another pack's meanwhile
then its node did first, so the graph already refused this call. `Converges` is not without `SlotsAreOwn`, which
says that a chunk whose row is unchanged need not be embedded again, nor without what `ListedNodesFit` says of `agrees`: the document of a row still to come is what its fingerprint was, nor without `EdgesTried`, which says
why an edge may be missing. Its proof attempt also showed that `Converges` had said too much of a file without edges (3.5); the instance has such
a file since. `MismatchesAreRepaired` is not without `LookFits`: a leg is written after a look, and what that
look saw of the other legs is what makes them agree when the last one is done. `BackupsAreSound` is not
without `AsOfStart`: the files are copied one after another, and only the lock makes them of one moment. Each inductive invariant was checked by
TLC on the run's instance before its proof.

The steps follow the actions: a lemma per action or group of actions for the types, one for the
invariant, and the temporal step at the end.

**Assumptions.** The named ASSUMEs of the modules: disjoint sets of processes, bounds in `Nat`, functions
with their domains, sentinels that are no members; TLC evaluates them in every run. `PruneAssumption` says
what the source computes: terms ordered by falling bounds, no score above its term's bound. `SelectionAssumption` gives every pack id a word (`PACK_ID_RE`,
`pack/ownership.py:42`). `SelectionStaysSound` and `AnswersStayHonest` have the hypothesis
`MinScore <= 100`: the threshold is a setting (`OPENCRAB_AUTO_PACK_MIN_SCORE`, 10 by default,
`ontology/pack_registry.py:32`), and one beyond the 100 points of a spelled-out name would leave that name
unchosen, and the choice to the packs' content. `SourceAssumption`
lets a list of ids to delete be in the order of `SourceRank`, because the code sorts them
(`stores/pg_doc_store.py:191`). `WorldsAssumption` and `HoldingsAssumption` say what the stores hold at first: the
edges have their ends, of the types they name and of no other pack. `MigrationAssumption` gives the first
tables the primary keys that `_classify_schema` checks (`stores/local_graph_store.py:161`), and a first
target table its ends. The tools' first stores are
restricted as the programs that write them do: no schema pack is called "none"; the classes of
`MismatchRepair` are disjoint, as its selection makes them (two tables may both be empty); the reads of
`ForkCopy` are sequences of rows of its contents, whose names differ from those of the references; and
`StoreMigration` starts from two installations, the target's helper rows claiming the text they stand
beside (they may also be missing or unreadable), which `SourcesStaySound` proves of the sources' writers;
the source's helper rows may claim anything. Rows and ids are finitely many in `NoneOwnerRepair`,
`MismatchRepair` and `StoreMigration`, where the code counts them. The theorems of
`PackLifecycle_proofs` about rows have the hypothesis `Settled`, one lock host or every INSERT answered and no row deleted
by hand (`CallsAreLeftAlone`: one lock host); section 5 says what happens without it.

**How induction is done.** The libraries' induction theorems take an operator as a parameter, which the
installed provers cannot instantiate. `Search_proofs` takes the least number of a set of naturals instead
(`LeastNumber`, from `WFMin` and `NatLessThanWellFounded`) and derives from it what it needs about sums.

**Only model-checked.** All liveness properties (fairness and ENABLED are out of the prover's reach):
`EventuallyFresh`, `CallsAndRowsEnd`, `ResidueGoes`, `NobodyWaitsForEver`. Every invariant and every
action property of a passing run is a theorem.

## 7. Not modelled

See the last row of the table in 1.1 and "components" in `PROJECT.json`. Not for lack of interest but
because there is nothing to interleave: grammar tables, message texts, exports, media, the web front end,
the command line's parsing. The Kuzu store writes through one connection. Within the modelled components,
section 3 says what is left out.

## 8. Running it

    tlc -config PackSafety.cfg MCPackLifecycle.tla
    tlapm PackLifecycle_proofs.tla
