--------------------------- MODULE Bm25CacheWorker ---------------------------
(***************************************************************************)
(* The in-memory BM25 cache of opencrab/ontology/query.py: the class       *)
(* _Bm25CacheWorker (one immutable published state, one daemon rebuild     *)
(* thread, a cold-build lock) and the part of HybridQuery that drives it:  *)
(* invalidation after a write, the skipped invalidation while the DB node  *)
(* index serves searches, and the search hot path that re-detects          *)
(* staleness by a fingerprint.                                             *)
(*                                                                         *)
(* The document store's content is a version number: db is the number of   *)
(* committed writes.  Fp[v] is the fingerprint (COUNT, MAX(updated_at)) of *)
(* version v; two versions may share one.  The critical sections of        *)
(* self._lock are single steps.                                            *)
(***************************************************************************)
EXTENDS Integers, FiniteSets

CONSTANTS
    Writers,      \* threads that write the document store and then invalidate
    Searchers,    \* threads in HybridQuery's memory-path search
    Worker,       \* the "bm25-rebuild" daemon thread
    Fp,           \* fingerprint of each content version
    MaxDb,        \* bound: committed writes
    MaxFailures,  \* bound: failed probes and reads
    MaxToggles    \* bound: changes of the DB node index readiness

ASSUME ProcsAssumption ==
    /\ Writers \cap Searchers = {}
    /\ Worker \notin Writers \cup Searchers
    /\ "nobody" \notin Writers \cup Searchers \cup {Worker}

ASSUME BoundsAssumption ==
    /\ MaxDb \in Nat
    /\ MaxFailures \in Nat
    /\ MaxToggles \in Nat
    /\ Fp \in [0..MaxDb -> Nat]

VARIABLES
    db,         \* committed writes of the document store
    native,     \* the store offers bm25_fingerprint()
    ready,      \* the DB node index serves BM25 searches
    state,      \* self.state: the published Bm25CacheState
    dirty,      \* self.dirty
    epoch,      \* self._epoch
    wake,       \* self._wake is set
    stop,       \* self._stop is set
    coldLock,   \* holder of self._cold_build_lock
    skipped,    \* HybridQuery._bm25_invalidation_skipped
    pc,         \* where each thread is
    loc,        \* the local variables of each building or searching thread
    failures,   \* failures so far
    toggles,    \* readiness changes so far
    told,       \* history: <<epoch, content version>> of every invalidation
    swallowed   \* history: the epoch at which a failed round last gave up

vars == <<db, native, ready, state, dirty, epoch, wake, stop, coldLock,
          skipped, pc, loc, failures, toggles, told, swallowed>>

envVars == <<native, ready, toggles>>

-----------------------------------------------------------------------------
Builders == Searchers \cup {Worker}
Procs == Builders \cup Writers

\* No fingerprint: the probe of a cold build failed.
NoFp == -1
Nobody == "nobody"

\* One published index: the content version its rows were read from, the
\* fingerprint probed before that read, and the epoch read before both.
CacheStates == [seen : Nat, fp : Nat \cup {NoFp}, epoch : Nat]
NoState == [seen |-> -1, fp |-> NoFp, epoch |-> -1]

\* A thread's locals: build_epoch, the captured state, the probe, the rows.
Locals == [epoch : Nat, old : CacheStates \cup {NoState},
           fp : Nat \cup {NoFp}, seen : Nat]
NoLocals == [epoch |-> 0, old |-> NoState, fp |-> NoFp, seen |-> 0]

ColdBuilding == {"cold_epoch", "cold_probe", "cold_read", "cold_publish"}
Cold == ColdBuilding \cup {"cold_wait"}
Rebuilding == {"probe", "read", "publish", "skip"}
WorkerPc == {"none", "sleep", "round", "exit"} \cup Rebuilding \cup Cold
SearchPc == {"idle", "reset", "run_skipped", "acquire", "hot_probe", "mark_stale"} \cup Cold
WriterPc == {"idle", "written", "set_skipped", "invalidate"}

\* The program points of each kind of thread.
PcOf(p) == IF p = Worker THEN WorkerPc
           ELSE IF p \in Searchers THEN SearchPc ELSE WriterPc

PcOK ==
    /\ pc \in [Procs -> WorkerPc \cup SearchPc \cup WriterPc]
    /\ \A p \in Procs : pc[p] \in PcOf(p)

FlagsOK ==
    /\ native \in BOOLEAN
    /\ ready \in BOOLEAN
    /\ dirty \in BOOLEAN
    /\ wake \in BOOLEAN
    /\ stop \in BOOLEAN
    /\ skipped \in BOOLEAN

\* Every variable stays in its domain, and every thread at a point of its own code.
TypeOK ==
    /\ PcOK
    /\ FlagsOK
    /\ db \in 0..MaxDb
    /\ state \in CacheStates \cup {NoState}
    /\ epoch \in Nat
    /\ coldLock \in Builders \cup {Nobody}
    /\ loc \in [Builders -> Locals]
    /\ failures \in 0..MaxFailures
    /\ toggles \in 0..MaxToggles
    /\ told \subseteq (Nat \X Nat)
    /\ swallowed \in Nat

Init ==
    /\ db = 0
    /\ native \in BOOLEAN
    /\ ready \in BOOLEAN
    /\ state = NoState
    /\ dirty = TRUE
    /\ epoch = 0
    /\ wake = FALSE
    /\ stop = FALSE
    /\ coldLock = Nobody
    /\ skipped = FALSE
    /\ pc = [p \in Procs |-> IF p = Worker THEN "none" ELSE "idle"]
    /\ loc = [p \in Builders |-> NoLocals]
    /\ failures = 0
    /\ toggles = 0
    /\ told = {}
    /\ swallowed = 0

-----------------------------------------------------------------------------
(* Shared steps of the operations below.                                   *)

Goto(p, label) == pc' = [pc EXCEPT ![p] = label]

\* Mutant: every thread that leaves ensure_built falls into the rebuild loop.
ReturnToLoop(p) == "sleep"

\* A thread returns: a searcher is done, the worker sleeps at the loop's top.
Return(p) == IF p = Worker THEN "sleep" ELSE "idle"

Finish(p) ==
    /\ Goto(p, Return(p))
    /\ loc' = [loc EXCEPT ![p] = NoLocals]

\* One probe or read raises, within the bound.
Fail == failures < MaxFailures /\ failures' = failures + 1

\* _ensure_worker_awake_locked: start the thread if it is not alive, wake it.
EnsureWorkerAwake(p, label) ==
    /\ pc' = [pc EXCEPT ![p] = label,
                        ![Worker] = IF @ \in {"none", "exit"} THEN "sleep" ELSE @]
    /\ wake' = TRUE

\* Mutant: a worker that is marked dirty is taken for one already awake.
BumpEpochWakeIfClean(p, label) ==
    /\ dirty' = TRUE
    /\ epoch' = epoch + 1
    /\ told' = told \cup {<<epoch + 1, db>>}
    /\ wake' = (wake \/ ~dirty)
    /\ Goto(p, label)

\* _Bm25CacheWorker.invalidate, called by thread p.
BumpEpoch(p, label) ==
    /\ dirty' = TRUE
    /\ epoch' = epoch + 1
    /\ told' = told \cup {<<epoch + 1, db>>}
    /\ EnsureWorkerAwake(p, label)

-----------------------------------------------------------------------------
(* Writers: commit to the document store, then invalidate_bm25_cache().    *)

Commit(w) ==
    /\ pc[w] = "idle"
    /\ db < MaxDb
    /\ db' = db + 1
    /\ Goto(w, "written")
    /\ UNCHANGED <<envVars, state, dirty, epoch, wake, stop, coldLock, skipped,
                   loc, failures, told, swallowed>>

CheckNodeIndex(w) ==
    /\ pc[w] = "written"
    /\ Goto(w, IF ready THEN "set_skipped" ELSE "invalidate")
    /\ UNCHANGED <<envVars, db, state, dirty, epoch, wake, stop, coldLock, skipped,
                   loc, failures, told, swallowed>>

SetSkipped(w) ==
    /\ pc[w] = "set_skipped"
    /\ skipped' = TRUE
    /\ Goto(w, "idle")
    /\ UNCHANGED <<envVars, db, state, dirty, epoch, wake, stop, coldLock, loc,
                   failures, told, swallowed>>

Invalidate(w) ==
    /\ pc[w] = "invalidate"
    /\ BumpEpoch(w, "idle")
    /\ UNCHANGED <<envVars, db, state, stop, coldLock, skipped, loc, failures, swallowed>>

-----------------------------------------------------------------------------
(* Searchers: _bm25_search_state, _memory_path_entered, _bm25_acquire_state *)

SearchNodeIndex(s) ==
    /\ pc[s] = "idle"
    /\ ready
    /\ UNCHANGED vars

SearchMemory(s) ==
    /\ pc[s] = "idle"
    /\ ~ready
    /\ Goto(s, IF skipped THEN "reset" ELSE "acquire")
    /\ UNCHANGED <<envVars, db, state, dirty, epoch, wake, stop, coldLock, skipped,
                   loc, failures, told, swallowed>>

\* Mutant: the mark is cleared and the invalidation it stood for is forgotten.
ResetSkippedOnly(s) ==
    /\ pc[s] = "reset"
    /\ skipped' = FALSE
    /\ Goto(s, "acquire")
    /\ UNCHANGED <<envVars, db, state, dirty, epoch, wake, stop, coldLock, loc,
                   failures, told, swallowed>>

ResetSkipped(s) ==
    /\ pc[s] = "reset"
    /\ skipped' = FALSE
    /\ Goto(s, "run_skipped")
    /\ UNCHANGED <<envVars, db, state, dirty, epoch, wake, stop, coldLock, loc,
                   failures, told, swallowed>>

RunSkipped(s) ==
    /\ pc[s] = "run_skipped"
    /\ BumpEpoch(s, "acquire")
    /\ UNCHANGED <<envVars, db, state, stop, coldLock, skipped, loc, failures, swallowed>>

AcquireState(s) ==
    /\ pc[s] = "acquire"
    /\ \/ /\ state = NoState
          /\ Goto(s, "cold_wait")
          /\ UNCHANGED loc
       \/ /\ state # NoState
          /\ loc' = [loc EXCEPT ![s].old = state]
          /\ Goto(s, "hot_probe")
    /\ UNCHANGED <<envVars, db, state, dirty, epoch, wake, stop, coldLock, skipped,
                   failures, told, swallowed>>

HotProbe(s) ==
    /\ pc[s] = "hot_probe"
    /\ \/ /\ Fail \/ (Fp[db] = loc[s].old.fp /\ UNCHANGED failures)
          /\ Finish(s)
       \/ /\ Fp[db] # loc[s].old.fp
          /\ Goto(s, "mark_stale")
          /\ UNCHANGED <<loc, failures>>
    /\ UNCHANGED <<envVars, db, state, dirty, epoch, wake, stop, coldLock, skipped,
                   told, swallowed>>

MarkStale(s) ==
    /\ pc[s] = "mark_stale"
    /\ dirty' = TRUE
    /\ EnsureWorkerAwake(s, "idle")
    /\ loc' = [loc EXCEPT ![s] = NoLocals]
    /\ UNCHANGED <<envVars, db, state, epoch, stop, coldLock, skipped, failures,
                   told, swallowed>>

-----------------------------------------------------------------------------
(* ensure_built: the cold build, by the first searcher or by the worker.   *)

\* Mutant: no second look at self.state under the cold-build lock.
ColdEnterUnchecked(p) ==
    /\ pc[p] = "cold_wait"
    /\ coldLock = Nobody
    /\ coldLock' = p
    /\ Goto(p, "cold_epoch")
    /\ UNCHANGED <<envVars, db, state, dirty, epoch, wake, stop, skipped, loc,
                   failures, told, swallowed>>

ColdEnter(p) ==
    /\ pc[p] = "cold_wait"
    /\ coldLock = Nobody
    /\ \/ /\ state = NoState
          /\ coldLock' = p
          /\ Goto(p, "cold_epoch")
          /\ UNCHANGED <<wake, loc>>
       \/ /\ state # NoState
          /\ Finish(p)
          /\ wake' = (wake \/ p = Worker)
          /\ UNCHANGED coldLock
    /\ UNCHANGED <<envVars, db, state, dirty, epoch, stop, skipped, failures, told, swallowed>>

ColdReadEpoch(p) ==
    /\ pc[p] = "cold_epoch"
    /\ loc' = [loc EXCEPT ![p].epoch = epoch]
    /\ Goto(p, IF native THEN "cold_probe" ELSE "cold_read")
    /\ UNCHANGED <<envVars, db, state, dirty, epoch, wake, stop, coldLock, skipped,
                   failures, told, swallowed>>

\* A failed probe does not stop the cold build: the state has no fingerprint.
ColdProbe(p) ==
    /\ pc[p] = "cold_probe"
    /\ \/ /\ loc' = [loc EXCEPT ![p].fp = Fp[db]]
          /\ UNCHANGED failures
       \/ /\ Fail
          /\ UNCHANGED loc
    /\ Goto(p, "cold_read")
    /\ UNCHANGED <<envVars, db, state, dirty, epoch, wake, stop, coldLock, skipped,
                   told, swallowed>>

ColdRead(p) ==
    /\ pc[p] = "cold_read"
    /\ LET fp == IF native THEN loc[p].fp ELSE Fp[db] IN
          loc' = [loc EXCEPT ![p].seen = db, ![p].fp = fp]
    /\ Goto(p, "cold_publish")
    /\ UNCHANGED <<envVars, db, state, dirty, epoch, wake, stop, coldLock, skipped,
                   failures, told, swallowed>>

\* The read or the build raises: the exception leaves ensure_built.
ColdFail(p) ==
    /\ pc[p] \in {"cold_read", "cold_publish"}
    /\ Fail
    /\ coldLock' = Nobody
    /\ Finish(p)
    /\ swallowed' = IF p = Worker THEN epoch ELSE swallowed
    /\ UNCHANGED <<envVars, db, state, dirty, epoch, wake, stop, skipped, told>>

\* Mutant: the state is stamped with the epoch read at publication.
ColdPublishLateEpoch(p) ==
    /\ pc[p] = "cold_publish"
    /\ state' = [seen |-> loc[p].seen, fp |-> loc[p].fp, epoch |-> epoch]
    /\ dirty' = FALSE
    /\ wake' = (wake \/ p = Worker)
    /\ coldLock' = Nobody
    /\ Finish(p)
    /\ UNCHANGED <<envVars, db, epoch, stop, skipped, failures, told, swallowed>>

ColdPublish(p) ==
    /\ pc[p] = "cold_publish"
    /\ state' = [seen |-> loc[p].seen, fp |-> loc[p].fp, epoch |-> loc[p].epoch]
    /\ dirty' = FALSE
    /\ wake' = (wake \/ epoch # loc[p].epoch \/ p = Worker)
    /\ coldLock' = Nobody
    /\ Finish(p)
    /\ UNCHANGED <<envVars, db, epoch, stop, skipped, failures, told, swallowed>>

-----------------------------------------------------------------------------
(* _rebuild_loop, one round of the worker thread.                          *)

WorkerWake ==
    /\ pc[Worker] = "sleep"
    /\ wake
    /\ ~stop
    /\ wake' = FALSE
    /\ Goto(Worker, "round")
    /\ UNCHANGED <<envVars, db, state, dirty, epoch, stop, coldLock, skipped, loc,
                   failures, told, swallowed>>

WorkerExit ==
    /\ pc[Worker] \in {"sleep", "round"}
    /\ stop
    /\ Goto(Worker, "exit")
    /\ UNCHANGED <<envVars, db, state, dirty, epoch, wake, stop, coldLock, skipped,
                   loc, failures, told, swallowed>>

\* _await_rest: state and epoch are read together, after the rest.
Snapshot ==
    /\ pc[Worker] = "round"
    /\ \/ /\ state = NoState
          /\ Goto(Worker, "cold_wait")
          /\ UNCHANGED loc
       \/ /\ state # NoState
          /\ loc' = [loc EXCEPT ![Worker].epoch = epoch, ![Worker].old = state]
          /\ Goto(Worker, IF native THEN "probe" ELSE "read")
    /\ UNCHANGED <<envVars, db, state, dirty, epoch, wake, stop, coldLock, skipped,
                   failures, told, swallowed>>

\* Mutant: an equal fingerprint alone skips the round.
MaySkipOnFingerprint(l, fp) == fp = l.old.fp

\* unchanged_since_state and an equal fingerprint: the round may be skipped.
MaySkip(l, fp) == l.old.epoch = l.epoch /\ fp = l.old.fp

Probe ==
    /\ pc[Worker] = "probe"
    /\ \/ /\ Fail
          /\ Goto(Worker, "skip")
          /\ UNCHANGED loc
       \/ /\ loc' = [loc EXCEPT ![Worker].fp = Fp[db]]
          /\ Goto(Worker, IF MaySkip(loc[Worker], Fp[db]) THEN "skip" ELSE "read")
          /\ UNCHANGED failures
    /\ UNCHANGED <<envVars, db, state, dirty, epoch, wake, stop, coldLock, skipped,
                   told, swallowed>>

\* A skipped round: clean only when no invalidation landed meanwhile.
Skip ==
    /\ pc[Worker] = "skip"
    /\ \/ /\ epoch = loc[Worker].epoch
          /\ dirty' = FALSE
          /\ swallowed' = IF loc[Worker].fp = NoFp THEN epoch ELSE swallowed
          /\ UNCHANGED wake
       \/ /\ epoch # loc[Worker].epoch
          /\ wake' = TRUE
          /\ UNCHANGED <<dirty, swallowed>>
    /\ Finish(Worker)
    /\ UNCHANGED <<envVars, db, state, epoch, stop, coldLock, skipped, failures, told>>

Read ==
    /\ pc[Worker] = "read"
    /\ LET fp == IF native THEN loc[Worker].fp ELSE Fp[db] IN
       /\ loc' = [loc EXCEPT ![Worker].seen = db, ![Worker].fp = fp]
       /\ Goto(Worker, IF MaySkip(loc[Worker], fp) THEN "skip" ELSE "publish")
    /\ UNCHANGED <<envVars, db, state, dirty, epoch, wake, stop, coldLock, skipped,
                   failures, told, swallowed>>

\* The read or the build raises: logged, the round ends, nothing is re-woken.
RebuildFail ==
    /\ pc[Worker] \in {"read", "publish"}
    /\ Fail
    /\ swallowed' = epoch
    /\ Finish(Worker)
    /\ UNCHANGED <<envVars, db, state, dirty, epoch, wake, stop, coldLock, skipped, told>>

Publish ==
    /\ pc[Worker] = "publish"
    /\ \/ /\ epoch = loc[Worker].epoch
          /\ state' = [seen |-> loc[Worker].seen, fp |-> loc[Worker].fp,
                       epoch |-> loc[Worker].epoch]
          /\ dirty' = FALSE
          /\ UNCHANGED wake
       \/ /\ epoch # loc[Worker].epoch
          /\ wake' = TRUE
          /\ UNCHANGED <<state, dirty>>
    /\ Finish(Worker)
    /\ UNCHANGED <<envVars, db, epoch, stop, coldLock, skipped, failures, told, swallowed>>

-----------------------------------------------------------------------------
(* The environment: index readiness changes; shutdown_bm25() is called.    *)

ToggleReady ==
    /\ toggles < MaxToggles
    /\ toggles' = toggles + 1
    /\ ready' = ~ready
    /\ UNCHANGED <<native, db, state, dirty, epoch, wake, stop, coldLock, skipped,
                   pc, loc, failures, told, swallowed>>

Shutdown ==
    /\ ~stop
    /\ stop' = TRUE
    /\ wake' = TRUE
    /\ UNCHANGED <<envVars, db, state, dirty, epoch, coldLock, skipped, pc, loc,
                   failures, told, swallowed>>

ColdStep(p) ==
    ColdEnter(p) \/ ColdReadEpoch(p) \/ ColdProbe(p) \/ ColdRead(p)
        \/ ColdFail(p) \/ ColdPublish(p)

\* What a writer that has committed still has to do.
WriterReturns(w) == CheckNodeIndex(w) \/ SetSkipped(w) \/ Invalidate(w)

\* What a search that has entered the memory path still has to do.
SearchReturns(s) ==
    \/ ResetSkipped(s) \/ RunSkipped(s) \/ AcquireState(s)
    \/ HotProbe(s) \/ MarkStale(s) \/ ColdStep(s)

RebuildLoop ==
    \/ WorkerWake \/ WorkerExit \/ Snapshot \/ Probe \/ Skip \/ Read
    \/ RebuildFail \/ Publish \/ ColdStep(Worker)

Next ==
    \/ \E w \in Writers : Commit(w) \/ WriterReturns(w)
    \/ \E s \in Searchers : SearchNodeIndex(s) \/ SearchMemory(s) \/ SearchReturns(s)
    \/ RebuildLoop
    \/ ToggleReady
    \/ Shutdown

Spec == Init /\ [][Next]_vars

\* Every thread that has started a call or a round goes on with it.  Nobody
\* has to write, to search or to shut down.
FairSpec ==
    /\ Spec
    /\ WF_vars(RebuildLoop)
    /\ \A w \in Writers : WF_vars(WriterReturns(w))
    /\ \A s \in Searchers : WF_vars(SearchReturns(s))

-----------------------------------------------------------------------------
(* Properties.                                                             *)

\* A published index holds every write whose invalidation it claims to have
\* seen: observed_epoch is read before the rows, so an epoch that is covered
\* implies rows that are at least that new.  The equal-fingerprint skip and the
\* publish-time comparison of _rebuild_loop are only right because of this.
EpochCoversWrites ==
    \A t \in told : t[1] <= state.epoch => t[2] <= state.seen

\* The swap never goes back: whichever thread publishes, the new index was read
\* from content at least as new as the index it replaces.
NeverRegresses ==
    [][state'.seen >= state.seen /\ state'.epoch >= state.epoch]_vars

\* One build at a time (#302): while a cold build runs, no other thread is in a
\* cold build and the worker is not in a rebuild that it could overwrite.
OneBuild ==
    \A p, q \in Builders :
        p # q /\ pc[p] \in ColdBuilding => pc[q] \notin ColdBuilding \cup Rebuilding

\* A memory invalidation skipped while the DB index served searches is never
\* lost: every committed write has been told to the worker, or its writer is
\* still on its way to do so, or the mark is set, or a search that took the mark
\* is about to run the invalidation.
SkippedIsOwed ==
    db > 0 =>
        \/ \E t \in told : t[2] = db
        \/ \E w \in Writers : pc[w] # "idle"
        \/ skipped
        \/ \E s \in Searchers : pc[s] = "run_skipped"

\* No lost wake-up: while the published index misses an invalidated write, the
\* worker is set to wake, or is in a round, or an earlier round of this very
\* epoch gave up after a failure, or the process is shutting down.
StaleIsScheduled ==
    state # NoState /\ state.epoch < epoch =>
        wake \/ pc[Worker] \in {"round"} \cup Rebuilding \cup Cold
             \/ swallowed = epoch \/ stop

\* Without failures every invalidation reaches the published index, however
\* often searches re-detect the staleness meanwhile (#422), and also when the
\* fingerprint did not change (#541).
EventuallyFresh ==
    \A e \in 1..MaxDb :
        epoch >= e ~> (state.epoch >= e \/ stop \/ failures > 0)

\* issue-541-db-bm25.md: the loop passes over a round only when no invalidate()
\* landed since the published state was observed.
SkipOnlyWhenCovered ==
    [][Skip => loc[Worker].old.epoch = loc[Worker].epoch]_vars

-----------------------------------------------------------------------------
(* The inductive invariant behind EpochCoversWrites, NeverRegresses and     *)
(* OneBuild.                                                               *)

\* No invalidation and no published state is ahead of the code's own counters.
CountersBound ==
    /\ \A t \in told : t[1] <= epoch /\ t[2] <= db
    /\ state.epoch <= epoch
    /\ state.seen <= db

\* Rows read at content version v under build epoch e hold all that e covers.
Covers(e, v) == \A t \in told : t[1] <= e => t[2] <= v

\* The cold-build lock is held exactly during a cold build, and a cold build
\* means that nothing is published yet; the worker rebuilds only what is.
LockInv ==
    /\ \A p \in Builders : pc[p] \in ColdBuilding => coldLock = p /\ state = NoState
    /\ pc[Worker] \in Rebuilding => state # NoState

\* What each candidate already guarantees when its thread reaches a point.
BuildInv ==
    /\ \A p \in Builders :
        /\ pc[p] \in {"cold_probe", "cold_read", "cold_publish"} => loc[p].epoch <= epoch
        /\ pc[p] = "cold_publish" =>
               loc[p].seen <= db /\ Covers(loc[p].epoch, loc[p].seen)
    /\ pc[Worker] \in Rebuilding =>
           state.epoch <= loc[Worker].epoch /\ loc[Worker].epoch <= epoch
    /\ pc[Worker] = "publish" =>
           /\ state.seen <= loc[Worker].seen
           /\ loc[Worker].seen <= db
           /\ Covers(loc[Worker].epoch, loc[Worker].seen)

IInv == TypeOK /\ CountersBound /\ LockInv /\ BuildInv /\ EpochCoversWrites

\* Behind StaleIsScheduled.  A round starts with no probe of its own, holds the
\* published state it judges, and is skipped only because that state already has
\* the round's epoch, or because the probe failed.
RoundInv ==
    /\ pc[Worker] \in {"none", "sleep", "round", "exit", "probe"} => loc[Worker].fp = NoFp
    /\ pc[Worker] \in Rebuilding => loc[Worker].old = state
    /\ pc[Worker] = "skip" =>
           loc[Worker].fp = NoFp \/ loc[Worker].old.epoch = loc[Worker].epoch

WakeInv == IInv /\ RoundInv /\ StaleIsScheduled
=============================================================================
