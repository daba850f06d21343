------------------------ MODULE Bm25CacheWorker_proofs ------------------------
(***************************************************************************)
(* Proofs about Bm25CacheWorker, for any number of writers and searchers,  *)
(* any fingerprint function and any bounds.                                *)
(***************************************************************************)
EXTENDS Bm25CacheWorker, TLAPS

USE DEF Builders, Procs

-----------------------------------------------------------------------------
(* What moving one thread does to the program points.                      *)

LEMMA GotoType ==
    ASSUME PcOK, NEW p \in Procs, NEW l \in PcOf(p), Goto(p, l)
    PROVE  PcOK'
BY DEF PcOf, PcOK, Goto

LEMMA AwakeType ==
    ASSUME PcOK, NEW p \in Procs, p # Worker, NEW l \in PcOf(p), EnsureWorkerAwake(p, l)
    PROVE  PcOK' /\ wake' \in BOOLEAN
BY DEF PcOf, WorkerPc, PcOK, EnsureWorkerAwake

LEMMA Labels ==
    /\ PcOf(Worker) = WorkerPc
    /\ \A s \in Searchers : PcOf(s) = SearchPc
    /\ \A w \in Writers : PcOf(w) = WriterPc
    /\ \A p \in Builders : Return(p) \in PcOf(p)
    /\ \A p \in Builders : Cold \subseteq PcOf(p)
BY ProcsAssumption DEF PcOf, WorkerPc, SearchPc, WriterPc, Cold, Return

LEMMA NoLocalsType == NoLocals \in Locals
BY DEF NoLocals, Locals, NoState, NoFp

LEMMA FpType == ASSUME TypeOK PROVE Fp[db] \in Nat
BY BoundsAssumption DEF TypeOK

LEMMA FinishType ==
    ASSUME TypeOK, NEW p \in Builders, Finish(p)
    PROVE  PcOK' /\ loc' \in [Builders -> Locals]
BY Labels, GotoType, NoLocalsType DEF Finish, TypeOK

LEMMA WriterType ==
    ASSUME TypeOK, NEW w \in Writers, Commit(w) \/ WriterReturns(w)
    PROVE  TypeOK'
<1> USE DEF TypeOK, FlagsOK, envVars
<1>1. CASE Commit(w)
  BY <1>1, Labels, GotoType, BoundsAssumption DEF Commit, WriterPc
<1>2. CASE CheckNodeIndex(w)
  <2>1. PcOK'
    BY Labels, <1>2, GotoType DEF WriterPc, CheckNodeIndex
  <2> QED BY <1>2, <2>1 DEF CheckNodeIndex
<1>3. CASE SetSkipped(w)
  BY <1>3, Labels, GotoType DEF SetSkipped, WriterPc
<1>4. CASE Invalidate(w)
  BY <1>4, ProcsAssumption, Labels, AwakeType, BoundsAssumption DEF Invalidate, BumpEpoch, WriterPc
<1> QED BY <1>1, <1>2, <1>3, <1>4 DEF WriterReturns

LEMMA SearcherType ==
    ASSUME TypeOK, NEW s \in Searchers,
           SearchMemory(s) \/ ResetSkipped(s) \/ RunSkipped(s) \/ AcquireState(s)
               \/ HotProbe(s) \/ MarkStale(s)
    PROVE  TypeOK'
<1> USE DEF TypeOK, FlagsOK, envVars
<1>1. CASE SearchMemory(s)
  <2>1. PcOK'
    BY Labels, <1>1, GotoType DEF SearchPc, SearchMemory
  <2> QED BY <1>1, <2>1 DEF SearchMemory
<1>2. CASE ResetSkipped(s)
  BY <1>2, Labels, GotoType DEF ResetSkipped, SearchPc
<1>3. CASE RunSkipped(s)
  BY <1>3, ProcsAssumption, Labels, AwakeType, BoundsAssumption DEF RunSkipped, BumpEpoch, SearchPc
<1>4. CASE AcquireState(s)
  <2>1. PcOK'
    BY Labels, <1>4, GotoType DEF SearchPc, Cold, AcquireState
  <2>2. loc' \in [Builders -> Locals]
    BY <1>4 DEF AcquireState, Locals
  <2> QED BY <1>4, <2>1, <2>2 DEF AcquireState
<1>5. CASE HotProbe(s)
  <2>1. PcOK' /\ loc' \in [Builders -> Locals]
    BY Labels, <1>5, GotoType, FinishType DEF SearchPc, HotProbe
  <2>2. failures' \in 0..MaxFailures
    BY <1>5, BoundsAssumption DEF HotProbe, Fail
  <2> QED BY <1>5, <2>1, <2>2 DEF HotProbe
<1>6. CASE MarkStale(s)
  BY <1>6, ProcsAssumption, Labels, AwakeType, NoLocalsType DEF MarkStale, SearchPc
<1> QED BY <1>1, <1>2, <1>3, <1>4, <1>5, <1>6

LEMMA ColdType ==
    ASSUME TypeOK, NEW p \in Builders, ColdStep(p)
    PROVE  TypeOK'
<1> USE DEF TypeOK, FlagsOK, envVars
<1>0. ColdBuilding \subseteq PcOf(p)
  BY Labels DEF Cold
<1>1. CASE ColdEnter(p)
  BY <1>1, <1>0, GotoType, FinishType DEF ColdEnter, ColdBuilding
<1>2. CASE ColdReadEpoch(p)
  BY <1>0, <1>2, GotoType DEF ColdBuilding, ColdReadEpoch, Locals
<1>3. CASE ColdProbe(p)
  <2>1. PcOK'
    BY <1>3, <1>0, GotoType DEF ColdProbe, ColdBuilding
  <2>2. loc' \in [Builders -> Locals]
    BY <1>3, FpType DEF ColdProbe, Locals
  <2>3. failures' \in 0..MaxFailures
    BY <1>3, BoundsAssumption DEF ColdProbe, Fail
  <2> QED BY <1>3, <2>1, <2>2, <2>3 DEF ColdProbe
<1>4. CASE ColdRead(p)
  <2>1. PcOK'
    BY <1>4, <1>0, GotoType DEF ColdRead, ColdBuilding
  <2>2. loc' \in [Builders -> Locals]
    <3> DEFINE fp == IF native THEN loc[p].fp ELSE Fp[db]
    <3>1. loc' = [loc EXCEPT ![p].seen = db, ![p].fp = fp]
      BY <1>4 DEF ColdRead
    <3>2. fp \in Nat \cup {NoFp} /\ db \in Nat
      BY FpType, BoundsAssumption DEF Locals
    <3> HIDE DEF fp
    <3> QED BY <3>1, <3>2 DEF Locals
  <2> QED BY <1>4, <2>1, <2>2 DEF ColdRead
<1>5. CASE ColdFail(p)
  BY <1>5, FinishType, BoundsAssumption DEF ColdFail, Fail
<1>6. CASE ColdPublish(p)
  BY <1>6, FinishType DEF ColdPublish, CacheStates, Locals
<1> QED BY <1>1, <1>2, <1>3, <1>4, <1>5, <1>6 DEF ColdStep

LEMMA WorkerType ==
    ASSUME TypeOK,
           WorkerWake \/ WorkerExit \/ Snapshot \/ Probe \/ Skip \/ Read
               \/ RebuildFail \/ Publish
    PROVE  TypeOK'
<1> USE DEF TypeOK, FlagsOK, envVars
<1>0. {"round", "exit", "cold_wait"} \cup Rebuilding \subseteq PcOf(Worker)
  BY Labels DEF WorkerPc, Cold
<1>1. CASE WorkerWake
  BY <1>1, <1>0, GotoType DEF WorkerWake
<1>2. CASE WorkerExit
  BY <1>2, <1>0, GotoType DEF WorkerExit
<1>3. CASE Snapshot
  BY <1>0, <1>3, GotoType DEF Rebuilding, Snapshot, Locals
<1>4. CASE Probe
  <2>1. (IF MaySkip(loc[Worker], Fp[db]) THEN "skip" ELSE "read") \in PcOf(Worker)
    BY <1>0 DEF Rebuilding
  <2>2. PcOK'
    BY <1>4, <1>0, <2>1, GotoType DEF Probe, Rebuilding
  <2>3. loc' \in [Builders -> Locals]
    BY <1>4, FpType DEF Probe, Locals
  <2>4. failures' \in 0..MaxFailures
    BY <1>4, BoundsAssumption DEF Probe, Fail
  <2> QED BY <1>4, <2>2, <2>3, <2>4 DEF Probe
<1>5. CASE Skip
  BY <1>5, FinishType DEF Skip
<1>6. CASE Read
  <2> DEFINE fp == IF native THEN loc[Worker].fp ELSE Fp[db]
             next == IF MaySkip(loc[Worker], fp) THEN "skip" ELSE "publish"
  <2>1. Goto(Worker, next) /\ loc' = [loc EXCEPT ![Worker].seen = db, ![Worker].fp = fp]
    BY <1>6 DEF Read
  <2>2. fp \in Nat \cup {NoFp} /\ db \in Nat
    BY FpType, BoundsAssumption DEF Locals
  <2>3. next \in PcOf(Worker)
    BY <1>0 DEF Rebuilding
  <2> HIDE DEF fp, next
  <2>4. PcOK'
    BY <2>1, <2>3, GotoType
  <2>5. loc' \in [Builders -> Locals]
    BY <2>1, <2>2 DEF Locals
  <2> QED BY <1>6, <2>4, <2>5 DEF Read
<1>7. CASE RebuildFail
  BY <1>7, FinishType, BoundsAssumption DEF RebuildFail, Fail
<1>8. CASE Publish
  <2>1. PcOK' /\ loc' \in [Builders -> Locals]
    BY <1>8, FinishType DEF Publish
  <2>2. state' \in CacheStates \cup {NoState}
    BY <1>8 DEF Publish, CacheStates, Locals
  <2>3. wake' \in BOOLEAN /\ dirty' \in BOOLEAN
    BY <1>8 DEF Publish
  <2> QED BY <1>8, <2>1, <2>2, <2>3 DEF Publish
<1> QED BY <1>1, <1>2, <1>3, <1>4, <1>5, <1>6, <1>7, <1>8

LEMMA NextType == TypeOK /\ [Next]_vars => TypeOK'
<1> SUFFICES ASSUME TypeOK, [Next]_vars PROVE TypeOK'
  OBVIOUS
<1>1. CASE UNCHANGED vars
  BY <1>1 DEF vars, TypeOK, PcOK, FlagsOK
<1>2. CASE ToggleReady
  BY <1>2, BoundsAssumption DEF ToggleReady, TypeOK, PcOK, FlagsOK, envVars
<1>3. CASE Shutdown
  BY <1>3 DEF Shutdown, TypeOK, PcOK, FlagsOK, envVars
<1> QED
  BY <1>1, <1>2, <1>3, WriterType, SearcherType, ColdType, WorkerType
  DEF Next, RebuildLoop, SearchReturns, SearchNodeIndex

-----------------------------------------------------------------------------
LEMMA InitType == Init => TypeOK
<1> SUFFICES ASSUME Init PROVE TypeOK
  OBVIOUS
<1>1. loc \in [Builders -> Locals]
  BY NoLocalsType DEF Init
<1>2. PcOK
  BY ProcsAssumption DEF Init, PcOK, PcOf, WorkerPc, SearchPc, WriterPc
<1>3. FlagsOK
  BY Zenon DEF Init, FlagsOK
<1> QED BY <1>1, <1>2, <1>3, BoundsAssumption DEF Init, TypeOK

(* Type correctness: every variable of the cache and every thread's program *)
(* point and locals stay in their domains.                                  *)
THEOREM TypeCorrect == Spec => []TypeOK
BY InitType, NextType, PTL DEF Spec

-----------------------------------------------------------------------------
(* The inductive invariant.                                                *)

\* Threads other than the one that moves stay where they are, except that an
\* invalidation may start the worker thread.
LEMMA AwakePoints ==
    ASSUME TypeOK, NEW p \in Procs, p # Worker, NEW l, EnsureWorkerAwake(p, l)
    PROVE  /\ pc'[p] = l
           /\ \A q \in Procs \ {p, Worker} : pc'[q] = pc[q]
           /\ pc'[Worker] = pc[Worker] \/ pc'[Worker] = "sleep"
BY DEF TypeOK, PcOK, EnsureWorkerAwake

LEMMA GotoPoints ==
    ASSUME TypeOK, NEW p \in Procs, NEW l, Goto(p, l)
    PROVE  /\ pc'[p] = l
           /\ \A q \in Procs \ {p} : pc'[q] = pc[q]
BY DEF TypeOK, PcOK, Goto

\* An invalidation claims the current content at a new epoch: no index that
\* was read earlier comes to cover it.
LEMMA BumpInv ==
    ASSUME IInv, NEW p \in Procs, p # Worker, NEW l, l \notin ColdBuilding,
           BumpEpoch(p, l), UNCHANGED <<db, state, coldLock, loc>>
    PROVE  CountersBound' /\ LockInv' /\ BuildInv' /\ EpochCoversWrites'
<1> USE DEF IInv, BumpEpoch
<1>1. TypeOK /\ epoch \in Nat /\ db \in Nat /\ loc \in [Builders -> Locals]
  BY BoundsAssumption DEF TypeOK
<1>2. /\ pc'[p] = l
      /\ \A q \in Procs \ {p, Worker} : pc'[q] = pc[q]
      /\ pc'[Worker] = pc[Worker] \/ pc'[Worker] = "sleep"
  BY AwakePoints
<1>3. CountersBound'
  BY <1>1 DEF TypeOK, CacheStates, NoState, CountersBound
<1>4. \A e \in Int, v \in Nat : e <= epoch /\ Covers(e, v) => Covers(e, v)'
  BY <1>1 DEF Covers
<1>5. EpochCoversWrites'
  BY <1>1 DEF EpochCoversWrites, CountersBound, TypeOK, CacheStates, NoState
<1>6. LockInv'
  BY <1>2 DEF LockInv, ColdBuilding, Rebuilding
<1>7. BuildInv'
  <2>1. \A q \in Builders : loc[q].epoch \in Nat /\ loc[q].seen \in Nat
    BY <1>1 DEF Locals
  <2>2. ASSUME NEW q \in Builders
        PROVE  /\ pc'[q] \in {"cold_probe", "cold_read", "cold_publish"} => loc[q].epoch <= epoch + 1
               /\ pc'[q] = "cold_publish" =>
                      loc[q].seen <= db /\ Covers(loc[q].epoch, loc[q].seen)'
    BY <1>2, <1>1, <1>4, <2>1 DEF ColdBuilding, BuildInv
  <2>3. pc'[Worker] \in Rebuilding => pc'[Worker] = pc[Worker]
    BY <1>2 DEF Rebuilding
  <2>4. "publish" \in Rebuilding
    BY DEF Rebuilding
  <2>5. pc'[Worker] \in Rebuilding => loc[Worker].epoch <= epoch + 1
    BY <1>1, <2>1, <2>3 DEF BuildInv
  <2>6. pc'[Worker] = "publish" => Covers(loc[Worker].epoch, loc[Worker].seen)'
    BY <1>4, <2>1, <2>3, <2>4 DEF BuildInv
  <2> QED BY <1>1, <2>2, <2>3, <2>4, <2>5, <2>6 DEF BuildInv
<1> QED BY <1>3, <1>5, <1>6, <1>7

\* The part of the invariant beside the types.
Rest == CountersBound /\ LockInv /\ BuildInv /\ EpochCoversWrites

\* A step that moves one thread to a point outside every build, publishes
\* nothing, invalidates nothing and keeps the lock, or gives it up.
LEMMA LeaveInv ==
    ASSUME IInv, NEW p \in Procs, NEW l, Goto(p, l),
           l \notin ColdBuilding \cup Rebuilding,
           UNCHANGED <<state, epoch, told>>, db' \in {db, db + 1},
           \/ UNCHANGED coldLock
           \/ p \in Builders /\ pc[p] \in ColdBuilding /\ coldLock' = Nobody,
           \A q \in Builders \ {p} : loc'[q] = loc[q]
    PROVE  Rest'
<1>1. TypeOK /\ epoch \in Nat /\ db \in Nat /\ state.seen \in Int /\ db <= db'
  BY BoundsAssumption DEF IInv, TypeOK, CacheStates, NoState
<1>2. pc'[p] = l /\ \A q \in Procs \ {p} : pc'[q] = pc[q]
  BY <1>1, GotoPoints
<1>3. CountersBound'
  BY <1>1 DEF IInv, CountersBound, TypeOK
<1>4. EpochCoversWrites'
  BY DEF IInv, EpochCoversWrites
<1>5. LockInv'
  BY <1>2 DEF IInv, LockInv
<1>6. BuildInv'
  BY <1>1, <1>2 DEF TypeOK, Locals, Covers, ColdBuilding, Rebuilding, IInv, BuildInv
<1> QED BY <1>3, <1>4, <1>5, <1>6 DEF Rest

\* A step inside a thread that changes neither the cache nor the lock.
LEMMA SameInv ==
    ASSUME IInv, UNCHANGED <<state, epoch, told, db, coldLock, pc, loc>>
    PROVE  Rest'
BY DEF IInv, Rest, CountersBound, LockInv, BuildInv, EpochCoversWrites, Covers

LEMMA WriterInv ==
    ASSUME IInv, NEW w \in Writers, Commit(w) \/ WriterReturns(w)
    PROVE  Rest'
<1> USE DEF ColdBuilding, Rebuilding
<1>1. CASE Commit(w)
  BY <1>1, LeaveInv DEF Commit
<1>2. CASE CheckNodeIndex(w)
  BY <1>2, LeaveInv DEF CheckNodeIndex
<1>3. CASE SetSkipped(w)
  BY <1>3, LeaveInv DEF SetSkipped
<1>4. CASE Invalidate(w)
  BY <1>4, BumpInv, ProcsAssumption DEF Invalidate, Rest
<1> QED BY <1>1, <1>2, <1>3, <1>4 DEF WriterReturns

LEMMA SearcherInv ==
    ASSUME IInv, NEW s \in Searchers,
           SearchMemory(s) \/ ResetSkipped(s) \/ RunSkipped(s) \/ AcquireState(s)
               \/ HotProbe(s) \/ MarkStale(s)
    PROVE  Rest'
<1> USE DEF ColdBuilding, Rebuilding
<1>0. TypeOK /\ s # Worker
  BY ProcsAssumption DEF IInv
<1>1. CASE SearchMemory(s)
  BY <1>1, LeaveInv DEF SearchMemory
<1>2. CASE ResetSkipped(s)
  BY <1>2, LeaveInv DEF ResetSkipped
<1>3. CASE RunSkipped(s)
  BY <1>0, <1>3, BumpInv DEF RunSkipped, Rest
<1>4. CASE AcquireState(s)
  BY <1>0, <1>4, LeaveInv DEF AcquireState, TypeOK
<1>5. CASE HotProbe(s)
  BY <1>0, <1>5, LeaveInv DEF HotProbe, Finish, TypeOK, Return
<1>6. CASE MarkStale(s)
  <2>1. /\ pc'[s] = "idle"
        /\ \A q \in Procs \ {s, Worker} : pc'[q] = pc[q]
        /\ pc'[Worker] = pc[Worker] \/ pc'[Worker] = "sleep"
    BY <1>0, <1>6, AwakePoints DEF MarkStale
  <2>2. \A q \in Builders \ {s} : loc'[q] = loc[q]
    BY <1>0, <1>6 DEF MarkStale, TypeOK
  <2>3. UNCHANGED <<state, epoch, told, db, coldLock>>
    BY <1>6 DEF MarkStale
  <2>4. CountersBound' /\ EpochCoversWrites' /\ \A e, v : Covers(e, v) => Covers(e, v)'
    BY <2>3 DEF IInv, CountersBound, EpochCoversWrites, Covers
  <2>5. LockInv'
    BY <2>1, <2>3 DEF IInv, LockInv
  <2>6. \A q \in Builders : pc'[q] \in ColdBuilding \cup Rebuilding =>
            q # s /\ pc'[q] = pc[q] /\ loc'[q] = loc[q]
    BY <2>1, <2>2
  <2>7. BuildInv'
    BY <2>3, <2>4, <2>6 DEF IInv, BuildInv
  <2> QED BY <2>4, <2>5, <2>7 DEF Rest
<1> QED BY <1>1, <1>2, <1>3, <1>4, <1>5, <1>6

\* Leaving a build: the thread's locals are dropped.
LEMMA FinishInv ==
    ASSUME IInv, NEW p \in Builders, Finish(p), UNCHANGED <<state, epoch, told, db>>,
           UNCHANGED coldLock \/ (pc[p] \in ColdBuilding /\ coldLock' = Nobody)
    PROVE  Rest'
BY LeaveInv DEF Return, ColdBuilding, Rebuilding, Finish, IInv, TypeOK

LEMMA ColdInv ==
    ASSUME IInv, NEW p \in Builders, ColdStep(p)
    PROVE  Rest'
<1> USE DEF ColdBuilding
<1>0. /\ TypeOK /\ epoch \in Nat /\ db \in Nat /\ loc \in [Builders -> Locals]
      /\ CountersBound /\ LockInv /\ BuildInv /\ EpochCoversWrites
  BY BoundsAssumption DEF IInv, TypeOK
<1>1. CASE ColdEnter(p)
  <2>1. CASE state # NoState
    BY <1>1, <2>1, FinishInv DEF ColdEnter
  <2>2. CASE state = NoState
    <3>1. /\ coldLock = Nobody /\ coldLock' = p /\ Goto(p, "cold_epoch")
          /\ UNCHANGED <<state, epoch, told, db, loc>>
      BY <1>1, <2>2 DEF ColdEnter
    <3>2. pc'[p] = "cold_epoch" /\ \A q \in Procs \ {p} : pc'[q] = pc[q]
      BY <1>0, <3>1, GotoPoints
    <3>3. \A q \in Builders : coldLock # q
      BY <3>1, ProcsAssumption DEF Nobody
    <3>4. LockInv'
      BY <1>0, <2>2, <3>1, <3>2, <3>3 DEF LockInv, Rebuilding
    <3>5. CountersBound' /\ EpochCoversWrites' /\ \A e, v : Covers(e, v) => Covers(e, v)'
      BY <1>0, <3>1 DEF CountersBound, EpochCoversWrites, Covers
    <3>6. \A q \in Builders :
              pc'[q] \in {"cold_probe", "cold_read", "cold_publish"} \cup Rebuilding => pc'[q] = pc[q]
      BY <3>2 DEF Rebuilding
    <3>7. BuildInv'
      BY <1>0, <3>1, <3>5, <3>6 DEF Rebuilding, BuildInv
    <3> QED BY <3>4, <3>5, <3>7 DEF Rest
  <2> QED BY <2>1, <2>2
<1>2. CASE ColdFail(p)
  BY <1>2, FinishInv DEF ColdFail
<1>3. CASE ColdReadEpoch(p) \/ ColdProbe(p) \/ ColdRead(p)
  <2>1. /\ pc[p] \in ColdBuilding
        /\ UNCHANGED <<state, epoch, told, db, coldLock>>
        /\ \E l \in ColdBuilding : Goto(p, l)
    BY <1>3 DEF ColdReadEpoch, ColdProbe, ColdRead
  <2>2. /\ \A q \in Procs \ {p} : pc'[q] = pc[q]
        /\ pc'[p] \in ColdBuilding
    BY <1>0, <2>1, GotoPoints
  <2>3. \A q \in Builders \ {p} : loc'[q] = loc[q]
    BY <1>0, <1>3 DEF ColdReadEpoch, ColdProbe, ColdRead
  <2>4. CountersBound' /\ EpochCoversWrites' /\ \A e, v : Covers(e, v) => Covers(e, v)'
    BY <1>0, <2>1 DEF CountersBound, EpochCoversWrites, Covers
  <2>5. LockInv'
    BY <1>0, <2>1, <2>2 DEF LockInv, Rebuilding
  <2>6. pc'[Worker] \in Rebuilding => p # Worker
    BY <2>2 DEF Rebuilding
  <2>7. /\ pc'[p] \in {"cold_probe", "cold_read", "cold_publish"} => loc'[p].epoch <= epoch
        /\ pc'[p] = "cold_publish" => loc'[p].seen <= db /\ Covers(loc'[p].epoch, loc'[p].seen)
    <3>1. CASE ColdReadEpoch(p)
      BY <1>0, <3>1, GotoPoints DEF ColdReadEpoch, Locals
    <3>2. CASE ColdProbe(p)
      BY <1>0, <3>2, GotoPoints DEF ColdProbe, Locals, BuildInv
    <3>3. CASE ColdRead(p)
      BY <3>3, <1>0 DEF ColdRead, Locals, Covers, CountersBound, BuildInv
    <3> QED BY <1>3, <3>1, <3>2, <3>3
  <2>8. BuildInv'
    <3>1. "publish" \in Rebuilding
      BY DEF Rebuilding
    <3>2. \A q \in Builders :
            /\ pc'[q] \in {"cold_probe", "cold_read", "cold_publish"} => loc'[q].epoch <= epoch'
            /\ pc'[q] = "cold_publish" =>
                   loc'[q].seen <= db' /\ Covers(loc[q].epoch, loc[q].seen)'
      BY <1>0, <2>1, <2>2, <2>3, <2>4, <2>7 DEF BuildInv, Covers
    <3>3. pc'[Worker] \in Rebuilding => pc'[Worker] = pc[Worker] /\ loc'[Worker] = loc[Worker]
      BY <2>2, <2>3, <2>6
    <3> QED BY <1>0, <2>1, <2>4, <3>1, <3>2, <3>3 DEF BuildInv
  <2> QED BY <2>4, <2>5, <2>8 DEF Rest
<1>4. CASE ColdPublish(p)
  <2>1. pc[p] = "cold_publish" /\ UNCHANGED <<db, epoch, told>> /\ coldLock' = Nobody
    BY <1>4 DEF ColdPublish
  <2>2. state'.seen = loc[p].seen /\ state'.epoch = loc[p].epoch /\ state' # NoState
    BY <1>0, <1>4 DEF Locals, ColdPublish, NoState
  <2>3. CountersBound' /\ EpochCoversWrites'
    BY <1>0, <2>1, <2>2 DEF CountersBound, EpochCoversWrites, BuildInv, Covers
  <2>4. /\ pc'[p] \notin ColdBuilding \cup Rebuilding
        /\ \A q \in Procs \ {p} : pc'[q] = pc[q]
    BY <1>0, <1>4, GotoPoints DEF ColdPublish, Finish, Return, Rebuilding
  <2>5. \A q \in Builders : pc'[q] \notin ColdBuilding
    BY <1>0, <2>1, <2>4 DEF LockInv
  <2>6. state = NoState /\ pc'[Worker] \notin Rebuilding
    BY <1>0, <2>1, <2>4 DEF LockInv
  <2>7. LockInv' /\ BuildInv'
    BY <2>5, <2>6 DEF Rebuilding, LockInv, BuildInv
  <2> QED BY <2>3, <2>7 DEF Rest
<1> QED BY <1>1, <1>2, <1>3, <1>4 DEF ColdStep

LEMMA WorkerInv ==
    ASSUME IInv,
           WorkerWake \/ WorkerExit \/ Snapshot \/ Probe \/ Skip \/ Read
               \/ RebuildFail \/ Publish
    PROVE  Rest'
<1>0. /\ TypeOK /\ epoch \in Nat /\ db \in Nat /\ loc \in [Builders -> Locals]
      /\ CountersBound /\ LockInv /\ BuildInv /\ EpochCoversWrites
  BY BoundsAssumption DEF IInv, TypeOK
<1>1. CASE WorkerWake \/ WorkerExit \/ (Snapshot /\ state = NoState)
  BY <1>1, LeaveInv DEF WorkerWake, WorkerExit, Snapshot, ColdBuilding, Rebuilding
<1>2. CASE Skip \/ RebuildFail
  BY <1>2, FinishInv DEF Skip, RebuildFail
<1>3. CASE (Snapshot /\ state # NoState) \/ Probe \/ Read
  <2>1. /\ UNCHANGED <<state, epoch, told, db, coldLock>>
        /\ \E l \in Rebuilding : Goto(Worker, l)
    BY <1>3 DEF Snapshot, Probe, Read, Rebuilding
  <2>2. /\ \A q \in Procs \ {Worker} : pc'[q] = pc[q]
        /\ pc'[Worker] \in Rebuilding
    BY <1>0, <2>1, GotoPoints
  <2>3. \A q \in Builders \ {Worker} : loc'[q] = loc[q]
    BY <1>0, <1>3 DEF Snapshot, Probe, Read
  <2>4. CountersBound' /\ EpochCoversWrites' /\ \A e, v : Covers(e, v) => Covers(e, v)'
    BY <1>0, <2>1 DEF CountersBound, EpochCoversWrites, Covers
  <2>5. state # NoState
    BY <1>0, <1>3 DEF Probe, Read, Rebuilding, LockInv
  <2>6. pc'[Worker] \notin ColdBuilding
    BY <2>2 DEF ColdBuilding, Rebuilding
  <2>7. LockInv'
    BY <1>0, <2>1, <2>2, <2>5, <2>6 DEF LockInv
  <2>8. /\ state.epoch <= loc'[Worker].epoch /\ loc'[Worker].epoch <= epoch
        /\ pc'[Worker] = "publish" =>
               /\ state.seen <= loc'[Worker].seen /\ loc'[Worker].seen <= db
               /\ Covers(loc'[Worker].epoch, loc'[Worker].seen)
    <3>1. CASE Snapshot /\ state # NoState
      <4>1. loc'[Worker].epoch = epoch
        BY <1>0, <3>1 DEF Snapshot, Locals
      <4>2. pc'[Worker] # "publish"
        BY <3>1, <1>0, GotoPoints DEF Snapshot
      <4> QED BY <1>0, <4>1, <4>2 DEF CountersBound
    <3>2. CASE Probe
      <4>1. pc[Worker] \in Rebuilding /\ loc'[Worker].epoch = loc[Worker].epoch
        BY <1>0, <3>2 DEF Probe, Rebuilding, Locals
      <4>2. pc'[Worker] # "publish"
        BY <3>2, <1>0, GotoPoints DEF Probe
      <4> QED BY <1>0, <4>1, <4>2 DEF BuildInv
    <3>3. CASE Read
      <4>1. /\ pc[Worker] \in Rebuilding /\ loc'[Worker].epoch = loc[Worker].epoch
            /\ loc'[Worker].seen = db
        <5> DEFINE fp == IF native THEN loc[Worker].fp ELSE Fp[db]
        <5>1. loc' = [loc EXCEPT ![Worker].seen = db, ![Worker].fp = fp]
          BY <3>3 DEF Read
        <5> HIDE DEF fp
        <5> QED BY <1>0, <3>3, <5>1 DEF Read, Rebuilding, Locals
      <4>2. \A e : Covers(e, db)
        BY <1>0 DEF Covers, CountersBound
      <4> QED BY <1>0, <4>1, <4>2 DEF BuildInv, CountersBound
    <3> QED BY <1>3, <3>1, <3>2, <3>3
  <2>9. BuildInv'
    <3>1. \A q \in Builders :
            /\ pc'[q] \in {"cold_probe", "cold_read", "cold_publish"} =>
                   q # Worker /\ pc'[q] = pc[q] /\ loc'[q] = loc[q]
      BY <2>2, <2>3, <2>6 DEF ColdBuilding
    <3>2. \A q \in Builders :
            /\ pc'[q] \in {"cold_probe", "cold_read", "cold_publish"} => loc'[q].epoch <= epoch'
            /\ pc'[q] = "cold_publish" =>
                   loc'[q].seen <= db' /\ Covers(loc[q].epoch, loc[q].seen)'
      BY <1>0, <2>1, <2>4, <3>1 DEF BuildInv
    <3> QED BY <2>1, <2>8, <3>2 DEF BuildInv, Covers
  <2> QED BY <2>4, <2>7, <2>9 DEF Rest
<1>4. CASE Publish
  <2>1. CASE epoch # loc[Worker].epoch
    BY <1>4, <2>1, FinishInv DEF Publish
  <2>2. CASE epoch = loc[Worker].epoch
    <3>1. /\ pc[Worker] = "publish" /\ pc[Worker] \in Rebuilding /\ state # NoState
          /\ UNCHANGED <<db, epoch, told, coldLock>>
      BY <1>0, <1>4 DEF Publish, Rebuilding, LockInv
    <3>2. state'.seen = loc[Worker].seen /\ state'.epoch = loc[Worker].epoch
      BY <1>4, <2>2 DEF Publish
    <3>3. CountersBound' /\ EpochCoversWrites'
      BY <1>0, <3>1, <3>2 DEF CountersBound, EpochCoversWrites, BuildInv, Covers
    <3>4. /\ pc'[Worker] \notin ColdBuilding \cup Rebuilding
          /\ \A q \in Procs \ {Worker} : pc'[q] = pc[q]
      BY <1>0, <1>4, GotoPoints DEF Publish, Finish, Return, Rebuilding, ColdBuilding
    <3>5. \A q \in Builders : pc'[q] \notin ColdBuilding
      BY <1>0, <3>1, <3>4 DEF LockInv
    <3>6. LockInv' /\ BuildInv'
      BY <3>4, <3>5 DEF Rebuilding, LockInv, BuildInv, ColdBuilding
    <3> QED BY <3>3, <3>6 DEF Rest
  <2> QED BY <2>1, <2>2
<1> QED BY <1>1, <1>2, <1>3, <1>4

LEMMA NextInv == IInv /\ [Next]_vars => IInv'
<1> SUFFICES ASSUME IInv, [Next]_vars PROVE IInv'
  OBVIOUS
<1>1. TypeOK'
  BY NextType DEF IInv
<1>2. ASSUME UNCHANGED vars \/ ToggleReady \/ Shutdown PROVE Rest'
  BY <1>2, SameInv DEF vars, ToggleReady, Shutdown, envVars
<1>3. Rest'
  BY <1>2, WriterInv, SearcherInv, ColdInv, WorkerInv
  DEF Next, RebuildLoop, SearchReturns, SearchNodeIndex
<1> QED BY <1>1, <1>3 DEF IInv, Rest

LEMMA InitInv == Init => IInv
<1> SUFFICES ASSUME Init PROVE IInv
  OBVIOUS
<1>1. CountersBound /\ EpochCoversWrites
  BY DEF Init, CountersBound, EpochCoversWrites, NoState
<1>2. \A p \in Builders : pc[p] \in {"none", "idle"}
  BY DEF Init
<1>3. LockInv /\ BuildInv
  BY <1>2 DEF LockInv, BuildInv, ColdBuilding, Rebuilding
<1> QED BY <1>1, <1>3, InitType DEF IInv

(* A published index holds every write that its observed epoch claims.      *)
THEOREM PublishedCoversInvalidations == Spec => []EpochCoversWrites
<1>1. IInv => EpochCoversWrites
  BY DEF IInv
<1> QED BY InitInv, NextInv, <1>1, PTL DEF Spec

(* At most one thread builds (#302).                                        *)
THEOREM BuildsAreExclusive == Spec => []OneBuild
<1>1. IInv => OneBuild
  <2> SUFFICES ASSUME IInv, NEW p \in Builders, NEW q \in Builders, p # q,
                      pc[p] \in ColdBuilding
               PROVE  pc[q] \notin ColdBuilding \cup Rebuilding
    BY DEF OneBuild
  <2>1. coldLock = p /\ state = NoState
    BY DEF IInv, LockInv
  <2>2. pc[q] \notin ColdBuilding
    BY <2>1 DEF IInv, LockInv
  <2>3. q \in Searchers => pc[q] \in SearchPc
    BY Labels DEF IInv, TypeOK, PcOK
  <2>4. pc[q] \notin Rebuilding
    BY <2>1, <2>3 DEF IInv, LockInv, SearchPc, Rebuilding, Cold, ColdBuilding
  <2> QED BY <2>2, <2>4
<1> QED BY InitInv, NextInv, <1>1, PTL DEF Spec

(* The published index never goes back to older content or an older epoch.  *)
THEOREM PublicationIsMonotone == Spec => NeverRegresses
<1>1. IInv /\ [Next]_vars => [state'.seen >= state.seen /\ state'.epoch >= state.epoch]_vars
  <2> SUFFICES ASSUME IInv, [Next]_vars
               PROVE  state'.seen >= state.seen /\ state'.epoch >= state.epoch
    OBVIOUS
  <2>0. CASE state' = state
    BY <2>0 DEF IInv, TypeOK, CacheStates, NoState
  <2>1. (\E p \in Builders : ColdPublish(p)) \/ Publish \/ state' = state
    <3>1. ASSUME NEW p \in Builders, ColdStep(p) PROVE ColdPublish(p) \/ state' = state
      BY <3>1 DEF ColdStep, ColdEnter, ColdReadEpoch, ColdProbe, ColdRead, ColdFail
    <3> QED
      BY <3>1 DEF Next, Commit, WriterReturns, CheckNodeIndex, SetSkipped, Invalidate,
         SearchNodeIndex, SearchMemory, SearchReturns, ResetSkipped, RunSkipped,
         AcquireState, HotProbe, MarkStale, RebuildLoop, WorkerWake, WorkerExit,
         Snapshot, Probe, Skip, Read, RebuildFail, ToggleReady, Shutdown, vars
  <2>2. loc \in [Builders -> Locals]
    BY DEF IInv, TypeOK
  <2>3. ASSUME NEW p \in Builders, ColdPublish(p)
        PROVE  state'.seen >= state.seen /\ state'.epoch >= state.epoch
    BY <2>3, <2>2 DEF IInv, LockInv, ColdPublish, ColdBuilding, NoState, Locals
  <2>4. CASE Publish
    BY <2>2, <2>4 DEF Publish, IInv, BuildInv, Rebuilding, Locals, TypeOK, CacheStates, NoState
  <2> QED BY <2>0, <2>1, <2>3, <2>4
<1> QED BY InitInv, NextInv, <1>1, PTL DEF Spec, NeverRegresses

-----------------------------------------------------------------------------
(* No write is forgotten while the DB node index serves the searches.      *)

\* A step that neither commits nor clears the mark, and after which no writer is
\* done and no search has dropped the invalidation it owes.
LEMMA OwedStays ==
    ASSUME SkippedIsOwed, db' = db, told \subseteq told', skipped => skipped',
           \A w \in Writers : pc[w] # "idle" => pc'[w] # "idle",
           \A s \in Searchers : pc[s] = "run_skipped" => pc'[s] = "run_skipped"
    PROVE  SkippedIsOwed'
BY DEF SkippedIsOwed

\* An invalidation tells the worker of the current content.
LEMMA ToldOwes ==
    ASSUME NEW p, NEW l, BumpEpoch(p, l), db' = db
    PROVE  SkippedIsOwed'
<1>1. told' = told \cup {<<epoch + 1, db>>}
  BY DEF BumpEpoch
<1>2. PICK t \in told' : t = <<epoch + 1, db>>
  BY <1>1
<1>3. t[2] = db'
  BY <1>2
<1> QED BY <1>3 DEF SkippedIsOwed

LEMMA WriterOwed ==
    ASSUME IInv, SkippedIsOwed, NEW w \in Writers, Commit(w) \/ WriterReturns(w)
    PROVE  SkippedIsOwed'
<1>0. TypeOK
  BY DEF IInv
<1>1. CASE Commit(w)
  BY <1>0, <1>1, GotoPoints DEF Commit, SkippedIsOwed
<1>2. CASE CheckNodeIndex(w)
  BY <1>2, <1>0, GotoPoints DEF CheckNodeIndex, SkippedIsOwed
<1>3. CASE SetSkipped(w)
  BY <1>3 DEF SetSkipped, SkippedIsOwed
<1>4. CASE Invalidate(w)
  BY <1>4, ToldOwes DEF Invalidate
<1> QED BY <1>1, <1>2, <1>3, <1>4 DEF WriterReturns

LEMMA SearcherOwed ==
    ASSUME IInv, SkippedIsOwed, NEW s \in Searchers,
           SearchMemory(s) \/ ResetSkipped(s) \/ RunSkipped(s) \/ AcquireState(s)
               \/ HotProbe(s) \/ MarkStale(s)
    PROVE  SkippedIsOwed'
<1>0. TypeOK /\ s # Worker /\ s \notin Writers /\ Worker \notin Writers \cup Searchers
  BY ProcsAssumption DEF IInv
<1>1. CASE SearchMemory(s) \/ AcquireState(s) \/ HotProbe(s)
  BY <1>1, <1>0, GotoPoints, OwedStays DEF SearchMemory, AcquireState, HotProbe, Finish
<1>2. CASE ResetSkipped(s)
  BY <1>0, <1>2, GotoPoints DEF ResetSkipped, SkippedIsOwed
<1>3. CASE RunSkipped(s)
  BY <1>3, ToldOwes DEF RunSkipped
<1>4. CASE MarkStale(s)
  BY <1>4, <1>0, AwakePoints, OwedStays DEF MarkStale
<1> QED BY <1>1, <1>2, <1>3, <1>4

LEMMA BuilderOwed ==
    ASSUME IInv, SkippedIsOwed, NEW p \in Builders,
           \/ ColdStep(p)
           \/ /\ p = Worker
              /\ WorkerWake \/ WorkerExit \/ Snapshot \/ Probe \/ Skip \/ Read
                     \/ RebuildFail \/ Publish
    PROVE  SkippedIsOwed'
<1>0. TypeOK /\ p \notin Writers /\ Worker \notin Searchers
  BY ProcsAssumption DEF IInv
<1>1. UNCHANGED <<db, told, skipped>> /\ \E l : Goto(p, l)
  <2>1. CASE ColdStep(p)
    BY <2>1 DEF ColdStep, ColdEnter, ColdReadEpoch, ColdProbe, ColdRead, ColdFail,
       ColdPublish, Finish
  <2>2. CASE ~ ColdStep(p)
    BY <2>2 DEF WorkerWake, WorkerExit, Snapshot, Probe, Skip, Read, RebuildFail,
       Publish, Finish
  <2> QED BY <2>1, <2>2
<1>2. \A q \in Procs \ {p} : pc'[q] = pc[q]
  BY <1>0, <1>1, GotoPoints
<1>3. p \in Searchers => pc[p] # "run_skipped"
  BY <1>0 DEF ColdStep, ColdEnter, ColdReadEpoch, ColdProbe, ColdRead, ColdFail, ColdPublish
<1> QED BY <1>0, <1>1, <1>2, <1>3, OwedStays

LEMMA NextOwed == IInv /\ SkippedIsOwed /\ [Next]_vars => SkippedIsOwed'
<1> SUFFICES ASSUME IInv, SkippedIsOwed, [Next]_vars PROVE SkippedIsOwed'
  OBVIOUS
<1>1. ASSUME UNCHANGED vars \/ ToggleReady \/ Shutdown PROVE SkippedIsOwed'
  BY <1>1, OwedStays DEF vars, ToggleReady, Shutdown
<1> QED
  BY <1>1, WriterOwed, SearcherOwed, BuilderOwed
  DEF Next, RebuildLoop, SearchReturns, SearchNodeIndex

(* Every committed write reaches the worker, or is still owed by a writer, *)
(* by the mark or by the search that took the mark                         *)
(* (HybridQuery.invalidate_bm25_cache and _memory_path_entered).           *)
THEOREM NoInvalidationIsLost == Spec => []SkippedIsOwed
<1>1. Init => SkippedIsOwed
  BY DEF Init, SkippedIsOwed
<1> QED BY <1>1, InitInv, NextInv, NextOwed, PTL DEF Spec

-----------------------------------------------------------------------------
(* No wake-up is lost.                                                     *)

USE DEF WakeInv

Waking == RoundInv /\ StaleIsScheduled

\* A step of another thread that publishes nothing and leaves the worker where
\* it is, or starts it, and that wakes it when it invalidates.
LEMMA OthersWake ==
    ASSUME WakeInv, UNCHANGED <<state, stop>>, loc'[Worker] = loc[Worker],
           \/ pc'[Worker] = pc[Worker]
           \/ pc[Worker] \in {"none", "exit"} /\ pc'[Worker] = "sleep",
           \/ wake'
           \/ UNCHANGED <<epoch, swallowed>> /\ (wake => wake') /\ pc'[Worker] = pc[Worker]
    PROVE  Waking'
BY DEF RoundInv, Rebuilding, StaleIsScheduled, Waking

\* Waking the worker starts it when it is not alive.
LEMMA AwakeStarts ==
    ASSUME TypeOK, NEW p \in Procs, p # Worker, NEW l, EnsureWorkerAwake(p, l)
    PROVE  /\ \/ pc'[Worker] = pc[Worker]
              \/ pc[Worker] \in {"none", "exit"} /\ pc'[Worker] = "sleep"
           /\ wake'
BY DEF TypeOK, PcOK, EnsureWorkerAwake

LEMMA WriterWakes ==
    ASSUME WakeInv, NEW w \in Writers, Commit(w) \/ WriterReturns(w)
    PROVE  Waking'
<1>0. TypeOK /\ w # Worker
  BY ProcsAssumption DEF IInv
<1>1. CASE Invalidate(w)
  BY <1>0, <1>1, AwakeStarts, OthersWake DEF Invalidate, BumpEpoch
<1>2. CASE ~ Invalidate(w)
  BY <1>2, <1>0, GotoPoints, OthersWake DEF WriterReturns, Commit, CheckNodeIndex, SetSkipped
<1> QED BY <1>1, <1>2

LEMMA SearcherWakes ==
    ASSUME WakeInv, NEW s \in Searchers,
           SearchMemory(s) \/ ResetSkipped(s) \/ RunSkipped(s) \/ AcquireState(s)
               \/ HotProbe(s) \/ MarkStale(s)
    PROVE  Waking'
<1>0. TypeOK /\ s # Worker
  BY ProcsAssumption DEF IInv
<1>1. CASE RunSkipped(s)
  BY <1>0, <1>1, AwakeStarts, OthersWake DEF RunSkipped, BumpEpoch
<1>2. CASE MarkStale(s)
  BY <1>0, <1>2, AwakeStarts, OthersWake DEF MarkStale, TypeOK
<1>3. CASE SearchMemory(s) \/ ResetSkipped(s) \/ AcquireState(s) \/ HotProbe(s)
  <2>1. /\ UNCHANGED <<state, stop, epoch, swallowed, wake>>
        /\ \E l : Goto(s, l)
    BY <1>3 DEF SearchMemory, ResetSkipped, AcquireState, HotProbe, Finish
  <2>2. pc'[Worker] = pc[Worker]
    BY <1>0, <2>1, GotoPoints
  <2>3. loc'[Worker] = loc[Worker]
    BY <1>0, <1>3 DEF SearchMemory, ResetSkipped, AcquireState, HotProbe, Finish, TypeOK
  <2> QED BY <2>1, <2>2, <2>3, OthersWake
<1> QED BY <1>1, <1>2, <1>3

\* A searcher's cold build: what it publishes is current, or it wakes the worker.
LEMMA SearcherColdWakes ==
    ASSUME WakeInv, NEW s \in Searchers, ColdStep(s)
    PROVE  Waking'
<1>0. TypeOK /\ s # Worker /\ LockInv
  BY ProcsAssumption DEF IInv
<1>1. UNCHANGED <<stop, epoch, swallowed>> /\ (wake => wake') /\ \E l : Goto(s, l)
  <2>1. UNCHANGED <<stop, epoch, swallowed>> /\ \E l : Goto(s, l)
    BY <1>0 DEF ColdStep, ColdEnter, ColdReadEpoch, ColdProbe, ColdRead, ColdFail,
       ColdPublish, Finish
  <2>2. wake => wake'
    BY <1>0 DEF ColdStep, ColdEnter, ColdReadEpoch, ColdProbe, ColdRead, ColdFail,
       ColdPublish, TypeOK, FlagsOK
  <2> QED BY <2>1, <2>2
<1>2. pc'[Worker] = pc[Worker]
  BY <1>0, <1>1, GotoPoints
<1>3. loc'[Worker] = loc[Worker]
  BY <1>0 DEF ColdStep, ColdEnter, ColdReadEpoch, ColdProbe, ColdRead, ColdFail,
     ColdPublish, Finish, TypeOK
<1>4. CASE ~ ColdPublish(s)
  <2>1. UNCHANGED state
    BY <1>4 DEF ColdStep, ColdEnter, ColdReadEpoch, ColdProbe, ColdRead, ColdFail
  <2> QED BY <1>1, <1>2, <1>3, <2>1, OthersWake
<1>5. CASE ColdPublish(s)
  <2>1. pc[Worker] \notin Rebuilding
    BY <1>0, <1>5 DEF LockInv, ColdPublish, ColdBuilding
  <2>2. RoundInv'
    BY <1>2, <1>3, <2>1 DEF RoundInv, Rebuilding
  <2>3. wake' \/ state'.epoch = epoch
    BY <1>5 DEF ColdPublish
  <2>4. epoch \in Nat
    BY <1>0 DEF TypeOK
  <2>5. StaleIsScheduled'
    BY <1>1, <2>3, <2>4 DEF StaleIsScheduled
  <2> QED BY <2>2, <2>5 DEF Waking
<1> QED BY <1>4, <1>5

\* The end of a round: the worker sleeps with fresh locals, and it is awake
\* again, or nothing is stale, or it gave up at this very epoch.
LEMMA SleepWakes ==
    ASSUME WakeInv, Finish(Worker), UNCHANGED <<epoch, stop>>,
           wake' \/ ~ (state'.epoch < epoch) \/ swallowed' = epoch
    PROVE  Waking'
<1>0. TypeOK /\ loc \in [Builders -> Locals]
  BY DEF IInv, TypeOK
<1>1. pc'[Worker] = "sleep" /\ loc'[Worker] = NoLocals
  BY <1>0, GotoPoints DEF Finish, Return
<1>2. RoundInv'
  BY <1>1 DEF RoundInv, NoLocals, Rebuilding
<1>3. StaleIsScheduled'
  BY DEF StaleIsScheduled
<1> QED BY <1>2, <1>3 DEF Waking

\* A step of the worker inside a round: the round still covers what is stale.
LEMMA BusyWakes ==
    ASSUME WakeInv, RoundInv', NEW l \in {"round"} \cup Rebuilding \cup Cold,
           Goto(Worker, l)
    PROVE  Waking'
BY GotoPoints DEF IInv, Waking, StaleIsScheduled

LEMMA WorkerColdWakes ==
    ASSUME WakeInv, ColdStep(Worker)
    PROVE  Waking'
<1>0. TypeOK /\ loc \in [Builders -> Locals] /\ LockInv
  BY DEF IInv, TypeOK
<1>1. CASE ColdFail(Worker)
  BY <1>1, SleepWakes DEF ColdFail
<1>2. CASE ColdPublish(Worker)
  BY <1>2, SleepWakes DEF ColdPublish
<1>3. CASE ColdEnter(Worker) /\ state # NoState
  BY <1>3, SleepWakes DEF ColdEnter
<1>4. CASE \/ ColdEnter(Worker) /\ state = NoState
           \/ ColdReadEpoch(Worker) \/ ColdProbe(Worker) \/ ColdRead(Worker)
  <2>1. PICK l \in ColdBuilding : Goto(Worker, l)
    BY <1>4 DEF ColdEnter, ColdReadEpoch, ColdProbe, ColdRead, ColdBuilding
  <2>2. pc'[Worker] \in ColdBuilding
    BY <1>0, <2>1, GotoPoints
  <2>3. RoundInv'
    BY <2>2 DEF RoundInv, ColdBuilding, Rebuilding
  <2> QED BY <2>1, <2>3, BusyWakes DEF Cold
<1> QED BY <1>1, <1>2, <1>3, <1>4 DEF ColdStep

\* A round is skipped only over a state of its own epoch or after a failed probe.
LEMMA SkipWakes ==
    ASSUME WakeInv, Skip
    PROVE  Waking'
<1>1. pc[Worker] \in Rebuilding
  BY DEF Skip, Rebuilding
<1>2. CASE epoch # loc[Worker].epoch
  BY <1>2, SleepWakes DEF Skip
<1>3. CASE epoch = loc[Worker].epoch /\ loc[Worker].fp = NoFp
  BY <1>3, SleepWakes DEF Skip
<1>4. CASE epoch = loc[Worker].epoch /\ loc[Worker].fp # NoFp
  BY <1>1, <1>4, SleepWakes DEF Skip, RoundInv, IInv, TypeOK
<1> QED BY <1>2, <1>3, <1>4

LEMMA RoundWakes ==
    ASSUME WakeInv, WorkerWake \/ WorkerExit \/ Snapshot \/ Probe \/ Read
    PROVE  Waking'
<1>0. TypeOK /\ loc \in [Builders -> Locals]
  BY DEF IInv, TypeOK
<1>1. CASE WorkerWake
  BY <1>0, <1>1, GotoPoints, BusyWakes DEF WorkerWake, RoundInv, Rebuilding
<1>2. CASE WorkerExit
  BY <1>0, <1>2, GotoPoints DEF WorkerExit, RoundInv, Rebuilding, Waking, StaleIsScheduled
<1>3. CASE Snapshot
  <2>1. CASE state = NoState
    BY <1>3, <2>1, <1>0, GotoPoints, BusyWakes DEF Snapshot, RoundInv, Rebuilding, Cold
  <2>2. CASE state # NoState
    BY <1>3, <2>2, <1>0, GotoPoints, BusyWakes DEF Snapshot, Locals, RoundInv, Rebuilding
  <2> QED BY <2>1, <2>2
<1>4. CASE Probe
  BY <1>0, <1>4, GotoPoints, BusyWakes DEF Probe, Rebuilding, Locals, RoundInv, MaySkip
<1>5. CASE Read
  <2>1. /\ pc[Worker] \in Rebuilding /\ state' = state
        /\ loc'[Worker].old = loc[Worker].old /\ loc'[Worker].epoch = loc[Worker].epoch
    <3> DEFINE fp == IF native THEN loc[Worker].fp ELSE Fp[db]
    <3>1. loc' = [loc EXCEPT ![Worker].seen = db, ![Worker].fp = fp]
      BY <1>5 DEF Read
    <3> HIDE DEF fp
    <3> QED BY <1>0, <1>5, <3>1 DEF Read, Rebuilding, Locals
  <2>2. PICK l \in {"skip", "publish"} :
            Goto(Worker, l) /\ (l = "skip" => loc[Worker].old.epoch = loc[Worker].epoch)
    BY <1>5 DEF Read, MaySkip
  <2>3. pc'[Worker] = l
    BY <1>0, <2>2, GotoPoints
  <2>4. RoundInv'
    BY <2>1, <2>2, <2>3 DEF RoundInv
  <2> QED BY <2>2, <2>4, BusyWakes DEF Rebuilding
<1> QED BY <1>1, <1>2, <1>3, <1>4, <1>5

LEMMA PublishWakes ==
    ASSUME WakeInv, Publish
    PROVE  Waking'
<1>1. CASE epoch # loc[Worker].epoch
  BY <1>1, SleepWakes DEF Publish
<1>2. CASE epoch = loc[Worker].epoch
  BY <1>2, SleepWakes DEF Publish, IInv, TypeOK
<1> QED BY <1>1, <1>2

LEMMA NextWakes == WakeInv /\ [Next]_vars => WakeInv'
<1> SUFFICES ASSUME WakeInv, [Next]_vars PROVE WakeInv'
  OBVIOUS
<1>1. IInv'
  BY NextInv
<1>2. ASSUME UNCHANGED vars \/ ToggleReady PROVE Waking'
  BY <1>2, OthersWake DEF vars, ToggleReady
<1>3. ASSUME Shutdown PROVE Waking'
  BY <1>3 DEF Shutdown, Waking, RoundInv, StaleIsScheduled
<1>4. ASSUME RebuildFail PROVE Waking'
  BY <1>4, SleepWakes DEF RebuildFail
<1>5. Waking'
  BY <1>2, <1>3, <1>4, WriterWakes, SearcherWakes, SearcherColdWakes, WorkerColdWakes,
     SkipWakes, RoundWakes, PublishWakes
  DEF Next, RebuildLoop, SearchReturns, SearchNodeIndex
<1> QED BY <1>1, <1>5 DEF Waking

(* No lost wake-up: while the published index misses an invalidated write,  *)
(* the worker is set to wake, or in a round, or its round at this very      *)
(* epoch failed, or the process shuts down (_rebuild_loop, ensure_built).   *)
THEOREM NoWakeUpIsLost == Spec => []StaleIsScheduled
<1>1. Init => WakeInv
  BY InitInv DEF Init, RoundInv, NoLocals, Rebuilding, StaleIsScheduled
<1>2. WakeInv => StaleIsScheduled
  OBVIOUS
<1> QED BY <1>1, <1>2, NextWakes, PTL DEF Spec
===============================================================================
