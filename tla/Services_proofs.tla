---------------------------- MODULE Services_proofs ----------------------------
(***************************************************************************)
(* Proofs about the file locks (FileLock, SharedLock), for any number of   *)
(* threads, processes and lock files on POSIX and on Windows, and about    *)
(* the components that serve requests, for any number of servers, clerks   *)
(* and requests: the HTTP endpoint (McpHttp), the one local user           *)
(* (LocalBootstrap), the embedding model (EmbeddingFallback), the approval *)
(* queue (ActionWorkflow), and the sum of all of them (MCServices).        *)
(***************************************************************************)
EXTENDS MCServices, TLAPS, FiniteSetTheorems

-----------------------------------------------------------------------------
(* The handles of different threads, and of different kinds, differ.       *)

LEMMA HandleFacts ==
    /\ \A t \in Threads : With(t) \in Handles /\ Life(t) \in Handles
    /\ \A t, u \in Threads : Life(t) # With(u) /\ (With(t) = With(u) => t = u)
BY DEF With, Life, Handles

LEMMA NoCallType ==
    /\ NoCall \in Calls
    /\ \A p \in Paths : [NoCall EXCEPT !.path = p] \in Calls
BY LocksAssumption DEF NoCall, Calls

LEMMA MineType ==
    ASSUME LockTypeOK, NEW t \in Threads
    PROVE  /\ call[t].path \in Paths
           /\ Mine(t) \in Processes \X Paths
           /\ call[t].purpose \in Purposes \cup {NoPurpose}
           /\ call[t].write \in BOOLEAN
BY ThreadsAssumption DEF LockTypeOK, Calls, Mine

LEMMA ReturnType ==
    ASSUME LockTypeOK, NEW t \in Threads, GiveBack(t)
    PROVE  /\ call' \in [Threads -> Calls]
           /\ lockPc' \in [Threads -> {"run", "rlock", "lookup", "flock", "record",
                                   "enter", "release", "unlock", "life"}]
BY NoCallType DEF LockTypeOK, GiveBack, GoOn

LEMMA ForgetType ==
    ASSUME LockTypeOK, NEW t \in Threads, Forget(t)
    PROVE  pending' \in [Threads -> Purposes \cup {NoPurpose}]
BY DEF LockTypeOK, Forget

LEMMA UnlockedType ==
    ASSUME NEW l \in RLockType, l # Free
    PROVE  Unlocked(l) \in RLockType
BY DEF RLockType, Unlocked, Free

-----------------------------------------------------------------------------
(* The types.                                                              *)

LEMMA EnterType ==
    ASSUME LockTypeOK, NEW t \in Threads,
           \/ \E purpose \in Purposes \cup {NoPurpose} : CallWriteLock(t, purpose)
           \/ \E p \in Paths : CallFileLock(t, p)
           \/ GetRLock(t) \/ RLockTimeout(t) \/ Reenter(t)
    PROVE  LockTypeOK'
<1>1. CASE \E purpose \in Purposes \cup {NoPurpose} : CallWriteLock(t, purpose)
  BY <1>1, LocksAssumption DEF CallWriteLock, LockTypeOK, Calls, GoOn
<1>2. CASE \E p \in Paths : CallFileLock(t, p)
  BY <1>2 DEF CallFileLock, LockTypeOK, Calls, GoOn
<1>3. CASE GetRLock(t)
  BY MineType, <1>3 DEF LockTypeOK, RLockType, Free, GetRLock, GoOn
<1>4. CASE RLockTimeout(t)
  BY <1>4, ReturnType, ForgetType DEF RLockTimeout, LockTypeOK
<1>5. CASE Reenter(t)
  BY <1>5, ReturnType, ForgetType, MineType DEF Reenter, LockTypeOK
<1> QED BY <1>1, <1>2, <1>3, <1>4, <1>5

LEMMA AcquireType ==
    ASSUME LockTypeOK, NEW t \in Threads,
           Open(t) \/ OpenFail(t) \/ Flock(t) \/ FlockFail(t) \/ Record(t) \/ Enter(t)
    PROVE  LockTypeOK'
<1>1. CASE Open(t)
  BY <1>1 DEF Open, LockTypeOK, GoOn
<1>2. CASE OpenFail(t)
  BY <1>2, ForgetType DEF OpenFail, LockTypeOK, GoOn
<1>3. CASE Flock(t)
  BY <1>3 DEF Flock, LockTypeOK, GoOn
<1>4. CASE FlockFail(t)
  BY <1>4, ForgetType DEF FlockFail, LockTypeOK, GoOn
<1>5. CASE Record(t)
  BY ThreadsAssumption, <1>5, MineType DEF Records, LockTypeOK, Record, GoOn
<1>6. CASE Enter(t)
  BY <1>6, ReturnType, ForgetType, MineType DEF Enter, LockTypeOK
<1> QED BY <1>1, <1>2, <1>3, <1>4, <1>5, <1>6

LEMMA LifeType ==
    ASSUME LockTypeOK, NEW t \in Threads,
           \/ LifeGranted(t) \/ LifeFail(t)
           \/ \E p \in Paths : CallLife(t, p) \/ ReleaseLife(t, p)
    PROVE  LockTypeOK'
<1>1. CASE LifeGranted(t)
  BY <1>1, ReturnType, LocksAssumption DEF LifeGranted, LockTypeOK
<1>2. CASE LifeFail(t)
  BY <1>2, ReturnType DEF LifeFail, LockTypeOK
<1>3. CASE \E p \in Paths : CallLife(t, p)
  BY <1>3, NoCallType DEF CallLife, LockTypeOK, GoOn
<1>4. ASSUME NEW p \in Paths, ReleaseLife(t, p)
      PROVE  LockTypeOK'
  BY <1>4 DEF ReleaseLife, LockTypeOK
<1> QED BY <1>1, <1>2, <1>3, <1>4

\* Leaving gives a level of the RLock back; BlockInv says that there is one.
LEMMA LeaveType ==
    ASSUME LockTypeOK, BlockInv, NEW t \in Threads,
           \/ \E p \in Paths : LeaveInner(t, p) \/ LeaveOuter(t, p)
           \/ ReleaseHandle(t) \/ Unlock(t)
    PROVE  LockTypeOK'
<1>1. ASSUME NEW p \in Paths, LeaveInner(t, p)
      PROVE  LockTypeOK'
  <2> Blk(t, p) /\ blocks[t][p] \in Nat /\ Level(t, p) \in {0, 1}
    BY DEF BlockInv, LockTypeOK, Level
  <2>1. rlock[<<ProcOf[t], p>>] # Free
    BY <1>1, ThreadsAssumption DEF LeaveInner, Blk, Free, NoThread
  <2>2. <<ProcOf[t], p>> \in Processes \X Paths
    BY ThreadsAssumption
  <2>3. Unlocked(rlock[<<ProcOf[t], p>>]) \in RLockType
    BY <2>1, <2>2, UnlockedType DEF LockTypeOK
  <2>4. rlock' \in [Processes \X Paths -> RLockType]
    BY <1>1, <2>3 DEF LeaveInner, LockTypeOK
  <2>5. held[t][p] \in Nat /\ blocks[t][p] \in Nat /\ held[t][p] = blocks[t][p]
    BY DEF LockTypeOK, Blk
  <2> QED BY <1>1, <2>4, <2>5 DEF LeaveInner, LockTypeOK
<1>2. ASSUME NEW p \in Paths, LeaveOuter(t, p)
      PROVE  LockTypeOK'
  BY <1>2, NoCallType DEF LeaveOuter, LockTypeOK, GoOn
<1>3. CASE ReleaseHandle(t)
  BY <1>3 DEF ReleaseHandle, LockTypeOK, GoOn
<1>4. CASE Unlock(t)
  <2> DEFINE p == call[t].path
  <2>0. Blk(t, p) /\ blocks[t][p] \in Nat /\ Level(t, p) = 1
    BY <1>4, MineType DEF BlockInv, LockTypeOK, Level, Unlock
  <2>1. rlock[Mine(t)] # Free
    BY <2>0, ThreadsAssumption DEF Blk, Free, NoThread, Mine
  <2>2. Unlocked(rlock[Mine(t)]) \in RLockType
    BY <2>1, MineType, UnlockedType DEF LockTypeOK
  <2> QED BY <1>4, <2>2, ReturnType DEF Unlock, LockTypeOK
<1> QED BY <1>1, <1>2, <1>3, <1>4

LEMMA CrashType ==
    ASSUME LockTypeOK, NEW q \in Processes, Crash(q)
    PROVE  LockTypeOK'
BY NoCallType DEF RLockType, Crash, LockTypeOK

LEMMA TypeStep ==
    ASSUME LockTypeOK, BlockInv, [LockNext]_lockVars
    PROVE  LockTypeOK'
BY EnterType, AcquireType, LifeType, LeaveType, CrashType DEF lockVars, LockTypeOK, LockStep,
   CallerStep, LockNext

-----------------------------------------------------------------------------
(* The table of the operating system.                                      *)

LEMMA TableStep ==
    ASSUME LockTypeOK, TableInv, [LockNext]_lockVars
    PROVE  TableInv'
<1> SUFFICES ASSUME NEW p \in Paths, NEW h \in Handles, NEW g \in Handles,
                    mode'[p][h] = "ex", g # h
             PROVE  mode'[p][g] = "none"
  BY DEF TableInv
<1>1. CASE UNCHANGED mode
  BY <1>1 DEF TableInv
<1>2. ASSUME NEW t \in Threads, Flock(t)
      PROVE  mode'[p][g] = "none"
  BY <1>2, HandleFacts, MineType DEF Flock, Grantable, LockTypeOK, TableInv
<1>3. ASSUME NEW t \in Threads, LifeGranted(t)
      PROVE  mode'[p][g] = "none"
  BY <1>3, HandleFacts, MineType, LocksAssumption DEF LifeGranted, Grantable, LockTypeOK, TableInv
<1>4. ASSUME NEW t \in Threads, ReleaseHandle(t)
      PROVE  mode'[p][g] = "none"
  BY <1>4, HandleFacts, MineType DEF ReleaseHandle, LockTypeOK, TableInv
<1>5. ASSUME NEW t \in Threads, NEW r \in Paths, ReleaseLife(t, r)
      PROVE  mode'[p][g] = "none"
  BY <1>5, HandleFacts DEF ReleaseLife, LockTypeOK, TableInv
<1>6. ASSUME NEW q \in Processes, Crash(q)
      PROVE  mode'[p][g] = "none"
  BY <1>6 DEF Crash, LockTypeOK, TableInv
<1>7. CASE UNCHANGED lockVars
  BY <1>7, <1>1 DEF lockVars
<1>8. ASSUME NEW t \in Threads, LockStep(t) \/ CallerStep(t)
      PROVE  mode'[p][g] = "none"
  BY <1>8, <1>1, <1>2, <1>3, <1>4, <1>5
     DEF LockStep, CallerStep, GetRLock, RLockTimeout, Reenter, Open, OpenFail, FlockFail,
         Record, Enter, Unlock, LifeFail, CallWriteLock, CallFileLock, LeaveInner, LeaveOuter, CallLife
<1> QED BY <1>6, <1>7, <1>8 DEF LockNext

-----------------------------------------------------------------------------
(* Blocks, levels and handles.                                             *)

\* A step of one thread that leaves the RLocks of the others alone.
LEMMA OthersKeepBlk ==
    ASSUME LockTypeOK, BlockInv,
           NEW t \in Threads, NEW u \in Threads, NEW p \in Paths, u # t,
           held'[u] = held[u], blocks'[u] = blocks[u], lockPc'[u] = lockPc[u], call'[u] = call[u],
           mode'[p][With(u)] = mode[p][With(u)],
           \/ rlock'[<<ProcOf[u], p>>] = rlock[<<ProcOf[u], p>>]
           \/ /\ rlock[<<ProcOf[u], p>>].owner # u
              /\ rlock'[<<ProcOf[u], p>>].owner # u
    PROVE  Blk(u, p)'
BY DEF BlockInv, Level, Blk

\* A step of one thread that changes no RLock, block or with handle, and keeps its levels.
LEMMA QuietStep ==
    ASSUME LockTypeOK, BlockInv, NEW t \in Threads,
           UNCHANGED <<rlock, held, blocks>>,
           \A u \in Threads, p \in Paths : mode'[p][With(u)] = mode[p][With(u)],
           \A u \in Threads \ {t} : lockPc'[u] = lockPc[u] /\ call'[u] = call[u],
           \A p \in Paths : Level(t, p)' = Level(t, p),
           lockPc'[t] \notin {"record", "enter", "release"} /\ lockPc[t] \notin {"record", "enter", "release"},
           \A p \in Paths : call'[t].path = p /\ lockPc'[t] \in {"flock", "unlock"} => blocks[t][p] = 0
    PROVE  BlockInv'
BY OthersKeepBlk DEF BlockInv, Blk

LEMMA GetRLockBlk ==
    ASSUME LockTypeOK, BlockInv, NEW t \in Threads, GetRLock(t)
    PROVE  BlockInv'
<1> SUFFICES ASSUME NEW u \in Threads, NEW p \in Paths
             PROVE  Blk(u, p)'
  BY DEF BlockInv
<1>1. Blk(u, p) /\ blocks[u][p] \in Nat
  BY DEF BlockInv, LockTypeOK
<1>2. <<ProcOf[u], p>> \in Processes \X Paths /\ Mine(t) \in Processes \X Paths
  BY MineType, ThreadsAssumption
<1>3. rlock' = [rlock EXCEPT ![Mine(t)] = [owner |-> t, count |-> rlock[Mine(t)].count + 1]]
  BY DEF GetRLock
<1>4. CASE u = t /\ p = call[t].path
  <2>1. <<ProcOf[u], p>> = Mine(t)
    BY <1>4 DEF Mine
  <2>2. Level(u, p) = 0 /\ Level(u, p)' = 1
    BY <1>4 DEF Level, GetRLock, GoOn, LockTypeOK
  <2>3. rlock[Mine(t)] \in RLockType
    BY <1>2 DEF LockTypeOK
  <2>4. rlock[Mine(t)].count = blocks[u][p]
    BY <1>1, <1>4, <2>1, <2>2, <2>3, ThreadsAssumption DEF Blk, RLockType, Free, NoThread, GetRLock
  <2>5. rlock'[<<ProcOf[u], p>>] = [owner |-> u, count |-> blocks[u][p] + 1]
    BY <1>2, <1>3, <1>4, <2>1, <2>4 DEF LockTypeOK
  <2> QED BY <1>1, <1>4, <2>2, <2>5 DEF Blk, GetRLock, GoOn, LockTypeOK
<1>5. CASE u = t /\ p # call[t].path
  BY <1>2, <1>3, <1>5, <1>1 DEF Mine, LockTypeOK, Level, GetRLock, Blk
<1>6. CASE u # t
  <2>1. CASE <<ProcOf[u], p>> = Mine(t)
    <3>1. rlock[<<ProcOf[u], p>>].owner # u /\ rlock'[<<ProcOf[u], p>>].owner # u
      <4>1. rlock'[Mine(t)].owner = t
        BY <1>2, <1>3 DEF LockTypeOK
      <4>2. u # NoThread
        BY ThreadsAssumption DEF NoThread
      <4> QED BY <1>6, <2>1, <4>1, <4>2 DEF GetRLock
    <3> QED BY <1>6, <3>1, OthersKeepBlk DEF GetRLock, GoOn, LockTypeOK
  <2>2. CASE <<ProcOf[u], p>> # Mine(t)
    BY <1>2, <1>3, <2>2, <1>6, OthersKeepBlk DEF LockTypeOK, GetRLock, GoOn
  <2> QED BY <2>1, <2>2
<1> QED BY <1>4, <1>5, <1>6

LEMMA QuietBlk ==
    ASSUME LockTypeOK, BlockInv, NEW t \in Threads,
           \/ \E purpose \in Purposes \cup {NoPurpose} : CallWriteLock(t, purpose)
           \/ \E p \in Paths : CallFileLock(t, p) \/ CallLife(t, p) \/ ReleaseLife(t, p)
           \/ RLockTimeout(t) \/ Open(t) \/ OpenFail(t) \/ FlockFail(t)
           \/ LifeGranted(t) \/ LifeFail(t)
    PROVE  BlockInv'
<1>1. CASE \/ \E purpose \in Purposes \cup {NoPurpose} : CallWriteLock(t, purpose)
           \/ \E p \in Paths : CallFileLock(t, p) \/ CallLife(t, p)
           \/ RLockTimeout(t) \/ LifeFail(t)
  BY <1>1, QuietStep DEF CallWriteLock, CallFileLock, CallLife, RLockTimeout, LifeFail, GiveBack,
     GoOn, LockTypeOK, Level
<1>2. CASE Open(t) \/ OpenFail(t)
  <2>1. /\ UNCHANGED <<rlock, held, blocks, mode, call>>
        /\ \A u \in Threads \ {t} : lockPc'[u] = lockPc[u]
        /\ lockPc[t] = "lookup" /\ lockPc'[t] \in {"flock", "unlock"}
        /\ held[t][call[t].path] = 0
    BY <1>2 DEF Open, OpenFail, GoOn, LockTypeOK
  <2>2. \A p \in Paths : Level(t, p)' = Level(t, p)
    BY <2>1 DEF Level
  <2>3. blocks[t][call[t].path] = 0
    <3>1. PICK p \in Paths : p = call[t].path
      BY MineType
    <3>2. held[t][p] = blocks[t][p]
      <4>1. Blk(t, p)
        BY DEF BlockInv
      <4> QED BY ONLY <4>1 DEF Blk
    <3> QED BY <2>1, <3>1, <3>2
  <2> QED BY <2>1, <2>2, <2>3, QuietStep
<1>3. CASE FlockFail(t)
  BY <1>3, MineType, QuietStep DEF FlockFail, GoOn, LockTypeOK, Level, BlockInv, Blk
<1>4. CASE LifeGranted(t) \/ \E p \in Paths : ReleaseLife(t, p)
  <2>1. /\ UNCHANGED <<rlock, held, blocks>>
        /\ \A u \in Threads \ {t} : lockPc'[u] = lockPc[u] /\ call'[u] = call[u]
        /\ lockPc[t] \in {"run", "life"} /\ lockPc'[t] = "run"
    BY <1>4 DEF LifeGranted, ReleaseLife, GiveBack, GoOn, LockTypeOK
  <2>2. \A u \in Threads, p \in Paths : mode'[p][With(u)] = mode[p][With(u)]
    <3>1. CASE LifeGranted(t)
      BY <3>1, HandleFacts, MineType DEF LifeGranted, LockTypeOK
    <3>2. CASE \E p \in Paths : ReleaseLife(t, p)
      BY <3>2, HandleFacts DEF ReleaseLife, LockTypeOK
    <3> QED BY <1>4, <3>1, <3>2
  <2>3. \A p \in Paths : Level(t, p)' = Level(t, p)
    BY <2>1 DEF Level
  <2> QED BY <2>1, <2>2, <2>3, QuietStep
<1> QED BY <1>1, <1>2, <1>3, <1>4

LEMMA ReenterBlk ==
    ASSUME LockTypeOK, BlockInv, NEW t \in Threads, Reenter(t)
    PROVE  BlockInv'
<1> SUFFICES ASSUME NEW u \in Threads, NEW p \in Paths
             PROVE  Blk(u, p)'
  BY DEF BlockInv
<1>1. Blk(u, p) /\ blocks[u][p] \in Nat /\ held[u][p] \in Nat
  BY DEF BlockInv, LockTypeOK
<1>2. CASE u = t /\ p = call[t].path
  BY <1>2, <1>1 DEF Level, Reenter, GiveBack, GoOn, LockTypeOK, Blk
<1>3. CASE u = t /\ p # call[t].path
  BY <1>3, <1>1 DEF Level, Reenter, GiveBack, GoOn, LockTypeOK, Blk
<1>4. CASE u # t
  BY <1>4, OthersKeepBlk DEF Reenter, GiveBack, GoOn, LockTypeOK
<1> QED BY <1>2, <1>3, <1>4

LEMMA FlockBlk ==
    ASSUME LockTypeOK, BlockInv, NEW t \in Threads, Flock(t)
    PROVE  BlockInv'
BY HandleFacts, MineType, OthersKeepBlk DEF BlockInv, LockTypeOK, Level, Flock, GoOn, Blk

LEMMA RecordBlk ==
    ASSUME LockTypeOK, BlockInv, NEW t \in Threads, Record(t)
    PROVE  BlockInv'
BY OthersKeepBlk DEF BlockInv, Record, GoOn, LockTypeOK, Level, Blk

LEMMA EnterBlk ==
    ASSUME LockTypeOK, BlockInv, NEW t \in Threads, Enter(t)
    PROVE  BlockInv'
<1> SUFFICES ASSUME NEW u \in Threads, NEW p \in Paths
             PROVE  Blk(u, p)'
  BY DEF BlockInv
<1>1. Blk(u, p) /\ blocks[u][p] \in Nat
  BY DEF BlockInv, LockTypeOK
<1>2. CASE u = t /\ p = call[t].path
  BY <1>2, <1>1 DEF Level, Enter, GiveBack, GoOn, LockTypeOK, Blk
<1>3. CASE u = t /\ p # call[t].path
  BY <1>3, <1>1 DEF Level, Enter, GiveBack, GoOn, LockTypeOK, Blk
<1>4. CASE u # t
  BY <1>4, OthersKeepBlk DEF Enter, GiveBack, GoOn, LockTypeOK
<1> QED BY <1>2, <1>3, <1>4

\* One level of t's RLock given back: t keeps the rest, nobody else had any.
LEMMA UnlockedOwner ==
    ASSUME NEW t \in Threads, NEW n \in Nat \ {0}, NEW l, l = [owner |-> t, count |-> n]
    PROVE  /\ n = 1 => Unlocked(l) = Free
           /\ n > 1 => Unlocked(l) = [owner |-> t, count |-> n - 1]
           /\ Unlocked(l).owner \in {t, NoThread}
BY DEF Unlocked, Free

LEMMA LeaveInnerBlk ==
    ASSUME LockTypeOK, BlockInv, NEW t \in Threads, NEW r \in Paths, LeaveInner(t, r)
    PROVE  BlockInv'
<1> SUFFICES ASSUME NEW u \in Threads, NEW p \in Paths
             PROVE  Blk(u, p)'
  BY DEF BlockInv
<1>1. Blk(u, p) /\ Blk(t, r) /\ blocks[t][r] \in Nat /\ held[t][r] = blocks[t][r]
  BY DEF BlockInv, LockTypeOK, Blk
<1>2. lockPc[t] = "run" /\ blocks[t][r] > 1 /\ lockPc' = lockPc /\ call' = call /\ mode' = mode
  BY DEF LeaveInner
<1>3. Level(t, r) = 0
  BY <1>2 DEF Level
<1>4. rlock[<<ProcOf[t], r>>] = [owner |-> t, count |-> blocks[t][r]]
  BY <1>1, <1>2, <1>3 DEF Blk
<1>5. <<ProcOf[t], r>> \in Processes \X Paths /\ <<ProcOf[u], p>> \in Processes \X Paths
  BY ThreadsAssumption
<1>6. rlock' = [rlock EXCEPT ![<<ProcOf[t], r>>] = Unlocked(rlock[<<ProcOf[t], r>>])]
  BY DEF LeaveInner
<1>7. rlock'[<<ProcOf[t], r>>] = [owner |-> t, count |-> blocks[t][r] - 1]
  BY <1>1, <1>2, <1>4, <1>5, <1>6, UnlockedOwner DEF LockTypeOK
<1>8. Level(u, p)' = Level(u, p)
  BY <1>2 DEF Level
<1>9. CASE u = t /\ p = r
  BY <1>1, <1>2, <1>9, <1>3, <1>7, <1>8 DEF LeaveInner, LockTypeOK, Blk
<1>10. CASE u = t /\ p # r
  BY <1>5, <1>6, <1>10, <1>1, <1>2, <1>8 DEF LockTypeOK, LeaveInner, Blk
<1>11. CASE u # t
  <2>1. \/ rlock'[<<ProcOf[u], p>>] = rlock[<<ProcOf[u], p>>]
        \/ /\ rlock[<<ProcOf[u], p>>].owner # u
           /\ rlock'[<<ProcOf[u], p>>].owner # u
    <3>1. CASE <<ProcOf[u], p>> = <<ProcOf[t], r>>
      BY <1>4, <1>7, <1>11, <3>1
    <3>2. CASE <<ProcOf[u], p>> # <<ProcOf[t], r>>
      BY <1>5, <1>6, <3>2 DEF LockTypeOK
    <3> QED BY <3>1, <3>2
  <2>2. blocks'[u] = blocks[u] /\ held'[u] = held[u]
    BY <1>11 DEF LeaveInner, LockTypeOK
  <2> QED BY <1>2, <1>11, <2>1, <2>2, OthersKeepBlk
<1> QED BY <1>9, <1>10, <1>11

LEMMA LeaveOuterBlk ==
    ASSUME LockTypeOK, BlockInv, NEW t \in Threads, NEW r \in Paths, LeaveOuter(t, r)
    PROVE  BlockInv'
<1> SUFFICES ASSUME NEW u \in Threads, NEW p \in Paths
             PROVE  Blk(u, p)'
  BY DEF BlockInv
<1>1. Blk(u, p) /\ blocks[u][p] \in Nat
  BY DEF BlockInv, LockTypeOK
<1>2. CASE u = t
  BY <1>2, <1>1 DEF LeaveOuter, GoOn, LockTypeOK, NoCall, Level, Blk
<1>3. CASE u # t
  BY <1>3, OthersKeepBlk DEF LeaveOuter, GoOn, LockTypeOK
<1> QED BY <1>2, <1>3

LEMMA ReleaseHandleBlk ==
    ASSUME LockTypeOK, BlockInv, NEW t \in Threads, ReleaseHandle(t)
    PROVE  BlockInv'
BY HandleFacts, MineType, OthersKeepBlk DEF BlockInv, LockTypeOK, ReleaseHandle, GoOn, Level, Blk

LEMMA UnlockBlk ==
    ASSUME LockTypeOK, BlockInv, NEW t \in Threads, Unlock(t)
    PROVE  BlockInv'
<1> SUFFICES ASSUME NEW u \in Threads, NEW p \in Paths
             PROVE  Blk(u, p)'
  BY DEF BlockInv
<1> DEFINE r == call[t].path
<1>1. Blk(u, p) /\ Blk(t, r) /\ blocks[u][p] \in Nat
  BY MineType DEF BlockInv, LockTypeOK
<1>2. lockPc[t] = "unlock" /\ lockPc'[t] = "run"
  BY DEF Unlock, GiveBack, GoOn, LockTypeOK
<1>3. Level(t, r) = 1 /\ blocks[t][r] = 0
  BY <1>1, <1>2 DEF Level, Blk
<1>4. rlock[Mine(t)] = [owner |-> t, count |-> 1]
  BY <1>1, <1>3 DEF Blk, Mine
<1>5. Mine(t) \in Processes \X Paths /\ <<ProcOf[u], p>> \in Processes \X Paths
  BY MineType, ThreadsAssumption
<1>6. rlock' = [rlock EXCEPT ![Mine(t)] = Unlocked(rlock[Mine(t)])]
  BY DEF Unlock
<1>7. rlock'[Mine(t)] = Free
  BY <1>4, <1>5, <1>6, UnlockedOwner DEF LockTypeOK
<1>8. u # NoThread
  BY ThreadsAssumption DEF NoThread
<1>9. CASE u = t /\ p = r
  BY <1>2, <1>9, <1>1, <1>3, <1>7, <1>8 DEF Level, Mine, Blk, Unlock, Free
<1>10. CASE u = t /\ p # r
  BY <1>2, <1>10, <1>5, <1>6, <1>1 DEF Level, LockTypeOK, Mine, Blk, Unlock
<1>11. CASE u # t
  <2>1. \/ rlock'[<<ProcOf[u], p>>] = rlock[<<ProcOf[u], p>>]
        \/ /\ rlock[<<ProcOf[u], p>>].owner # u
           /\ rlock'[<<ProcOf[u], p>>].owner # u
    <3>1. CASE <<ProcOf[u], p>> = Mine(t)
      BY <1>4, <1>7, <1>8, <1>11, <3>1 DEF Free
    <3>2. CASE <<ProcOf[u], p>> # Mine(t)
      BY <1>5, <1>6, <3>2 DEF LockTypeOK
    <3> QED BY <3>1, <3>2
  <2> QED BY <1>11, <2>1, OthersKeepBlk DEF Unlock, GiveBack, GoOn, LockTypeOK
<1> QED BY <1>9, <1>10, <1>11

LEMMA CrashBlk ==
    ASSUME LockTypeOK, BlockInv, NEW q \in Processes, Crash(q)
    PROVE  BlockInv'
<1> SUFFICES ASSUME NEW u \in Threads, NEW p \in Paths
             PROVE  Blk(u, p)'
  BY DEF BlockInv
<1>1. Blk(u, p) /\ <<ProcOf[u], p>> \in Processes \X Paths /\ u # NoThread
  BY ThreadsAssumption DEF BlockInv, NoThread
<1>2. CASE ProcOf[u] = q
  BY <1>2, <1>1, HandleFacts DEF Crash, With, Level, Blk, Free
<1>3. CASE ProcOf[u] # q
  BY <1>3, <1>1, HandleFacts DEF Crash, With, Level, Blk
<1> QED BY <1>2, <1>3

LEMMA BlockStep ==
    ASSUME LockTypeOK, BlockInv, [LockNext]_lockVars
    PROVE  BlockInv'
<1>1. CASE UNCHANGED lockVars
  BY <1>1 DEF lockVars, BlockInv, Blk, Level
<1>2. ASSUME NEW t \in Threads, LockStep(t) \/ CallerStep(t)
      PROVE  BlockInv'
  BY <1>2, QuietBlk, GetRLockBlk, ReenterBlk, FlockBlk, RecordBlk, EnterBlk,
     LeaveInnerBlk, LeaveOuterBlk, ReleaseHandleBlk, UnlockBlk
     DEF LockStep, CallerStep
<1> QED BY <1>1, <1>2, CrashBlk DEF LockNext

-----------------------------------------------------------------------------
(* Purposes.                                                               *)

LEMMA PurposeStep ==
    ASSUME LockTypeOK, PurposeInv, [LockNext]_lockVars
    PROVE  PurposeInv'
<1>1. CASE UNCHANGED lockVars
  BY <1>1 DEF lockVars, PurposeInv
<1>2. ASSUME NEW t \in Threads, LockStep(t) \/ CallerStep(t)
      PROVE  PurposeInv'
  <2> SUFFICES ASSUME NEW u \in Threads
               PROVE  /\ pending'[u] =
                             IF call'[u].write /\ lockPc'[u] \in {"rlock", "lookup", "flock", "record", "enter"}
                             THEN call'[u].purpose ELSE NoPurpose
                      /\ ~call'[u].write => call'[u].purpose = NoPurpose
    BY DEF PurposeInv
  <2> USE DEF PurposeInv, LockTypeOK, GoOn, GiveBack, Forget, NoCall
  <2>1. CASE \/ \E purpose \in Purposes \cup {NoPurpose} : CallWriteLock(t, purpose)
             \/ \E p \in Paths : CallFileLock(t, p)
    <3>1. ASSUME NEW purpose \in Purposes \cup {NoPurpose}, CallWriteLock(t, purpose)
          PROVE  /\ pending' = [pending EXCEPT ![t] = purpose]
                 /\ call' = [call EXCEPT ![t] = [path |-> WritePath, purpose |-> purpose, write |-> TRUE]]
                 /\ lockPc' = [lockPc EXCEPT ![t] = "rlock"]
      BY <3>1 DEF CallWriteLock
    <3>2. ASSUME NEW p \in Paths, CallFileLock(t, p)
          PROVE  /\ pending' = pending /\ lockPc[t] = "run"
                 /\ call' = [call EXCEPT ![t] = [path |-> p, purpose |-> NoPurpose, write |-> FALSE]]
                 /\ lockPc' = [lockPc EXCEPT ![t] = "rlock"]
      BY <3>2 DEF CallFileLock
    <3>3. CASE u = t
      <4>1. CASE \E purpose \in Purposes \cup {NoPurpose} : CallWriteLock(t, purpose)
        BY <3>1, <3>3, <4>1
      <4>2. CASE \E p \in Paths : CallFileLock(t, p)
        <5>1. PICK p \in Paths : CallFileLock(t, p)
          BY <4>2
        <5>2. pending[t] = NoPurpose
          BY <3>2, <5>1
        <5>3. pending'[u] = NoPurpose /\ ~call'[u].write /\ call'[u].purpose = NoPurpose
          BY <3>2, <3>3, <5>1, <5>2
        <5> QED BY <5>3
      <4> QED BY <2>1, <4>1, <4>2
    <3>4. CASE u # t
      BY <2>1, <3>1, <3>2, <3>4
    <3> QED BY <3>3, <3>4
  <2>2. CASE GetRLock(t) \/ Open(t) \/ Flock(t) \/ Record(t)
    BY <2>2 DEF GetRLock, Open, Flock, Record
  <2>3. CASE RLockTimeout(t) \/ Reenter(t) \/ OpenFail(t) \/ FlockFail(t) \/ Enter(t)
    <3>1. /\ Forget(t)
          /\ \A v \in Threads \ {t} : lockPc'[v] = lockPc[v] /\ call'[v] = call[v]
          /\ lockPc[t] \in {"rlock", "lookup", "flock", "enter"} /\ lockPc'[t] \in {"run", "unlock"}
          /\ call'[t] \in {call[t], NoCall}
      BY <2>3 DEF RLockTimeout, Reenter, OpenFail, FlockFail, Enter
    <3>2. CASE u = t
      BY <3>1, <3>2
    <3>3. CASE u # t
      BY <3>1, <3>3
    <3> QED BY <3>2, <3>3
  <2>4. CASE ReleaseHandle(t) \/ Unlock(t) \/ LifeGranted(t) \/ LifeFail(t)
    BY <2>4 DEF ReleaseHandle, Unlock, LifeGranted, LifeFail
  <2>5. CASE \E p \in Paths : \/ LeaveInner(t, p) \/ LeaveOuter(t, p)
                              \/ CallLife(t, p) \/ ReleaseLife(t, p)
    <3>1. ASSUME NEW p \in Paths
          PROVE  LET c == [NoCall EXCEPT !.path = p] IN ~c.write /\ c.purpose = NoPurpose
      OBVIOUS
    <3>2. /\ pending' = pending
          /\ \A v \in Threads \ {t} : lockPc'[v] = lockPc[v] /\ call'[v] = call[v]
          /\ \/ lockPc' = lockPc /\ call' = call
             \/ /\ lockPc[t] = "run" /\ lockPc'[t] \in {"release", "life"}
                /\ ~call'[t].write /\ call'[t].purpose = NoPurpose
      <4>1. CASE \E p \in Paths : LeaveInner(t, p) \/ ReleaseLife(t, p)
        BY <4>1 DEF LeaveInner, ReleaseLife
      <4>2. ASSUME NEW p \in Paths, LeaveOuter(t, p) \/ CallLife(t, p),
                   NEW c, c = [NoCall EXCEPT !.path = p]
            PROVE  /\ pending' = pending /\ call' = [call EXCEPT ![t] = c]
                   /\ lockPc[t] = "run" /\ \E label \in {"release", "life"} : lockPc' = [lockPc EXCEPT ![t] = label]
                   /\ ~c.write /\ c.purpose = NoPurpose
        BY <4>2, <3>1 DEF LeaveOuter, GoOn, CallLife
      <4>3. CASE \E p \in Paths : LeaveOuter(t, p) \/ CallLife(t, p)
        BY <4>3, <4>2 DEF LockTypeOK
      <4> QED BY <2>5, <4>1, <4>3
    <3>3. CASE u = t
      BY <3>2, <3>3
    <3>4. CASE u # t
      BY <3>2, <3>4
    <3> QED BY <3>3, <3>4
  <2> QED BY <1>2, <2>1, <2>2, <2>3, <2>4, <2>5 DEF LockStep, CallerStep
<1>3. ASSUME NEW q \in Processes, Crash(q)
      PROVE  PurposeInv'
  BY <1>3 DEF Crash, PurposeInv, LockTypeOK, NoCall
<1> QED BY <1>1, <1>2, <1>3 DEF LockNext

-----------------------------------------------------------------------------
(* Initial states, and the theorems.                                       *)

LEMMA InitIInv == LockInit => FileLockInv
<1> SUFFICES ASSUME LockInit
             PROVE  FileLockInv
  OBVIOUS
<1>1. LockTypeOK
  BY NoCallType, LocksAssumption DEF LockInit, LockTypeOK, RLockType, Records, NoRecord
<1>2. TableInv
  BY DEF LockInit, TableInv
<1>3. BlockInv
  BY ThreadsAssumption, HandleFacts DEF BlockInv, LockInit, Level, NoThread, Blk, Free
<1>4. PurposeInv
  BY DEF LockInit, PurposeInv, NoCall
<1> QED BY <1>1, <1>2, <1>3, <1>4 DEF FileLockInv

LEMMA IInvStep == FileLockInv /\ [LockNext]_lockVars => FileLockInv'
BY TypeStep, TableStep, BlockStep, PurposeStep DEF FileLockInv

LEMMA Invariance == LockSpec => []FileLockInv
BY InitIInv, IInvStep, PTL DEF LockSpec

\* The variables keep their types: in particular no RLock is released by a
\* thread that does not own a level of it.
THEOREM TypeCorrect == LockSpec => []LockTypeOK
<1>1. FileLockInv => LockTypeOK
  BY DEF FileLockInv
<1> QED BY <1>1, Invariance, PTL

\* Whoever is in no block and no call owns nothing: every exit of file_lock
\* gives back the RLock, the entry of the held table and the handle.
THEOREM NothingLeaks == LockSpec => []NoLeak
<1>1. FileLockInv => NoLeak
  <2> SUFFICES ASSUME FileLockInv, NEW t \in Threads, NEW p \in Paths,
                      lockPc[t] = "run", blocks[t][p] = 0
               PROVE  /\ rlock[<<ProcOf[t], p>>].owner # t
                      /\ held[t][p] = 0
                      /\ mode[p][With(t)] = "none"
    BY DEF NoLeak
  <2>1. Blk(t, p) /\ Level(t, p) = 0
    BY DEF FileLockInv, BlockInv, Level
  <2> QED BY <2>1 DEF Blk
<1> QED BY <1>1, Invariance, PTL

\* A holder record names a thread that holds the lock, with its own purpose.
THEOREM RecordsSpeakForThemselves == LockSpec => RecordSpeaksForItself
<1>1. ASSUME FileLockInv, [LockNext]_lockVars
      PROVE  [\A p \in Paths : record'[p] # record[p] =>
                \E t \in Threads :
                   /\ mode[p][With(t)] = "ex"
                   /\ call[t].path = p
                   /\ record'[p] \in {Torn, [by |-> ProcOf[t], purpose |-> call[t].purpose]}]_lockVars
  <2> SUFFICES ASSUME NEW p \in Paths, record'[p] # record[p]
               PROVE  \E t \in Threads :
                   /\ mode[p][With(t)] = "ex"
                   /\ call[t].path = p
                   /\ record'[p] \in {Torn, [by |-> ProcOf[t], purpose |-> call[t].purpose]}
    OBVIOUS
  <2>1. PICK t \in Threads : Record(t)
    <3>1. ~UNCHANGED lockVars /\ \A q \in Processes : ~Crash(q)
      BY DEF lockVars, Crash
    <3>2. PICK t \in Threads : LockStep(t) \/ CallerStep(t)
      BY <1>1, <3>1 DEF LockNext
    <3>3. ~CallerStep(t)
      BY DEF CallerStep, CallWriteLock, CallFileLock, LeaveInner, LeaveOuter, CallLife, ReleaseLife
    <3>4. /\ ~GetRLock(t) /\ ~RLockTimeout(t) /\ ~Reenter(t) /\ ~Open(t) /\ ~OpenFail(t)
          /\ ~Flock(t) /\ ~FlockFail(t)
      BY DEF GetRLock, RLockTimeout, Reenter, Open, OpenFail, Flock, FlockFail
    <3>5. ~Enter(t) /\ ~ReleaseHandle(t) /\ ~Unlock(t) /\ ~LifeGranted(t) /\ ~LifeFail(t)
      BY DEF Enter, ReleaseHandle, Unlock, LifeGranted, LifeFail
    <3> QED BY <3>2, <3>3, <3>4, <3>5 DEF LockStep
  <2>2. call[t].path = p
    BY <1>1, <2>1, MineType DEF Record, FileLockInv, LockTypeOK
  <2>3. mode[p][With(t)] = "ex"
    <3>1. Blk(t, p) /\ lockPc[t] = "record"
      BY <1>1, <2>1 DEF FileLockInv, BlockInv, Record
    <3> QED BY <2>2, <3>1 DEF Blk
  <2>4. pending[t] = call[t].purpose
    BY <1>1, <2>1 DEF Record, FileLockInv, PurposeInv
  <2>5. record'[p] \in {Torn, [by |-> ProcOf[t], purpose |-> pending[t]]}
    BY <1>1, <2>1, <2>2 DEF Record, FileLockInv, LockTypeOK
  <2> QED BY <2>2, <2>3, <2>4, <2>5
<1> QED BY <1>1, Invariance, PTL DEF LockSpec, RecordSpeaksForItself

-----------------------------------------------------------------------------
(* The refinement.                                                         *)

LEMMA HandleCases ==
    \A h \in Handles :
        /\ h[2] \in Threads
        /\ h[1] = "with" => h = With(h[2])
        /\ h[1] = "life" => h = Life(h[2])
        /\ h[1] \in {"with", "life"}
BY DEF Handles, With, Life

LEMMA HandleKinds ==
    \A t \in Threads : With(t)[1] = "with" /\ With(t)[2] = t /\ Life(t)[1] = "life"
BY DEF With, Life

\* Whoever is in a block has the exclusive lock of the operating system.
LEMMA WritersHold ==
    ASSUME FileLockInv, NEW p \in Paths, NEW h \in Writer[p]
    PROVE  h \in Handles /\ mode[p][h] = "ex"
<1>1. h \in Handles /\ h = With(h[2]) /\ h[2] \in Threads /\ blocks[h[2]][p] > 0
  BY HandleCases DEF Writer
<1>2. Blk(h[2], p)
  BY <1>1 DEF FileLockInv, BlockInv
<1> QED BY <1>1, <1>2 DEF Blk

\* What a step does to the holders of the abstract lock, seen from the code.
LEMMA SameWriter ==
    ASSUME \A u \in Threads, p \in Paths : blocks'[u][p] > 0 <=> blocks[u][p] > 0
    PROVE  Writer' = Writer
BY HandleCases DEF Writer

LEMMA SameReaders ==
    ASSUME \A u \in Threads, p \in Paths :
               mode'[p][Life(u)] # "none" <=> mode[p][Life(u)] # "none"
    PROVE  Readers' = Readers
BY HandleCases DEF Readers

\* The steps that the callers cannot see.
LEMMA StutterSteps ==
    ASSUME FileLockInv, NEW t \in Threads,
           \/ \E purpose \in Purposes \cup {NoPurpose} : CallWriteLock(t, purpose)
           \/ \E p \in Paths : CallFileLock(t, p) \/ CallLife(t, p) \/ LeaveInner(t, p)
           \/ GetRLock(t) \/ RLockTimeout(t) \/ Reenter(t) \/ Open(t) \/ OpenFail(t)
           \/ Flock(t) \/ FlockFail(t) \/ Record(t) \/ ReleaseHandle(t) \/ Unlock(t) \/ LifeFail(t)
    PROVE  UNCHANGED <<Readers, Writer>>
<1>1. CASE \/ \E purpose \in Purposes \cup {NoPurpose} : CallWriteLock(t, purpose)
           \/ \E p \in Paths : CallFileLock(t, p) \/ CallLife(t, p)
           \/ GetRLock(t) \/ RLockTimeout(t) \/ Open(t) \/ OpenFail(t) \/ FlockFail(t)
           \/ Record(t) \/ Unlock(t) \/ LifeFail(t)
  <2>1. UNCHANGED <<blocks, mode>>
    BY <1>1 DEF CallWriteLock, CallFileLock, CallLife, GetRLock, RLockTimeout, Open, OpenFail,
                FlockFail, Record, Unlock, LifeFail
  <2> QED BY <2>1, SameWriter, SameReaders
<1>2. CASE Flock(t) \/ ReleaseHandle(t)
  <2>1. \A u \in Threads, p \in Paths : mode'[p][Life(u)] = mode[p][Life(u)]
    <3>1. CASE Flock(t)
      BY <3>1, HandleFacts, MineType DEF Flock, FileLockInv, LockTypeOK
    <3>2. CASE ReleaseHandle(t)
      BY <3>2, HandleFacts, MineType DEF ReleaseHandle, FileLockInv, LockTypeOK
    <3> QED BY <1>2, <3>1, <3>2
  <2>2. blocks' = blocks
    BY <1>2 DEF Flock, ReleaseHandle
  <2> QED BY <2>1, <2>2, SameWriter, SameReaders
<1>3. CASE Reenter(t)
  <2>1. mode' = mode
    BY <1>3 DEF Reenter
  <2>2. ASSUME NEW u \in Threads, NEW p \in Paths
        PROVE  blocks'[u][p] > 0 <=> blocks[u][p] > 0
    <3>1. blocks[u][p] \in Nat /\ held[u][p] = blocks[u][p]
      <4>1. Blk(u, p)
        BY DEF FileLockInv, BlockInv
      <4> QED BY <4>1 DEF FileLockInv, LockTypeOK, Blk
    <3>2. CASE u = t /\ p = call[t].path
      BY <1>3, <3>1, <3>2 DEF Reenter, FileLockInv, LockTypeOK
    <3>3. CASE ~(u = t /\ p = call[t].path)
      BY <1>3, <3>3 DEF Reenter, FileLockInv, LockTypeOK
    <3> QED BY <3>2, <3>3
  <2> QED BY <2>1, <2>2, SameWriter, SameReaders
<1>4. ASSUME NEW r \in Paths, LeaveInner(t, r)
      PROVE  UNCHANGED <<Readers, Writer>>
  BY <1>4, SameWriter, SameReaders DEF LeaveInner, FileLockInv, LockTypeOK
<1> QED BY <1>1, <1>2, <1>3, <1>4

\* The body of an outermost block starts: nobody else is inside.
LEMMA EnterStep ==
    ASSUME FileLockInv, NEW t \in Threads, Enter(t)
    PROVE  Lock!AcquireExclusive(call[t].path, With(t))
<1> DEFINE p == call[t].path
<1>1. p \in Paths /\ With(t) \in Handles
  BY MineType, HandleFacts DEF FileLockInv
<1>2. blocks[t][p] = 0 /\ mode[p][With(t)] = "ex"
  <2>1. Blk(t, p)
    BY <1>1 DEF FileLockInv, BlockInv
  <2> QED BY <2>1 DEF Blk, Enter
<1>3. \A g \in Handles \ {With(t)} : mode[p][g] = "none"
  BY <1>1, <1>2 DEF FileLockInv, TableInv
<1>4. Writer[p] = {}
  BY <1>1, WritersHold, <1>3, <1>2, HandleKinds DEF Writer
<1>5. Readers[p] = {}
  BY <1>1, <1>3, HandleKinds DEF Readers
<1>6. Readers' = Readers
  BY SameReaders DEF Enter
<1>7. Writer' = [Writer EXCEPT ![p] = {With(t)}]
  <2>1. blocks' = [blocks EXCEPT ![t] = [blocks[t] EXCEPT ![p] = 1]]
    BY DEF Enter
  <2>2. \A u \in Threads, r \in Paths :
            blocks'[u][r] = IF u = t /\ r = p THEN 1 ELSE blocks[u][r]
    BY <1>1, <2>1 DEF FileLockInv, LockTypeOK
  <2>3. ASSUME NEW r \in Paths, r # p
        PROVE  Writer'[r] = Writer[r]
    BY <2>2, <2>3, HandleCases DEF Writer
  <2>4. Writer'[p] = {With(t)}
    <3>1. ASSUME NEW h \in Writer'[p]
          PROVE  h = With(t)
      <4>1. h \in Handles /\ h = With(h[2]) /\ h[2] \in Threads /\ blocks'[h[2]][p] > 0
        BY <1>1, <3>1, HandleCases DEF Writer
      <4>2. CASE h[2] = t
        BY <4>1, <4>2
      <4>3. CASE h[2] # t
        BY <1>1, <2>2, <3>1, <4>1, <4>3, <1>4 DEF Writer
      <4> QED BY <4>2, <4>3
    <3>2. With(t) \in Writer'[p]
      BY <1>1, <2>2, HandleKinds DEF Writer
    <3> QED BY <3>1, <3>2
  <2>5. Writer' = [r \in Paths |-> Writer'[r]] /\ Writer = [r \in Paths |-> Writer[r]]
    BY DEF Writer
  <2> QED BY <1>1, <2>3, <2>4, <2>5
<1> QED BY <1>4, <1>5, <1>6, <1>7 DEF Lock!AcquireExclusive

LEMMA LeaveStep ==
    ASSUME FileLockInv, NEW t \in Threads, NEW p \in Paths, LeaveOuter(t, p)
    PROVE  Lock!Release(p, With(t))
<1>1. With(t) \in Handles
  BY HandleFacts
<1>2. \A u \in Threads, r \in Paths :
          blocks'[u][r] = IF u = t /\ r = p THEN 0 ELSE blocks[u][r]
  BY DEF LeaveOuter, FileLockInv, LockTypeOK
<1>3. With(t) \in Writer[p]
  BY <1>1, HandleKinds DEF LeaveOuter, Writer
<1>4. Readers' = Readers
  BY SameReaders DEF LeaveOuter
<1>5. With(t) \notin Readers[p]
  BY HandleKinds DEF Readers
<1>6. Writer' = [Writer EXCEPT ![p] = @ \ {With(t)}]
  <2>1. ASSUME NEW r \in Paths, r # p
        PROVE  Writer'[r] = Writer[r]
    BY <1>2, <2>1, HandleCases DEF Writer
  <2>2. Writer'[p] = Writer[p] \ {With(t)}
    BY <1>1, <1>2, HandleCases, HandleKinds DEF Writer
  <2>3. Writer' = [r \in Paths |-> Writer'[r]] /\ Writer = [r \in Paths |-> Writer[r]]
    BY DEF Writer
  <2> QED BY <2>1, <2>2, <2>3
<1>7. Readers' = [Readers EXCEPT ![p] = @ \ {With(t)}]
  <2>1. Readers = [r \in Paths |-> Readers[r]]
    BY DEF Readers
  <2> QED BY <1>4, <1>5, <2>1
<1> QED BY <1>3, <1>6, <1>7 DEF Lock!Release

LEMMA LifeSteps ==
    ASSUME FileLockInv, NEW t \in Threads
    PROVE  /\ LifeGranted(t) => Lock!AcquireShared(call[t].path, Life(t))
           /\ \A p \in Paths : ReleaseLife(t, p) => Lock!Release(p, Life(t))
<1>0. Life(t) \in Handles /\ \A r \in Paths : Life(t) \notin Writer[r]
  BY HandleFacts, HandleKinds DEF Writer
<1>1. ASSUME LifeGranted(t)
      PROVE  Lock!AcquireShared(call[t].path, Life(t))
  <2> DEFINE p == call[t].path
  <2>1. p \in Paths
    BY MineType DEF FileLockInv
  <2>2. Writer[p] = {}
    BY <1>0, <2>1, WritersHold, <1>1, LocksAssumption DEF Writer, LifeGranted, Grantable
  <2>3. \A u \in Threads, r \in Paths :
            mode'[r][Life(u)] = IF u = t /\ r = p THEN SharedMode ELSE mode[r][Life(u)]
    BY <1>0, <1>1, <2>1 DEF LifeGranted, FileLockInv, LockTypeOK, Life, Handles
  <2>4. Readers' = [Readers EXCEPT ![p] = @ \cup {Life(t)}]
    <3>1. ASSUME NEW r \in Paths, r # p
          PROVE  Readers'[r] = Readers[r]
      BY <2>3, <3>1, HandleCases DEF Readers
    <3>2. Readers'[p] = Readers[p] \cup {Life(t)}
      BY <1>0, <2>1, <2>3, HandleCases, HandleKinds, LocksAssumption DEF Readers
    <3>3. Readers' = [r \in Paths |-> Readers'[r]] /\ Readers = [r \in Paths |-> Readers[r]]
      BY DEF Readers
    <3> QED BY <2>1, <3>1, <3>2, <3>3
  <2>5. Writer' = Writer
    BY <1>1, SameWriter DEF LifeGranted
  <2> QED BY <2>2, <2>4, <2>5 DEF Lock!AcquireShared
<1>2. ASSUME NEW p \in Paths, ReleaseLife(t, p)
      PROVE  Lock!Release(p, Life(t))
  <2>1. Life(t) \in Readers[p]
    BY <1>0, <1>2, HandleKinds DEF ReleaseLife, Readers
  <2>2. \A u \in Threads, r \in Paths :
            mode'[r][Life(u)] = IF u = t /\ r = p THEN "none" ELSE mode[r][Life(u)]
    BY <1>0, <1>2 DEF ReleaseLife, FileLockInv, LockTypeOK, Life, Handles
  <2>3. Readers' = [Readers EXCEPT ![p] = @ \ {Life(t)}]
    <3>1. ASSUME NEW r \in Paths, r # p
          PROVE  Readers'[r] = Readers[r]
      BY <2>2, <3>1, HandleCases DEF Readers
    <3>2. Readers'[p] = Readers[p] \ {Life(t)}
      BY <1>0, <2>2, HandleCases, HandleKinds DEF Readers
    <3>3. Readers' = [r \in Paths |-> Readers'[r]] /\ Readers = [r \in Paths |-> Readers[r]]
      BY DEF Readers
    <3> QED BY <3>1, <3>2, <3>3
  <2>4. Writer' = Writer
    BY <1>2, SameWriter DEF ReleaseLife
  <2>5. Writer = [Writer EXCEPT ![p] = @ \ {Life(t)}]
    BY <1>0 DEF Writer
  <2> QED BY <2>1, <2>3, <2>4, <2>5 DEF Lock!Release
<1> QED BY <1>1, <1>2

LEMMA DieStep ==
    ASSUME FileLockInv, NEW q \in Processes, Crash(q)
    PROVE  Lock!Die(ProcessHandles(q))
BY HandleCases DEF Crash, Readers, ProcessHandles, Writer, Lock!Die

\* Every step of locking.py is a step of the shared lock, or invisible.
LEMMA RefinementStep ==
    ASSUME FileLockInv, [LockNext]_lockVars
    PROVE  [Lock!Next]_(Lock!vars)
<1>1. CASE UNCHANGED lockVars
  BY <1>1 DEF lockVars, Lock!vars, Readers, Writer
<1>2. ASSUME NEW t \in Threads, LockStep(t) \/ CallerStep(t)
      PROVE  [Lock!Next]_(Lock!vars)
  BY HandleFacts, MineType, EnterStep, LifeSteps, LeaveStep, StutterSteps, <1>2 DEF FileLockInv,
     Lock!Next, Lock!vars, LockStep, CallerStep
<1>3. ASSUME NEW q \in Processes, Crash(q)
      PROVE  [Lock!Next]_(Lock!vars)
  BY <1>3, DieStep DEF Lock!Next
<1> QED BY <1>1, <1>2, <1>3 DEF LockNext

\* locking.py implements one lock per file: an exclusive holder, or shared ones.
THEOREM ImplementsSharedLock == LockSpec => Implements
<1>1. LockInit => Lock!Init
  BY HandleCases DEF LockInit, Readers, Writer, Lock!Init
<1> QED BY <1>1, RefinementStep, Invariance, PTL DEF LockSpec, Implements, Lock!Spec

\* NoThread is inside a with block while another block, or a store's handle, is.
THEOREM BlocksExclude == LockSpec => []Lock!Exclusion
<1>1. FileLockInv => Lock!Exclusion
  BY WritersHold DEF Lock!Exclusion, Readers, FileLockInv, TableInv, Writer
<1> QED BY <1>1, Invariance, PTL



-----------------------------------------------------------------------------
(* The HTTP endpoint, for any number of requests, users, tokens and tools, *)
(* whatever the clients send, the token store answers and others do.       *)

\* A request is not answered before it ends.
OpenUntilDone == \A r \in Requests : at[r] # "done" => answer[r] = "none"

\* The history is complete: while a request is open, a token that is good has
\* been good since it came.
VouchedWhileGood ==
    \A r \in Requests : at[r] \notin {"idle", "done"} /\ TokenIsGood(ask[r].secret) => r \in vouched

\* Whom a request is to run for is the user of its own token.
Sound(r, a) == a = AccountOf[ask[r].secret] /\ r \in vouched
LookupIsSound ==
    \A r \in Requests :
        job[r] = "settling" /\ at[r] = "waiting" /\ found[r] \in Accounts => Sound(r, found[r])
PrincipalIsSound ==
    \A r \in Requests : at[r] \in {"cleared", "pooled", "running"} => Sound(r, principal[r])

\* What is on a pool passed the protocol checks; on the read pool before the
\* context is built, it has no call that would be dispatched.
Harmless(r) ==
    \A c \in Range(ask[r].calls) : c.tool = NotATool \/ ~ToolAllowed(c.tool, principal[r])
PooledIsChecked ==
    \A r \in Requests : at[r] \in {"pooled", "running"} =>
        /\ ask[r].batch => ask[r].form = "legacy"
        /\ pool[r] = "write" \/ (pool[r] = "read" /\ (ready \/ Harmless(r)))

\* The lines of the pools hold the requests that wait for a thread, once each.
LinesAreDistinct ==
    \A p \in {"read", "write"} : \A i \in 1 .. Len(line[p]) :
        /\ at[line[p][i]] = "pooled" /\ pool[line[p][i]] = p
        /\ \A j \in 1 .. Len(line[p]) : line[p][i] = line[p][j] => i = j

\* What has run, and that its request will not be refused for the message.
Ran(e) ==
    /\ at[e.by] \in {"running", "done"}
    /\ e.as = principal[e.by] /\ Sound(e.by, e.as)
    /\ e.as = LocalAccount \/ Access[e.tool] # "LOCAL"
    /\ ~e.forged
    /\ ~ServerFault(ask[e.by])
    /\ ask[e.by].form = "modern" =>
          \A c \in Range(ask[e.by].calls) : ToolAllowed(c.tool, e.as)
    /\ answer[e.by] \in {"none", "200", "202"}
DoneIsSound == \A e \in done : Ran(e)

BuilderRuns == builder # Nobody => at[builder] \in {"running", "done"}

HttpIInv ==
    /\ HttpTypeOK
    /\ OpenUntilDone /\ VouchedWhileGood /\ LookupIsSound /\ PrincipalIsSound
    /\ PooledIsChecked /\ LinesAreDistinct /\ DoneIsSound /\ BuilderRuns /\ ContextIsWhole
USE HttpAssumption DEF accountVars, contextVars, lookupVars, Goes, Answers, Unlocks, NextCall

-----------------------------------------------------------------------------
(* Lemmas about the operators.                                             *)

LEMMA AskIsMessage == ASSUME HttpTypeOK, NEW r \in Requests PROVE ask[r] \in Messages
BY DEF HttpTypeOK

LEMMA AskIsTyped ==
    ASSUME HttpTypeOK, NEW r \in Requests
    PROVE  /\ ask[r].calls \in Seq([tool : ToolNames \cup {NotATool}, forged : BOOLEAN])
           /\ ask[r].batch \in BOOLEAN
           /\ ask[r].batch \/ Len(ask[r].calls) <= 1
BY AskIsMessage DEF Messages

\* A dispatched call of a request that runs is one of its message's, typed; in a
\* message of the modern form it is the only one.
LEMMA CallFacts ==
    ASSUME HttpIInv, NEW r \in Requests, AtCall(r), Dispatched(r)
    PROVE  /\ Call(r).tool \in ToolNames /\ Call(r).forged = FALSE
           /\ ~ServerFault(ask[r])
           /\ Call(r) \in Range(ask[r].calls)
           /\ ToolAllowed(Call(r).tool, principal[r])
           /\ principal[r] = LocalAccount \/ Access[Call(r).tool] # "LOCAL"
           /\ ask[r].form = "modern" =>
                 \A c \in Range(ask[r].calls) : ToolAllowed(c.tool, principal[r])
<1> DEFINE cs == ask[r].calls
<1>1. /\ cs \in Seq([tool : ToolNames \cup {NotATool}, forged : BOOLEAN])
      /\ ask[r].batch \in BOOLEAN /\ (ask[r].batch \/ Len(cs) <= 1)
  BY AskIsTyped DEF HttpIInv
<1>2. pos[r] \in Nat /\ pos[r] > 0 /\ at[r] = "running" /\ pos[r] <= Len(CallsOf(r))
  BY DEF HttpIInv, HttpTypeOK, AtCall
<1>3. ~ServerFault(ask[r]) /\ CallsOf(r) = cs /\ pos[r] \in 1 .. Len(cs)
  BY <1>1, <1>2 DEF CallsOf
<1>4. /\ Call(r) = cs[pos[r]] /\ Call(r) \in Range(cs)
      /\ Call(r) \in [tool : ToolNames \cup {NotATool}, forged : BOOLEAN]
  <2>1. Call(r) = cs[pos[r]]
    BY <1>3 DEF Call
  <2>2. Call(r) \in Range(cs)
    BY <1>1, <1>3, <2>1 DEF Range
  <2>3. Call(r) \in [tool : ToolNames \cup {NotATool}, forged : BOOLEAN]
    <3> DEFINE R == [tool : ToolNames \cup {NotATool}, forged : BOOLEAN]
    <3>1. cs \in Seq(R) /\ pos[r] \in 1 .. Len(cs)
      BY <1>1, <1>3
    <3> HIDE DEF R, cs
    <3>2. cs[pos[r]] \in R
      BY <3>1
    <3> QED BY <2>1, <3>2 DEF R
  <2> QED BY <2>1, <2>2, <2>3
<1>5. Call(r).forged = FALSE /\ ToolAllowed(Call(r).tool, principal[r])
  BY <1>4 DEF Dispatched
<1>6. principal[r] = LocalAccount \/ Access[Call(r).tool] # "LOCAL"
  BY <1>5 DEF ToolAllowed, Tiers
<1>7. ASSUME ask[r].form = "modern", NEW c \in Range(cs)
      PROVE  ToolAllowed(c.tool, principal[r])
  BY <1>1, <1>2, <1>7, <1>3, <1>4, <1>5 DEF HttpIInv, PooledIsChecked, Range
<1> QED BY <1>3, <1>4, <1>5, <1>6, <1>7 DEF ToolAllowed

\* While the context is not there a call that is dispatched is on the write pool.
LEMMA FirstToolWrites ==
    ASSUME HttpIInv, NEW r \in Requests, AtCall(r), Dispatched(r), ~ready
    PROVE  pool[r] = "write"
BY CallFacts DEF Harmless, HttpIInv, PooledIsChecked, AtCall

\* What _offload puts on a pool.
LEMMA OffloadedIsChecked ==
    ASSUME HttpIInv, NEW r \in Requests, Offload(r)
    PROVE  /\ at[r] = "cleared"
           /\ ChoosePool(r) \in {"read", "write"}
           /\ ask[r].batch => ask[r].form = "legacy"
           /\ ChoosePool(r) = "read" => ready \/ Harmless(r)
<1> DEFINE kind(c) == IF ToolAllowed(c.tool, principal[r])
                      THEN IF c.tool \in WritingTools THEN "write" ELSE "read"
                      ELSE "unknown"
<1>1. ChoosePool(r) \in {"read", "write"} /\ ToolKinds(r) # {}
  BY DEF Offload, ChoosePool
<1>2. ask[r].batch => ask[r].form = "legacy"
  BY DEF Offload, HttpFault
<1>3. ASSUME ChoosePool(r) = "read", ~ready
      PROVE  Harmless(r)
  BY <1>1, <1>3 DEF ChoosePool, ToolKinds, Harmless
<1> QED BY <1>1, <1>2, <1>3 DEF Offload

LEMMA LookUpFinds ==
    ASSUME HttpIInv, NEW r \in Requests, LookUp(r)
    PROVE  \E seen \in Accounts \cup {NoAccount, "unavailable"} :
              /\ found' = [found EXCEPT ![r] = seen]
              /\ seen \in Accounts /\ at[r] = "waiting" => Sound(r, seen)
<1> DEFINE s == ask[r].secret
<1>1. PICK seen \in {VerifyToken(s), NoAccount, "unavailable"} :
         found' = [found EXCEPT ![r] = seen]
  BY DEF LookUp
<1>2. CASE seen \in {NoAccount, "unavailable"}
  BY <1>1, <1>2
<1>3. CASE seen = VerifyToken(s) /\ TokenIsGood(s)
  BY <1>3, <1>1 DEF VerifyToken, TokenIsGood, HttpIInv, VouchedWhileGood, Sound
<1>4. CASE seen = VerifyToken(s) /\ ~TokenIsGood(s)
  BY <1>1, <1>4 DEF VerifyToken
<1> QED BY <1>2, <1>3, <1>4

LEMMA HeadIsPooled ==
    ASSUME HttpIInv, NEW p \in {"read", "write"}, line[p] # <<>>
    PROVE  /\ Head(line[p]) \in Requests /\ Head(line[p]) = line[p][1]
           /\ 1 \in 1 .. Len(line[p]) /\ line[p] \in Seq(Requests)
           /\ at[Head(line[p])] = "pooled"
BY DEF HttpIInv, HttpTypeOK, LinesAreDistinct

-----------------------------------------------------------------------------
(* Every step keeps the invariant.                                         *)

LEMMA TurnStep ==
    ASSUME HttpIInv, NEW r \in Requests, NEW status \in {"401", "403", "503"}, Turn(r, status)
    PROVE  HttpIInv'
<1>1. HttpTypeOK'
  BY DEF HttpIInv, HttpTypeOK, Turn, Statuses
<1>2. (OpenUntilDone /\ VouchedWhileGood /\ LookupIsSound /\ PrincipalIsSound)'
  BY DEF HttpIInv, HttpTypeOK, OpenUntilDone, VouchedWhileGood, LookupIsSound,
         PrincipalIsSound, Turn, Sound, TokenIsGood
<1>3. (PooledIsChecked /\ LinesAreDistinct)'
  BY DEF HttpIInv, HttpTypeOK, PooledIsChecked, LinesAreDistinct, Turn, Harmless
<1>4. DoneIsSound'
  BY DEF HttpIInv, HttpTypeOK, DoneIsSound, Turn, Ran, Sound, ServerFault, OpenUntilDone
<1>5. (BuilderRuns /\ ContextIsWhole)'
  BY DEF HttpIInv, HttpTypeOK, BuilderRuns, ContextIsWhole, Turn
<1> QED BY <1>1, <1>2, <1>3, <1>4, <1>5 DEF HttpIInv

LEMMA ArriveStep ==
    ASSUME HttpIInv, NEW r \in Requests, Arrive(r)
    PROVE  HttpIInv'
<1>1. HttpTypeOK'
  BY DEF HttpIInv, HttpTypeOK, Arrive, RoomInQueue
<1>2. (OpenUntilDone /\ VouchedWhileGood /\ LookupIsSound /\ PrincipalIsSound)'
  BY DEF HttpIInv, HttpTypeOK, OpenUntilDone, VouchedWhileGood, LookupIsSound,
         PrincipalIsSound, Arrive, Sound, TokenIsGood, Entitled
<1>3. (PooledIsChecked /\ LinesAreDistinct)'
  BY DEF HttpIInv, HttpTypeOK, PooledIsChecked, LinesAreDistinct, Arrive, Harmless
<1>4. DoneIsSound'
  BY DEF HttpIInv, HttpTypeOK, DoneIsSound, Arrive, Ran, Sound, ServerFault, OpenUntilDone
<1>5. (BuilderRuns /\ ContextIsWhole)'
  BY DEF HttpIInv, HttpTypeOK, BuilderRuns, ContextIsWhole, Arrive
<1> QED BY <1>1, <1>2, <1>3, <1>4, <1>5 DEF HttpIInv

LEMMA GiveUpStep ==
    ASSUME HttpIInv, NEW r \in Requests, NEW status \in {"503", "gone"}, GiveUpWaiting(r, status)
    PROVE  HttpIInv'
<1>1. HttpTypeOK'
  BY DEF HttpIInv, HttpTypeOK, GiveUpWaiting, Statuses
<1>2. (OpenUntilDone /\ VouchedWhileGood /\ LookupIsSound /\ PrincipalIsSound)'
  BY DEF HttpIInv, HttpTypeOK, OpenUntilDone, VouchedWhileGood, LookupIsSound,
         PrincipalIsSound, GiveUpWaiting, Sound, TokenIsGood
<1>3. (PooledIsChecked /\ LinesAreDistinct)'
  BY DEF HttpIInv, HttpTypeOK, PooledIsChecked, LinesAreDistinct, GiveUpWaiting, Harmless
<1>4. DoneIsSound'
  BY DEF HttpIInv, HttpTypeOK, DoneIsSound, GiveUpWaiting, Ran, Sound, ServerFault,
         OpenUntilDone
<1>5. (BuilderRuns /\ ContextIsWhole)'
  BY DEF HttpIInv, HttpTypeOK, BuilderRuns, ContextIsWhole, GiveUpWaiting
<1> QED BY <1>1, <1>2, <1>3, <1>4, <1>5 DEF HttpIInv

LEMMA SettleStep ==
    ASSUME HttpIInv, NEW r \in Requests, Settle(r)
    PROVE  HttpIInv'
<1>1. HttpTypeOK'
  BY DEF HttpIInv, HttpTypeOK, Settle, Statuses
<1>2. (OpenUntilDone /\ VouchedWhileGood /\ LookupIsSound /\ PrincipalIsSound)'
  <2>1. CASE found[r] \in Accounts
    <3>1. /\ at' = [at EXCEPT ![r] = "cleared"] /\ job' = [job EXCEPT ![r] = "none"]
          /\ principal' = [principal EXCEPT ![r] = found[r]] /\ at[r] = "waiting"
          /\ UNCHANGED <<ask, found, accountVars, vouched, answer>>
      BY <2>1 DEF Settle
    <3>2. Sound(r, found[r])
      BY <2>1 DEF HttpIInv, LookupIsSound, Settle
    <3>3. (OpenUntilDone /\ VouchedWhileGood)'
      BY <3>1 DEF HttpIInv, HttpTypeOK, OpenUntilDone, VouchedWhileGood, TokenIsGood
    <3>4. LookupIsSound'
      BY <3>1 DEF HttpIInv, HttpTypeOK, LookupIsSound, Sound
    <3>5. PrincipalIsSound'
      BY <3>1, <3>2 DEF HttpIInv, HttpTypeOK, PrincipalIsSound, Sound
    <3> QED BY <3>3, <3>4, <3>5
  <2>2. CASE found[r] \notin Accounts
    <3> DEFINE status == IF found[r] = NoAccount THEN "401" ELSE "503"
    <3>1. /\ Answers(r, status) /\ job' = [job EXCEPT ![r] = "none"]
          /\ UNCHANGED <<ask, found, principal, accountVars, vouched>>
      BY <2>2 DEF Settle
    <3> HIDE DEF status
    <3> QED BY <3>1 DEF HttpIInv, HttpTypeOK, OpenUntilDone, VouchedWhileGood,
               LookupIsSound,
                        PrincipalIsSound, Sound, TokenIsGood
  <2> QED BY <2>1, <2>2
<1>3. (PooledIsChecked /\ LinesAreDistinct)'
  BY DEF HttpIInv, HttpTypeOK, PooledIsChecked, LinesAreDistinct, Settle, Harmless
<1>4. DoneIsSound'
  BY DEF HttpIInv, HttpTypeOK, DoneIsSound, Settle, Ran, Sound, ServerFault, OpenUntilDone
<1>5. (BuilderRuns /\ ContextIsWhole)'
  BY DEF HttpIInv, HttpTypeOK, BuilderRuns, ContextIsWhole, Settle
<1> QED BY <1>1, <1>2, <1>3, <1>4, <1>5 DEF HttpIInv

LEMMA SettleTooLateStep ==
    ASSUME HttpIInv, NEW r \in Requests, SettleTooLate(r)
    PROVE  HttpIInv'
<1>1. HttpTypeOK'
  BY DEF HttpIInv, HttpTypeOK, SettleTooLate
<1>2. (OpenUntilDone /\ VouchedWhileGood /\ LookupIsSound /\ PrincipalIsSound)'
  BY DEF HttpIInv, HttpTypeOK, OpenUntilDone, VouchedWhileGood, LookupIsSound,
         PrincipalIsSound, SettleTooLate, Sound, TokenIsGood
<1>3. (PooledIsChecked /\ LinesAreDistinct)'
  BY DEF HttpIInv, HttpTypeOK, PooledIsChecked, LinesAreDistinct, SettleTooLate, Harmless
<1>4. DoneIsSound'
  BY DEF HttpIInv, HttpTypeOK, DoneIsSound, SettleTooLate, Ran, Sound, ServerFault
<1>5. (BuilderRuns /\ ContextIsWhole)'
  BY DEF HttpIInv, HttpTypeOK, BuilderRuns, ContextIsWhole, SettleTooLate
<1> QED BY <1>1, <1>2, <1>3, <1>4, <1>5 DEF HttpIInv

LEMMA HandleOnLoopStep ==
    ASSUME HttpIInv, NEW r \in Requests, HandleOnLoop(r)
    PROVE  HttpIInv'
<1>1. HttpTypeOK'
  BY DEF HttpIInv, HttpTypeOK, HandleOnLoop, Statuses
<1>2. (OpenUntilDone /\ VouchedWhileGood /\ LookupIsSound /\ PrincipalIsSound)'
  BY DEF HttpIInv, HttpTypeOK, OpenUntilDone, VouchedWhileGood, LookupIsSound,
         PrincipalIsSound, HandleOnLoop, Sound, TokenIsGood
<1>3. (PooledIsChecked /\ LinesAreDistinct)'
  BY DEF HttpIInv, HttpTypeOK, PooledIsChecked, LinesAreDistinct, HandleOnLoop, Harmless
<1>4. DoneIsSound'
  BY DEF HttpIInv, HttpTypeOK, DoneIsSound, HandleOnLoop, Ran, Sound, ServerFault,
         OpenUntilDone
<1>5. (BuilderRuns /\ ContextIsWhole)'
  BY DEF HttpIInv, HttpTypeOK, BuilderRuns, ContextIsWhole, HandleOnLoop
<1> QED BY <1>1, <1>2, <1>3, <1>4, <1>5 DEF HttpIInv

LEMMA OffloadStep ==
    ASSUME HttpIInv, NEW r \in Requests, Offload(r)
    PROVE  HttpIInv'
<1>1. HttpTypeOK'
  <2>1. ChoosePool(r) \in {"read", "write"}
    BY DEF Offload, ChoosePool
  <2>2. line' \in [{"read", "write"} -> Seq(Requests)]
    BY <2>1 DEF HttpIInv, HttpTypeOK, Offload
  <2> QED BY <2>1, <2>2 DEF HttpIInv, HttpTypeOK, Offload
<1>2. (OpenUntilDone /\ VouchedWhileGood /\ LookupIsSound /\ PrincipalIsSound)'
  BY DEF HttpIInv, HttpTypeOK, OpenUntilDone, VouchedWhileGood, LookupIsSound,
         PrincipalIsSound, Offload, Sound, TokenIsGood
<1>3. (PooledIsChecked /\ LinesAreDistinct)'
  <2>1. PooledIsChecked'
    <3> DEFINE q == ChoosePool(r)
    <3>1. /\ at[r] = "cleared" /\ q \in {"read", "write"} /\ (ask[r].batch => ask[r].form = "legacy")
          /\ q = "read" => ready \/ Harmless(r)
      BY OffloadedIsChecked
    <3>2. at' = [at EXCEPT ![r] = "pooled"] /\ pool' = [pool EXCEPT ![r] = q]
          /\ UNCHANGED <<ask, ready, principal>>
      BY DEF Offload
    <3> HIDE DEF q
    <3>3. ASSUME NEW x \in Requests, x # r PROVE at'[x] = at[x] /\ pool'[x] = pool[x]
      BY <3>2, <3>3 DEF HttpIInv, HttpTypeOK
    <3>4. at'[r] = "pooled" /\ pool'[r] = q
      BY <3>2 DEF HttpIInv, HttpTypeOK
    <3>5. \A x \in Requests : Harmless(x)' = Harmless(x)
      BY <3>2 DEF Harmless
    <3>6. PooledIsChecked
      BY DEF HttpIInv
    <3> QED BY ONLY <3>1, <3>2, <3>3, <3>4, <3>5, <3>6 DEF PooledIsChecked
  <2>2. LinesAreDistinct'
    <3> DEFINE q == ChoosePool(r)
    <3>1. /\ q \in {"read", "write"} /\ at[r] = "cleared"
          /\ at' = [at EXCEPT ![r] = "pooled"] /\ pool' = [pool EXCEPT ![r] = q]
          /\ line' = [line EXCEPT ![q] = Append(@, r)]
      BY OffloadedIsChecked DEF Offload
    <3> HIDE DEF q
    <3>2. line[q] \in Seq(Requests)
      BY <3>1 DEF HttpIInv, HttpTypeOK
    <3>3. ASSUME NEW p \in {"read", "write"}, p # q
          PROVE  line'[p] = line[p]
      BY <3>1, <3>3 DEF HttpIInv, HttpTypeOK
    <3>4. /\ Len(line'[q]) = Len(line[q]) + 1
          /\ \A i \in 1 .. Len(line[q]) : line'[q][i] = line[q][i]
          /\ line'[q][Len(line[q]) + 1] = r
      BY <3>1, <3>2 DEF HttpIInv, HttpTypeOK
    <3>5. ASSUME NEW p \in {"read", "write"}, NEW i \in 1 .. Len(line[p])
          PROVE  /\ line[p][i] \in Requests /\ line[p][i] # r
                 /\ at'[line[p][i]] = "pooled" /\ pool'[line[p][i]] = p
      BY <3>1 DEF HttpIInv, HttpTypeOK, LinesAreDistinct
    <3>6. at'[r] = "pooled" /\ pool'[r] = q
      BY <3>1 DEF HttpIInv, HttpTypeOK
    <3>7. ASSUME NEW p \in {"read", "write"}, p # q
          PROVE  \A i \in 1 .. Len(line'[p]) :
                     /\ at'[line'[p][i]] = "pooled" /\ pool'[line'[p][i]] = p
                     /\ \A j \in 1 .. Len(line'[p]) : line'[p][i] = line'[p][j] => i = j
      BY <3>3, <3>5, <3>7 DEF HttpIInv, LinesAreDistinct
    <3>8. \A i \in 1 .. Len(line'[q]) :
              /\ at'[line'[q][i]] = "pooled" /\ pool'[line'[q][i]] = q
              /\ \A j \in 1 .. Len(line'[q]) : line'[q][i] = line'[q][j] => i = j
      BY <3>1, <3>2, <3>4, <3>5, <3>6 DEF HttpIInv, LinesAreDistinct
    <3> QED BY <3>7, <3>8 DEF LinesAreDistinct
  <2> QED BY <2>1, <2>2
<1>4. DoneIsSound'
  BY DEF HttpIInv, HttpTypeOK, DoneIsSound, Offload, Ran, Sound, ServerFault, OpenUntilDone
<1>5. (BuilderRuns /\ ContextIsWhole)'
  BY DEF HttpIInv, HttpTypeOK, BuilderRuns, ContextIsWhole, Offload
<1> QED BY <1>1, <1>2, <1>3, <1>4, <1>5 DEF HttpIInv

LEMMA TakeLookupStep ==
    ASSUME HttpIInv, TakeLookup
    PROVE  HttpIInv'
<1>1. HttpTypeOK'
  BY DEF HttpIInv, HttpTypeOK, TakeLookup
<1>2. (OpenUntilDone /\ VouchedWhileGood /\ LookupIsSound /\ PrincipalIsSound)'
  BY DEF HttpIInv, HttpTypeOK, OpenUntilDone, VouchedWhileGood, LookupIsSound,
         PrincipalIsSound, TakeLookup, Sound, TokenIsGood
<1>3. (PooledIsChecked /\ LinesAreDistinct)'
  BY DEF HttpIInv, HttpTypeOK, PooledIsChecked, LinesAreDistinct, TakeLookup, Harmless
<1>4. DoneIsSound'
  BY DEF HttpIInv, HttpTypeOK, DoneIsSound, TakeLookup, Ran, Sound, ServerFault
<1>5. (BuilderRuns /\ ContextIsWhole)'
  BY DEF HttpIInv, HttpTypeOK, BuilderRuns, ContextIsWhole, TakeLookup
<1> QED BY <1>1, <1>2, <1>3, <1>4, <1>5 DEF HttpIInv

LEMMA LookUpStep ==
    ASSUME HttpIInv, NEW r \in Requests, LookUp(r)
    PROVE  HttpIInv'
<1>1. HttpTypeOK'
  <2>1. found' \in [Requests -> Accounts \cup {NoAccount, "unavailable"}]
    <3>1. PICK seen \in Accounts \cup {NoAccount, "unavailable"} : found' = [found EXCEPT ![r] = seen]
      BY LookUpFinds
    <3>2. found \in [Requests -> Accounts \cup {NoAccount, "unavailable"}]
      BY DEF HttpIInv, HttpTypeOK
    <3> QED BY ONLY <3>1, <3>2, r \in Requests
  <2> QED BY <2>1 DEF HttpIInv, HttpTypeOK, LookUp
<1>2. (OpenUntilDone /\ VouchedWhileGood /\ LookupIsSound /\ PrincipalIsSound)'
  <2>1. PICK seen \in Accounts \cup {NoAccount, "unavailable"} :
           /\ found' = [found EXCEPT ![r] = seen]
           /\ seen \in Accounts /\ at[r] = "waiting" => Sound(r, seen)
    BY LookUpFinds
  <2>2. LookupIsSound'
    BY <2>1 DEF HttpIInv, HttpTypeOK, LookupIsSound, LookUp, Sound
  <2>3. (OpenUntilDone /\ VouchedWhileGood /\ PrincipalIsSound)'
    BY DEF HttpIInv, OpenUntilDone, VouchedWhileGood, PrincipalIsSound, LookUp, Sound, TokenIsGood
  <2> QED BY <2>2, <2>3
<1>3. (PooledIsChecked /\ LinesAreDistinct)'
  BY DEF HttpIInv, HttpTypeOK, PooledIsChecked, LinesAreDistinct, LookUp, Harmless
<1>4. DoneIsSound'
  BY DEF HttpIInv, HttpTypeOK, DoneIsSound, LookUp, Ran, Sound, ServerFault
<1>5. (BuilderRuns /\ ContextIsWhole)'
  BY DEF HttpIInv, HttpTypeOK, BuilderRuns, ContextIsWhole, LookUp
<1> QED BY <1>1, <1>2, <1>3, <1>4, <1>5 DEF HttpIInv

LEMMA StartOnPoolStep ==
    ASSUME HttpIInv, NEW p \in {"read", "write"}, StartOnPool(p)
    PROVE  HttpIInv'
<1>1. HttpTypeOK'
  BY DEF HttpIInv, HttpTypeOK, StartOnPool
<1>2. (OpenUntilDone /\ VouchedWhileGood /\ LookupIsSound /\ PrincipalIsSound)'
  <2>1. PICK r \in Requests : at[r] = "pooled" /\ at' = [at EXCEPT ![r] = "running"]
    BY HeadIsPooled DEF StartOnPool
  <2> QED BY <2>1 DEF HttpIInv, HttpTypeOK, OpenUntilDone, VouchedWhileGood, LookupIsSound,
                      PrincipalIsSound, StartOnPool, Sound, TokenIsGood
<1>3. (PooledIsChecked /\ LinesAreDistinct)'
  <2> DEFINE r == Head(line[p])
  <2>1. r \in Requests /\ at[r] = "pooled" /\ at' = [at EXCEPT ![r] = "running"]
    BY HeadIsPooled DEF StartOnPool
  <2>2. PooledIsChecked'
    BY <2>1 DEF HttpIInv, HttpTypeOK, PooledIsChecked, StartOnPool, Harmless
  <2>3. LinesAreDistinct'
    <3>1. line[p] \in Seq(Requests) /\ line[p] # <<>> /\ r = line[p][1]
      BY HeadIsPooled DEF StartOnPool
    <3>2. /\ Len(line'[p]) = Len(line[p]) - 1
          /\ \A i \in 1 .. Len(line'[p]) : line'[p][i] = line[p][i + 1]
      BY <3>1 DEF HttpIInv, HttpTypeOK, StartOnPool
    <3>3. ASSUME NEW q \in {"read", "write"}, q # p
          PROVE  line'[q] = line[q]
      BY <3>3 DEF HttpIInv, HttpTypeOK, StartOnPool
    <3>4. ASSUME NEW q \in {"read", "write"}, NEW i \in 1 .. Len(line[q]), q # p \/ i # 1
          PROVE  at'[line[q][i]] = "pooled" /\ pool'[line[q][i]] = q
      <4>1. line[q][i] \in Requests /\ 1 \in 1 .. Len(line[p])
        BY <3>1 DEF HttpIInv, HttpTypeOK
      <4>2. line[q][i] # r
        BY <3>1, <3>4, <4>1 DEF HttpIInv, LinesAreDistinct
      <4> QED BY <2>1, <4>1, <4>2 DEF HttpIInv, HttpTypeOK, LinesAreDistinct, StartOnPool
    <3>5. ASSUME NEW q \in {"read", "write"}, q # p
          PROVE  \A i \in 1 .. Len(line'[q]) :
                     /\ at'[line'[q][i]] = "pooled" /\ pool'[line'[q][i]] = q
                     /\ \A j \in 1 .. Len(line'[q]) : line'[q][i] = line'[q][j] => i = j
      BY <3>3, <3>4, <3>5 DEF HttpIInv, LinesAreDistinct
    <3>6. ASSUME NEW i \in 1 .. Len(line'[p])
          PROVE  /\ at'[line'[p][i]] = "pooled" /\ pool'[line'[p][i]] = p
                 /\ \A j \in 1 .. Len(line'[p]) : line'[p][i] = line'[p][j] => i = j
      <4>1. /\ i + 1 \in 1 .. Len(line[p]) /\ i + 1 # 1
            /\ line'[p][i] = line[p][i + 1]
        BY <3>1, <3>2
      <4>2. at'[line'[p][i]] = "pooled" /\ pool'[line'[p][i]] = p
        BY <3>4, <4>1
      <4>3. ASSUME NEW j \in 1 .. Len(line'[p]), line'[p][i] = line'[p][j]
            PROVE  i = j
        <5>1. j + 1 \in 1 .. Len(line[p]) /\ line[p][i + 1] = line[p][j + 1]
          BY <3>1, <3>2, <4>1, <4>3
        <5>2. i + 1 = j + 1
          BY <4>1, <5>1 DEF HttpIInv, LinesAreDistinct
        <5> QED BY <3>1, <3>2, <5>2
      <4> QED BY <4>2, <4>3
    <3> QED BY <3>5, <3>6 DEF LinesAreDistinct
  <2> QED BY <2>2, <2>3
<1>4. DoneIsSound'
  BY DEF HttpIInv, HttpTypeOK, DoneIsSound, StartOnPool, Ran, Sound, ServerFault,
         OpenUntilDone
<1>5. (BuilderRuns /\ ContextIsWhole)'
  BY DEF HttpIInv, HttpTypeOK, BuilderRuns, ContextIsWhole, StartOnPool
<1> QED BY <1>1, <1>2, <1>3, <1>4, <1>5 DEF HttpIInv

LEMMA RejectCallStep ==
    ASSUME HttpIInv, NEW r \in Requests, RejectCall(r)
    PROVE  HttpIInv'
<1>1. HttpTypeOK'
  BY DEF HttpIInv, HttpTypeOK, RejectCall
<1>2. (OpenUntilDone /\ VouchedWhileGood /\ LookupIsSound /\ PrincipalIsSound)'
  BY DEF HttpIInv, HttpTypeOK, OpenUntilDone, VouchedWhileGood, LookupIsSound,
         PrincipalIsSound, RejectCall, Sound, TokenIsGood
<1>3. (PooledIsChecked /\ LinesAreDistinct)'
  BY DEF HttpIInv, HttpTypeOK, PooledIsChecked, LinesAreDistinct, RejectCall, Harmless
<1>4. DoneIsSound'
  BY DEF HttpIInv, HttpTypeOK, DoneIsSound, RejectCall, Ran, Sound, ServerFault
<1>5. (BuilderRuns /\ ContextIsWhole)'
  BY DEF HttpIInv, HttpTypeOK, BuilderRuns, ContextIsWhole, RejectCall
<1> QED BY <1>1, <1>2, <1>3, <1>4, <1>5 DEF HttpIInv

LEMMA TakeWriteLockStep ==
    ASSUME HttpIInv, NEW r \in Requests, TakeWriteLock(r)
    PROVE  HttpIInv'
<1>1. HttpTypeOK'
  BY DEF HttpIInv, HttpTypeOK, TakeWriteLock
<1>2. (OpenUntilDone /\ VouchedWhileGood /\ LookupIsSound /\ PrincipalIsSound)'
  BY DEF HttpIInv, HttpTypeOK, OpenUntilDone, VouchedWhileGood, LookupIsSound,
         PrincipalIsSound, TakeWriteLock, Sound, TokenIsGood
<1>3. (PooledIsChecked /\ LinesAreDistinct)'
  BY DEF HttpIInv, HttpTypeOK, PooledIsChecked, LinesAreDistinct, TakeWriteLock, Harmless
<1>4. DoneIsSound'
  BY DEF HttpIInv, HttpTypeOK, DoneIsSound, TakeWriteLock, Ran, Sound, ServerFault
<1>5. (BuilderRuns /\ ContextIsWhole)'
  BY DEF HttpIInv, HttpTypeOK, BuilderRuns, ContextIsWhole, TakeWriteLock
<1> QED BY <1>1, <1>2, <1>3, <1>4, <1>5 DEF HttpIInv

LEMMA WriteLockTimeoutStep ==
    ASSUME HttpIInv, NEW r \in Requests, WriteLockTimeout(r)
    PROVE  HttpIInv'
<1>1. HttpTypeOK'
  BY DEF HttpIInv, HttpTypeOK, WriteLockTimeout
<1>2. (OpenUntilDone /\ VouchedWhileGood /\ LookupIsSound /\ PrincipalIsSound)'
  BY DEF HttpIInv, HttpTypeOK, OpenUntilDone, VouchedWhileGood, LookupIsSound,
         PrincipalIsSound, WriteLockTimeout, Sound, TokenIsGood
<1>3. (PooledIsChecked /\ LinesAreDistinct)'
  BY DEF HttpIInv, HttpTypeOK, PooledIsChecked, LinesAreDistinct, WriteLockTimeout, Harmless
<1>4. DoneIsSound'
  BY DEF HttpIInv, HttpTypeOK, DoneIsSound, WriteLockTimeout, Ran, Sound, ServerFault
<1>5. (BuilderRuns /\ ContextIsWhole)'
  BY DEF HttpIInv, HttpTypeOK, BuilderRuns, ContextIsWhole, WriteLockTimeout
<1> QED BY <1>1, <1>2, <1>3, <1>4, <1>5 DEF HttpIInv

LEMMA BeginBuildStep ==
    ASSUME HttpIInv, NEW r \in Requests, BeginBuild(r)
    PROVE  HttpIInv'
<1>1. HttpTypeOK'
  BY DEF HttpIInv, HttpTypeOK, BeginBuild
<1>2. (OpenUntilDone /\ VouchedWhileGood /\ LookupIsSound /\ PrincipalIsSound)'
  BY DEF HttpIInv, HttpTypeOK, OpenUntilDone, VouchedWhileGood, LookupIsSound,
         PrincipalIsSound, BeginBuild, Sound, TokenIsGood
<1>3. (PooledIsChecked /\ LinesAreDistinct)'
  BY DEF HttpIInv, HttpTypeOK, PooledIsChecked, LinesAreDistinct, BeginBuild, Harmless
<1>4. DoneIsSound'
  BY DEF HttpIInv, HttpTypeOK, DoneIsSound, BeginBuild, Ran, Sound, ServerFault
<1>5. (BuilderRuns /\ ContextIsWhole)'
  BY FirstToolWrites DEF HttpIInv, ContextIsWhole, BeginBuild, InTool, AtCall, HttpTypeOK,
     BuilderRuns
<1> QED BY <1>1, <1>2, <1>3, <1>4, <1>5 DEF HttpIInv

LEMMA OpenStoreStep ==
    ASSUME HttpIInv, NEW r \in Requests, OpenStore(r)
    PROVE  HttpIInv'
<1>1. HttpTypeOK'
  BY DEF HttpIInv, HttpTypeOK, OpenStore
<1>2. (OpenUntilDone /\ VouchedWhileGood /\ LookupIsSound /\ PrincipalIsSound)'
  BY DEF HttpIInv, HttpTypeOK, OpenUntilDone, VouchedWhileGood, LookupIsSound,
         PrincipalIsSound, OpenStore, Sound, TokenIsGood
<1>3. (PooledIsChecked /\ LinesAreDistinct)'
  BY DEF HttpIInv, HttpTypeOK, PooledIsChecked, LinesAreDistinct, OpenStore, Harmless
<1>4. DoneIsSound'
  BY DEF HttpIInv, HttpTypeOK, DoneIsSound, OpenStore, Ran, Sound, ServerFault
<1>5. (BuilderRuns /\ ContextIsWhole)'
  BY DEF HttpIInv, HttpTypeOK, BuilderRuns, ContextIsWhole, OpenStore
<1> QED BY <1>1, <1>2, <1>3, <1>4, <1>5 DEF HttpIInv

LEMMA StoreOpenFailsStep ==
    ASSUME HttpIInv, NEW r \in Requests, StoreOpenFails(r)
    PROVE  HttpIInv'
<1>1. HttpTypeOK'
  BY DEF HttpIInv, HttpTypeOK, StoreOpenFails
<1>2. (OpenUntilDone /\ VouchedWhileGood /\ LookupIsSound /\ PrincipalIsSound)'
  BY DEF HttpIInv, HttpTypeOK, OpenUntilDone, VouchedWhileGood, LookupIsSound,
         PrincipalIsSound, StoreOpenFails, Sound, TokenIsGood
<1>3. (PooledIsChecked /\ LinesAreDistinct)'
  BY DEF HttpIInv, HttpTypeOK, PooledIsChecked, LinesAreDistinct, StoreOpenFails, Harmless
<1>4. DoneIsSound'
  BY DEF HttpIInv, HttpTypeOK, DoneIsSound, StoreOpenFails, Ran, Sound, ServerFault
<1>5. (BuilderRuns /\ ContextIsWhole)'
  BY DEF HttpIInv, HttpTypeOK, BuilderRuns, ContextIsWhole, StoreOpenFails
<1> QED BY <1>1, <1>2, <1>3, <1>4, <1>5 DEF HttpIInv

LEMMA PublishStep ==
    ASSUME HttpIInv, NEW r \in Requests, Publish(r)
    PROVE  HttpIInv'
<1>1. HttpTypeOK'
  BY DEF HttpIInv, HttpTypeOK, Publish
<1>2. (OpenUntilDone /\ VouchedWhileGood /\ LookupIsSound /\ PrincipalIsSound)'
  BY DEF HttpIInv, HttpTypeOK, OpenUntilDone, VouchedWhileGood, LookupIsSound,
         PrincipalIsSound, Publish, Sound, TokenIsGood
<1>3. (PooledIsChecked /\ LinesAreDistinct)'
  BY DEF HttpIInv, HttpTypeOK, PooledIsChecked, LinesAreDistinct, Publish, Harmless
<1>4. DoneIsSound'
  BY DEF HttpIInv, HttpTypeOK, DoneIsSound, Publish, Ran, Sound, ServerFault
<1>5. (BuilderRuns /\ ContextIsWhole)'
  BY DEF HttpIInv, HttpTypeOK, BuilderRuns, ContextIsWhole, Publish
<1> QED BY <1>1, <1>2, <1>3, <1>4, <1>5 DEF HttpIInv

LEMMA RunToolStep ==
    ASSUME HttpIInv, NEW r \in Requests, RunTool(r)
    PROVE  HttpIInv'
<1>1. HttpTypeOK'
  <2> DEFINE e == [by |-> r, as |-> principal[r], tool |-> Call(r).tool,
                   forged |-> Call(r).forged]
  <2>1. e \in [by : Requests, as : Accounts \cup {NoAccount}, tool : ToolNames, forged : BOOLEAN]
    BY CallFacts DEF HttpIInv, HttpTypeOK, RunTool, InTool
  <2>2. done' \subseteq [by : Requests, as : Accounts \cup {NoAccount}, tool : ToolNames,
                        forged : BOOLEAN]
    BY <2>1 DEF HttpIInv, HttpTypeOK, RunTool
  <2> QED BY <2>2 DEF HttpIInv, HttpTypeOK, RunTool
<1>2. (OpenUntilDone /\ VouchedWhileGood /\ LookupIsSound /\ PrincipalIsSound)'
  BY DEF HttpIInv, HttpTypeOK, OpenUntilDone, VouchedWhileGood, LookupIsSound,
         PrincipalIsSound, RunTool, Sound, TokenIsGood
<1>3. (PooledIsChecked /\ LinesAreDistinct)'
  BY DEF HttpIInv, HttpTypeOK, PooledIsChecked, LinesAreDistinct, RunTool, Harmless
<1>4. DoneIsSound'
  <2>1. PICK e : e = [by |-> r, as |-> principal[r], tool |-> Call(r).tool,
                      forged |-> Call(r).forged]
    OBVIOUS
  <2>2. /\ done' = done \cup {e}
        /\ UNCHANGED <<versions, ask, at, principal, answer, vouched>>
    BY <2>1 DEF RunTool
  <2>3. Ran(e)
    BY <2>1, CallFacts DEF HttpIInv, HttpTypeOK, OpenUntilDone, PrincipalIsSound, RunTool, InTool,
                           AtCall, Dispatched, Ran
  <2>4. ASSUME NEW x, Ran(x)
        PROVE  Ran(x)'
    BY <2>2, <2>4 DEF Ran, Sound, ServerFault
  <2> QED BY <2>2, <2>3, <2>4 DEF HttpIInv, DoneIsSound
<1>5. (BuilderRuns /\ ContextIsWhole)'
  BY DEF HttpIInv, HttpTypeOK, BuilderRuns, ContextIsWhole, RunTool
<1> QED BY <1>1, <1>2, <1>3, <1>4, <1>5 DEF HttpIInv

LEMMA FinishStep ==
    ASSUME HttpIInv, NEW r \in Requests, Finish(r)
    PROVE  HttpIInv'
<1>1. HttpTypeOK'
  BY DEF HttpIInv, HttpTypeOK, Finish, Statuses
<1>2. (OpenUntilDone /\ VouchedWhileGood /\ LookupIsSound /\ PrincipalIsSound)'
  BY DEF HttpIInv, HttpTypeOK, OpenUntilDone, VouchedWhileGood, LookupIsSound,
         PrincipalIsSound, Finish, Sound, TokenIsGood
<1>3. (PooledIsChecked /\ LinesAreDistinct)'
  BY DEF HttpIInv, HttpTypeOK, PooledIsChecked, LinesAreDistinct, Finish, Harmless
<1>4. DoneIsSound'
  BY DEF HttpIInv, HttpTypeOK, DoneIsSound, Finish, Ran, Sound, ServerFault, OpenUntilDone,
         PrincipalIsSound, ToolAllowed, PooledIsChecked, Statuses
<1>5. (BuilderRuns /\ ContextIsWhole)'
  BY DEF HttpIInv, HttpTypeOK, BuilderRuns, ContextIsWhole, Finish
<1> QED BY <1>1, <1>2, <1>3, <1>4, <1>5 DEF HttpIInv

LEMMA RevokeTokenStep ==
    ASSUME HttpIInv, NEW s \in Secrets, RevokeToken(s)
    PROVE  HttpIInv'
<1>1. HttpTypeOK'
  BY DEF HttpIInv, HttpTypeOK, RevokeToken
<1>2. (OpenUntilDone /\ VouchedWhileGood /\ LookupIsSound /\ PrincipalIsSound)'
  BY DEF HttpIInv, HttpTypeOK, OpenUntilDone, VouchedWhileGood, LookupIsSound,
         PrincipalIsSound, RevokeToken, Sound, TokenIsGood
<1>3. (PooledIsChecked /\ LinesAreDistinct)'
  BY DEF HttpIInv, HttpTypeOK, PooledIsChecked, LinesAreDistinct, RevokeToken, Harmless
<1>4. DoneIsSound'
  BY DEF HttpIInv, HttpTypeOK, DoneIsSound, RevokeToken, Ran, Sound, ServerFault
<1>5. (BuilderRuns /\ ContextIsWhole)'
  BY DEF HttpIInv, HttpTypeOK, BuilderRuns, ContextIsWhole, RevokeToken
<1> QED BY <1>1, <1>2, <1>3, <1>4, <1>5 DEF HttpIInv

LEMMA DisableUserStep ==
    ASSUME HttpIInv, NEW a \in Accounts, DisableUser(a)
    PROVE  HttpIInv'
<1>1. HttpTypeOK'
  BY DEF HttpIInv, HttpTypeOK, DisableUser
<1>2. (OpenUntilDone /\ VouchedWhileGood /\ LookupIsSound /\ PrincipalIsSound)'
  BY DEF HttpIInv, HttpTypeOK, OpenUntilDone, VouchedWhileGood, LookupIsSound,
         PrincipalIsSound, DisableUser, Sound, TokenIsGood
<1>3. (PooledIsChecked /\ LinesAreDistinct)'
  BY DEF HttpIInv, HttpTypeOK, PooledIsChecked, LinesAreDistinct, DisableUser, Harmless
<1>4. DoneIsSound'
  BY DEF HttpIInv, HttpTypeOK, DoneIsSound, DisableUser, Ran, Sound, ServerFault
<1>5. (BuilderRuns /\ ContextIsWhole)'
  BY DEF HttpIInv, HttpTypeOK, BuilderRuns, ContextIsWhole, DisableUser
<1> QED BY <1>1, <1>2, <1>3, <1>4, <1>5 DEF HttpIInv

LEMMA EnableUserStep ==
    ASSUME HttpIInv, NEW a \in Accounts, EnableUser(a)
    PROVE  HttpIInv'
<1>1. HttpTypeOK'
  BY DEF HttpIInv, HttpTypeOK, EnableUser
<1>2. (OpenUntilDone /\ VouchedWhileGood /\ LookupIsSound /\ PrincipalIsSound)'
  BY DEF HttpIInv, HttpTypeOK, OpenUntilDone, VouchedWhileGood, LookupIsSound,
         PrincipalIsSound, EnableUser, Sound, TokenIsGood
<1>3. (PooledIsChecked /\ LinesAreDistinct)'
  BY DEF HttpIInv, HttpTypeOK, PooledIsChecked, LinesAreDistinct, EnableUser, Harmless
<1>4. DoneIsSound'
  BY DEF HttpIInv, HttpTypeOK, DoneIsSound, EnableUser, Ran, Sound, ServerFault
<1>5. (BuilderRuns /\ ContextIsWhole)'
  BY DEF HttpIInv, HttpTypeOK, BuilderRuns, ContextIsWhole, EnableUser
<1> QED BY <1>1, <1>2, <1>3, <1>4, <1>5 DEF HttpIInv

LEMMA LockElsewhereStep ==
    ASSUME HttpIInv, LockElsewhere
    PROVE  HttpIInv'
<1>1. HttpTypeOK'
  BY DEF HttpIInv, HttpTypeOK, LockElsewhere
<1>2. (OpenUntilDone /\ VouchedWhileGood /\ LookupIsSound /\ PrincipalIsSound)'
  BY DEF HttpIInv, HttpTypeOK, OpenUntilDone, VouchedWhileGood, LookupIsSound,
         PrincipalIsSound, LockElsewhere, Sound, TokenIsGood
<1>3. (PooledIsChecked /\ LinesAreDistinct)'
  BY DEF HttpIInv, HttpTypeOK, PooledIsChecked, LinesAreDistinct, LockElsewhere, Harmless
<1>4. DoneIsSound'
  BY DEF HttpIInv, HttpTypeOK, DoneIsSound, LockElsewhere, Ran, Sound, ServerFault
<1>5. (BuilderRuns /\ ContextIsWhole)'
  BY DEF HttpIInv, HttpTypeOK, BuilderRuns, ContextIsWhole, LockElsewhere
<1> QED BY <1>1, <1>2, <1>3, <1>4, <1>5 DEF HttpIInv

LEMMA HttpInitIInv == HttpInit => HttpIInv
<1> SUFFICES ASSUME HttpInit PROVE HttpIInv
  OBVIOUS
<1>1. HttpTypeOK
  <2>1. versions \in SUBSET {"legacy", "modern"}
    BY DEF HttpInit
  <2>2. \A r \in Requests : ask[r] \in Asks[r]
    BY DEF HttpInit
  <2>3. disabled \subseteq Accounts /\ revoked \subseteq Secrets /\ outside \in Nat
    BY DEF HttpInit
  <2>4. authQueue \in Seq(Requests) /\ Len(authQueue) <= QueueLimit
        /\ line \in [{"read", "write"} -> Seq(Requests)]
    BY DEF HttpInit
  <2>5. /\ at \in [Requests -> {"idle", "waiting", "cleared", "pooled", "running", "done"}]
        /\ job \in [Requests -> {"none", "queued", "looking", "settling"}]
        /\ found \in [Requests -> Accounts \cup {NoAccount, "unavailable"}]
        /\ principal \in [Requests -> Accounts \cup {NoAccount}]
        /\ pool \in [Requests -> {"loop", "read", "write"}]
        /\ pos \in [Requests -> Nat \ {0}]
        /\ answer \in [Requests -> Statuses]
    BY DEF HttpInit, Statuses
  <2>6. /\ writeLock \in Requests \cup {Nobody, OtherProcess}
        /\ builder \in Requests \cup {Nobody}
        /\ ready \in BOOLEAN /\ vouched \subseteq Requests
    BY DEF HttpInit
  <2>8. opened \in 0 .. StoresToOpen
    BY DEF HttpInit
  <2>7. done = {}
    BY DEF HttpInit
  <2> QED BY <2>1, <2>2, <2>3, <2>4, <2>5, <2>6, <2>7, <2>8 DEF HttpTypeOK
<1>2. /\ OpenUntilDone /\ VouchedWhileGood /\ LookupIsSound /\ PrincipalIsSound
      /\ PooledIsChecked /\ LinesAreDistinct /\ DoneIsSound /\ BuilderRuns /\ ContextIsWhole
  BY DEF HttpInit, OpenUntilDone, VouchedWhileGood, LookupIsSound, PrincipalIsSound,
         PooledIsChecked, LinesAreDistinct, DoneIsSound, BuilderRuns, ContextIsWhole
<1> QED BY <1>1, <1>2 DEF HttpIInv

LEMMA HttpStep == ASSUME HttpIInv, HttpNext PROVE HttpIInv'
<1>1. ASSUME NEW r \in Requests, LoopStep(r)
      PROVE  HttpIInv'
  BY <1>1, SettleStep, SettleTooLateStep, HandleOnLoopStep, OffloadStep, GiveUpStep DEF LoopStep
<1>2. ASSUME NEW r \in Requests, PoolStep(r)
      PROVE  HttpIInv'
  BY <1>2, RejectCallStep, TakeWriteLockStep, WriteLockTimeoutStep, RunToolStep, FinishStep,
     BeginBuildStep, OpenStoreStep, StoreOpenFailsStep, PublishStep DEF PoolStep
<1>3. ASSUME NEW r \in Requests,
             \/ \E status \in {"401", "403", "503"} : Turn(r, status)
             \/ Arrive(r) \/ GiveUpWaiting(r, "gone") \/ LookUp(r)
      PROVE  HttpIInv'
  BY <1>3, TurnStep, ArriveStep, GiveUpStep, LookUpStep
<1>4. CASE \E a \in Accounts : DisableUser(a) \/ EnableUser(a)
  BY <1>4, DisableUserStep, EnableUserStep
<1> QED BY <1>1, <1>2, <1>3, <1>4, TakeLookupStep, StartOnPoolStep, RevokeTokenStep,
           LockElsewhereStep DEF HttpNext

LEMMA HttpStutter == ASSUME HttpIInv, UNCHANGED httpVars PROVE HttpIInv'
BY DEF httpVars, HttpIInv, HttpTypeOK, OpenUntilDone, VouchedWhileGood, TokenIsGood, LookupIsSound,
       Sound, PrincipalIsSound, PooledIsChecked, Harmless, LinesAreDistinct, DoneIsSound, Ran,
       ServerFault, BuilderRuns, ContextIsWhole

LEMMA HttpInvariance == HttpSpec => []HttpIInv
BY HttpInitIInv, HttpStep, HttpStutter, PTL DEF HttpSpec

LEMMA HttpIInvIsSafe == HttpIInv => HttpIsSafe
BY DEF HttpIInv, HttpIsSafe, EffectsAreTheCallers, DoneIsSound, Ran, Sound

-----------------------------------------------------------------------------
(* The theorems.                                                           *)

\* The variables keep their types, so the queue of token lookups never grows
\* past _AUTH_QUEUE_LIMIT (http_app.py).
THEOREM HttpTypeCorrect == HttpSpec => []HttpTypeOK
BY HttpInvariance, PTL DEF HttpIInv

\* A tool only runs for the user of its request's own token, while that token
\* had been good since the request came, in a tier that user may call; a refused
\* request runs nothing, before the answer or after it; and the process holds
\* one whole context or what its single builder has opened so far (http_app.py,
\* server.py, tools/__init__.py).
THEOREM RequestsAreSafe == HttpSpec => []HttpIsSafe
BY HttpInvariance, HttpIInvIsSafe, PTL

-----------------------------------------------------------------------------
(* The approval queue.                                                     *)

WorkflowIInv == WorkflowTypeOK /\ OneDecision

-----------------------------------------------------------------------------
(* The local user.                                                         *)

\* opencrab init never takes bootstrap.lock and makes no last look.
InitsSkipTheLock ==
    \A x \in Inits : bootAt[x] \in {"idle", "read", "insert", "started", "refused", "dead"}

\* The history is complete: a process has seen the users who are enabled.
SeenWhileOn == \A x \in Starts : bootAt[x] # "idle" => localUsers \ off \subseteq sawOn[x]

NoSecondUser == \A u, v \in localUsers : u = v

StartedAsUser ==
    \A x \in Starts : bootAt[x] = "started" =>
        /\ runsAs[x] \in localUsers
        /\ x \in Servers => runsAs[x] \in sawOn[x]

BootIInv == BootstrapTypeOK /\ InitsSkipTheLock /\ SeenWhileOn /\ NoSecondUser /\ StartedAsUser

-----------------------------------------------------------------------------
(* The embedding model.                                                    *)

Busy == {"fired", "closing"}

\* One timer at a time has _llm_lock, and only it has a model to close.
TimerOwnsTheLock ==
    /\ IsFiniteSet(DOMAIN firing)
    /\ \A g \in DOMAIN firing : firing[g] \in Busy =>
          llmLock = "timer" /\ \A h \in DOMAIN firing : firing[h] \in Busy => h = g
    /\ closing # 0 => \E g \in DOMAIN firing : firing[g] = "closing"

\* A thread loads under _llm_lock, when there is no model.
LoaderOwnsTheLock == \A t \in Embedders : embAt[t] = "load" => llmLock = t /\ model = 0

MemoryIsKnown ==
    /\ alive = {model, closing} \ {0}
    /\ model = 0 \/ closing = 0

LeasesAreOfTheModel ==
    \A t \in Embedders :
        IF embAt[t] \in {"use", "infer"} THEN lease[t] = model /\ model # 0 ELSE lease[t] = 0

Holders == {t \in Embedders : lease[t] # 0}
LeasesAreCounted == IsFiniteSet(Holders) /\ inflight = Cardinality(Holders)

EmbedIInv ==
    /\ EmbedTypeOK
    /\ TimerOwnsTheLock /\ LoaderOwnsTheLock /\ MemoryIsKnown
    /\ LeasesAreOfTheModel /\ LeasesAreCounted

-----------------------------------------------------------------------------
(* Proofs: the approval queue.                                             *)

LEMMA WorkflowInitInv == WorkflowInit => WorkflowIInv
BY WorkflowAssumption
   DEF WorkflowInit, WorkflowIInv, WorkflowTypeOK, OneDecision, FlowStatuses, Decisions, Idle

\* The moves of a run leave the queue alone.
LEMMA MoveStep ==
    ASSUME WorkflowIInv, NEW r \in FlowRuns, NEW s \in FlowStatuses, MoveTo(r, s)
    PROVE  /\ flow' \in [FlowRuns -> FlowStatuses \cup {"none"}]
           /\ trail' \in [FlowRuns -> Seq(FlowStatuses)]
BY DEF WorkflowIInv, WorkflowTypeOK, MoveTo

LEMMA WorkflowStep == ASSUME WorkflowIInv, WorkflowNext PROVE WorkflowIInv'
<1> USE DEF WorkflowIInv, WorkflowTypeOK, OneDecision
<1>1. ASSUME NEW r \in FlowRuns, CreateRun(r)
      PROVE  WorkflowIInv'
  BY <1>1, MoveStep DEF FlowStatuses, CreateRun
<1>2. ASSUME NEW k \in Clerks, NEW r \in FlowRuns, NEW s \in FlowStatuses, ReadStatus(k, r, s)
      PROVE  WorkflowIInv'
  BY <1>2 DEF ReadStatus
<1>3. ASSUME NEW k \in Clerks, WriteStatus(k)
      PROVE  WorkflowIInv'
  BY <1>3, MoveStep DEF WriteStatus
<1>4. ASSUME NEW k \in Clerks, AdvanceFails(k)
      PROVE  WorkflowIInv'
  BY <1>4 DEF AdvanceFails
<1>5. ASSUME NEW a \in ApprovalRequests, RequestApproval(a)
      PROVE  WorkflowIInv'
  BY <1>5 DEF RequestApproval, Decisions
<1>6. ASSUME NEW k \in Clerks, NEW a \in ApprovalRequests, NEW d \in Decisions, Resolve(k, a, d)
      PROVE  WorkflowIInv'
  <2> DEFINE new == [request |-> a, decision |-> d, by |-> k]
  <2>1. \A x \in receipts : x.request # a
    BY <1>6 DEF Resolve, Matches, Decisions
  <2>2. /\ queue'[a] = d /\ reviewer'[a] = k
        /\ \A b \in ApprovalRequests : b # a => queue'[b] = queue[b] /\ reviewer'[b] = reviewer[b]
    BY <1>6 DEF Resolve
  <2>3. OneDecision'
    BY <1>6, <2>1, <2>2 DEF Resolve
  <2>4. WorkflowTypeOK'
    BY <1>6 DEF Resolve
  <2> QED BY <2>3, <2>4
<1> QED BY <1>1, <1>2, <1>3, <1>4, <1>5, <1>6 DEF WorkflowNext

LEMMA WorkflowStutter == ASSUME WorkflowIInv, UNCHANGED workflowVars PROVE WorkflowIInv'
BY DEF workflowVars, WorkflowIInv, WorkflowTypeOK, OneDecision

-----------------------------------------------------------------------------
(* Proofs: the local user.                                                 *)

USE BootstrapAssumption DEF Starts

LEMMA LocalUserFacts ==
    /\ localUsers = {} => LocalUser = NoUser
    /\ localUsers # {} => LocalUser \in localUsers
BY DEF LocalUser

LEMMA BootInitInv == BootstrapInit => BootIInv
BY DEF BootstrapInit, BootIInv, BootstrapTypeOK, InitsSkipTheLock, SeenWhileOn, NoSecondUser,
       StartedAsUser

\* What Discover does to the process that looks.
LEMMA DiscoverStep ==
    ASSUME BootIInv, NEW s \in Servers, NEW place \in {"lock", "create", "read", "require"},
           Discover(s, place),
           UNCHANGED <<dbTables, localUsers, off, bootFaults>>,
           sawOn' \in [Starts -> SUBSET Starts],
           \A y \in Starts : y # s => sawOn'[y] = sawOn[y],
           localUsers \ off \subseteq sawOn'[s]
    PROVE  BootIInv'
BY LocalUserFacts DEF BootIInv, BootstrapTypeOK, InitsSkipTheLock, SeenWhileOn, NoSecondUser,
   StartedAsUser, StartsAs, Moves, Discover

LEMMA StartsStep == ASSUME BootIInv, NEW x \in Starts, StartStep(x) PROVE BootIInv'
<1> USE DEF BootIInv, BootstrapTypeOK, InitsSkipTheLock, SeenWhileOn, NoSecondUser, StartedAsUser
<1>1. CASE Begin(x)
  BY <1>1, DiscoverStep DEF Begin
<1>2. CASE TakeBootLock(x)
  BY <1>2 DEF TakeBootLock
<1>3. CASE BootLockTimeout(x)
  BY <1>3 DEF BootLockTimeout, Moves
<1>4. CASE Recheck(x)
  BY <1>4, DiscoverStep DEF Recheck
<1>5. CASE CreateTables(x)
  <2>1. PICK place \in {"read", "probe", "refused"} :
            /\ Moves(x, place) /\ (place # "refused" => dbTables' = TRUE) /\ (place = "refused" => dbTables' = dbTables)
            /\ place = "read" => x \in Inits
            /\ x \in Inits => place # "probe"
    BY <1>5, BootstrapAssumption DEF CreateTables
  <2>2. bootAt' = [bootAt EXCEPT ![x] = place]
    BY <2>1 DEF Moves
  <2>3. /\ UNCHANGED <<localUsers, off, runsAs, bootFaults>> /\ dbTables' \in BOOLEAN
        /\ bootLock' \in {bootLock, NoUser} /\ bootAt[x] # "started"
        /\ sawOn' = IF x \in Inits THEN [sawOn EXCEPT ![x] = localUsers \ off] ELSE sawOn
        /\ x \notin Inits => bootAt[x] = "create"
    BY <1>5, <2>1 DEF CreateTables, Moves
  <2>4. BootstrapTypeOK'
    BY <2>2, <2>3
  <2>5. InitsSkipTheLock'
    BY <2>1, <2>2 DEF Starts
  <2>6. NoSecondUser' /\ StartedAsUser'
    BY <2>1, <2>2, <2>3
  <2>7. SeenWhileOn'
    BY <2>1, <2>2, <2>3
  <2> QED BY <2>4, <2>5, <2>6, <2>7
<1>6. CASE ReadUser(x)
  BY <1>6, LocalUserFacts DEF ReadUser, Moves, StartsAs
<1>7. CASE InsertUser(x)
  BY <1>7, LocalUserFacts DEF InsertUser, StartsAs, Moves
<1>8. CASE FinalLook(x)
  BY <1>8, DiscoverStep DEF FinalLook
<1>9. CASE Require(x)
  BY <1>9, LocalUserFacts DEF Require, StartsAs, Moves
<1> QED BY <1>1, <1>2, <1>3, <1>4, <1>5, <1>6, <1>7, <1>8, <1>9 DEF StartStep

LEMMA BootStep == ASSUME BootIInv, BootstrapNext PROVE BootIInv'
BY StartsStep DEF BootIInv, BootstrapTypeOK, InitsSkipTheLock, SeenWhileOn, NoSecondUser,
   StartedAsUser, BootDies, Moves, SwitchUser, BootstrapNext

LEMMA BootStutter == ASSUME BootIInv, UNCHANGED bootVars PROVE BootIInv'
BY DEF bootVars, BootIInv, BootstrapTypeOK, InitsSkipTheLock, SeenWhileOn, NoSecondUser,
       StartedAsUser

LEMMA BootIInvIsOne == BootIInv => OneLocalUser
<1> SUFFICES ASSUME BootIInv PROVE Cardinality(localUsers) <= 1
  BY DEF BootIInv, StartedAsUser, OneLocalUser
<1>1. CASE localUsers = {}
  BY <1>1, FS_EmptySet
<1>2. CASE localUsers # {}
  <2>1. PICK u : localUsers = {u}
    BY <1>2 DEF BootIInv, NoSecondUser
  <2>2. Cardinality({u}) = 1
    BY FS_Singleton
  <2> QED BY <2>1, <2>2
<1> QED BY <1>1, <1>2

-----------------------------------------------------------------------------
(* Proofs: the embedding model.                                            *)

USE EmbeddingAssumption DEF Steps, FiringAt, Busy, NoOne

\* A new timer is none of those there are.
LEMMA NewTimer ==
    ASSUME NEW left, IsFiniteSet(DOMAIN left)
    PROVE  \E g \in 1 .. Cardinality(DOMAIN left) + 1 : g \notin DOMAIN left
<1> DEFINE n == Cardinality(DOMAIN left)
<1>1. n \in Nat
  BY FS_CardinalityType
<1>4. ASSUME NEW S \in SUBSET (DOMAIN left)
      PROVE  Cardinality(S) <= n
  BY FS_Subset
<1> HIDE DEF n
<1>2. IsFiniteSet(1 .. n + 1) /\ Cardinality(1 .. n + 1) = n + 1
  BY FS_Interval, <1>1
<1>3. ASSUME 1 .. n + 1 \subseteq DOMAIN left
      PROVE  FALSE
  BY <1>3, <1>4, <1>1, <1>2
<1> QED BY <1>3 DEF n

\* Arming a timer keeps those that are there; a new one does not hold the lock.
LEMMA ArmsFacts ==
    ASSUME NEW left, IsFiniteSet(DOMAIN left), NEW here \in Nat, timerGen \in Nat,
           left \in [DOMAIN left -> {"armed", "fired", "closing", "ended"}], Arms(left, here)
    PROVE  /\ timer' \in Nat /\ timerGen' \in Nat
           /\ firing' \in [DOMAIN firing' -> {"armed", "fired", "closing", "ended"}]
           /\ IsFiniteSet(DOMAIN firing') /\ DOMAIN left \subseteq DOMAIN firing'
           /\ \A g \in DOMAIN left : firing'[g] = left[g]
           /\ \A g \in DOMAIN firing' : g \in DOMAIN left \/ firing'[g] = "armed"
<1> DEFINE new == CHOOSE g \in 1 .. Cardinality(DOMAIN left) + 1 : g \notin DOMAIN left
<1>1. CASE here # 0
  BY <1>1 DEF Arms
<1>2. CASE here = 0
  <2>1. /\ timerGen' = new /\ timer' = new
        /\ firing' = [g \in DOMAIN left \cup {new} |-> IF g = new THEN "armed" ELSE left[g]]
    BY <1>2 DEF Arms
  <2>2. new \in 1 .. Cardinality(DOMAIN left) + 1 /\ new \notin DOMAIN left
    BY NewTimer
  <2> HIDE DEF new
  <2>3. new \in Nat
    BY FS_CardinalityType, <2>2
  <2>4. IsFiniteSet(DOMAIN left \cup {new})
    BY FS_AddElement
  <2> QED BY <2>1, <2>2, <2>3, <2>4
<1> QED BY <1>1, <1>2

\* Taking a lease, and giving it back.
LEMMA LeaseTaken ==
    ASSUME EmbedIInv, NEW t \in Embedders, lease[t] = 0, NEW m \in Nat \ {0}, Leases(t, m)
    PROVE  LeasesAreCounted' /\ inflight' \in Nat
<1>1. Holders' = Holders \cup {t} /\ t \notin Holders
  BY DEF EmbedIInv, EmbedTypeOK, Leases, Holders
<1>2. IsFiniteSet(Holders) /\ inflight = Cardinality(Holders) /\ inflight \in Nat
  BY DEF EmbedIInv, EmbedTypeOK, LeasesAreCounted
<1>3. IsFiniteSet(Holders \cup {t}) /\ Cardinality(Holders \cup {t}) = inflight + 1
  BY <1>1, <1>2, FS_AddElement
<1>4. inflight' = inflight + 1 /\ IsFiniteSet(Holders') /\ Cardinality(Holders') = inflight + 1
  BY <1>1, <1>3 DEF Leases
<1> QED BY <1>2, <1>4 DEF LeasesAreCounted

LEMMA LeaseReturned ==
    ASSUME EmbedIInv, NEW t \in Embedders, lease[t] # 0,
           lease' = [lease EXCEPT ![t] = 0], inflight' = inflight - 1
    PROVE  LeasesAreCounted' /\ inflight' \in Nat
<1>1. Holders' = Holders \ {t} /\ t \in Holders
  BY DEF EmbedIInv, EmbedTypeOK, Holders
<1>2. IsFiniteSet(Holders) /\ inflight = Cardinality(Holders) /\ inflight \in Nat
  BY DEF EmbedIInv, EmbedTypeOK, LeasesAreCounted
<1>3. IsFiniteSet(Holders \ {t}) /\ Cardinality(Holders \ {t}) = inflight - 1
  BY <1>1, <1>2, FS_RemoveElement
<1>4. inflight - 1 \in Nat
  BY <1>3, FS_CardinalityType
<1> QED BY <1>1, <1>3, <1>4 DEF LeasesAreCounted

\* While a lease is held, calls are counted.
LEMMA UsedIsCounted ==
    ASSUME EmbedIInv, inflight = 0, NEW t \in Embedders
    PROVE  lease[t] = 0
<1>1. Holders = {}
  BY FS_EmptySet DEF EmbedIInv, LeasesAreCounted
<1> QED BY <1>1 DEF Holders

LEMMA EmbedInitInv == EmbedInit => EmbedIInv
<1> SUFFICES ASSUME EmbedInit PROVE EmbedIInv
  OBVIOUS
<1>1. EmbedTypeOK
  <2>1. firing \in [DOMAIN firing -> {"armed", "fired", "closing", "ended"}]
    BY DEF EmbedInit
  <2>2. /\ calls \in Nat /\ model \in 0 .. models /\ models \in Nat /\ alive \subseteq 1 .. models
        /\ lease \in [Embedders -> 0 .. models] /\ closing \in 0 .. models
    BY DEF EmbedInit
  <2>3. /\ embAt \in [Embedders -> {"idle", "lease", "lock", "load", "use", "infer"}]
        /\ inflight \in Nat /\ used \in BOOLEAN /\ timer \in Nat /\ timerGen \in Nat
        /\ llmLock \in Embedders \cup {NoOne, "timer"} /\ inferLock \in Embedders \cup {NoOne}
    BY DEF EmbedInit
  <2> QED BY <2>1, <2>2, <2>3 DEF EmbedTypeOK
<1>2. TimerOwnsTheLock /\ LoaderOwnsTheLock /\ MemoryIsKnown /\ LeasesAreOfTheModel
  BY FS_EmptySet DEF EmbedInit, TimerOwnsTheLock, LoaderOwnsTheLock, MemoryIsKnown,
                     LeasesAreOfTheModel
<1>3. LeasesAreCounted
  BY FS_EmptySet DEF EmbedInit, Holders, LeasesAreCounted
<1> QED BY <1>1, <1>2, <1>3 DEF EmbedIInv

LEMMA BeginCallStep == ASSUME EmbedIInv, NEW t \in Embedders, BeginCall(t) PROVE EmbedIInv'
BY DEF EmbedIInv, LeasesAreCounted, Holders, BeginCall, EmbedTypeOK, TimerOwnsTheLock,
   LoaderOwnsTheLock, MemoryIsKnown, LeasesAreOfTheModel, timerVars

LEMMA LeaseLoadedStep == ASSUME EmbedIInv, NEW t \in Embedders, LeaseLoaded(t) PROVE EmbedIInv'
<1>1. lease[t] = 0 /\ model \in Nat \ {0} /\ Leases(t, model)
  BY DEF EmbedIInv, EmbedTypeOK, LeasesAreOfTheModel, LeaseLoaded
<1>2. LeasesAreCounted' /\ inflight' \in Nat
  BY <1>1, LeaseTaken
<1> QED BY <1>1, <1>2 DEF EmbedIInv, EmbedTypeOK, TimerOwnsTheLock, LoaderOwnsTheLock,
                          MemoryIsKnown, LeasesAreOfTheModel, LeaseLoaded, Leases, timerVars

LEMMA GoToLoadStep == ASSUME EmbedIInv, NEW t \in Embedders, GoToLoad(t) PROVE EmbedIInv'
BY DEF EmbedIInv, LeasesAreCounted, Holders, GoToLoad, EmbedTypeOK, TimerOwnsTheLock,
   LoaderOwnsTheLock, MemoryIsKnown, LeasesAreOfTheModel, timerVars

LEMMA LockAndLookStep == ASSUME EmbedIInv, NEW t \in Embedders, LockAndLook(t) PROVE EmbedIInv'
<1>1. CASE model # 0
  BY <1>1, LeaseTaken DEF EmbedIInv, EmbedTypeOK, LeasesAreOfTheModel, LockAndLook,
     TimerOwnsTheLock, LoaderOwnsTheLock, MemoryIsKnown, Leases, timerVars
<1>2. CASE model = 0
  <2>1. /\ llmLock = NoOne /\ llmLock' = t /\ embAt' = [embAt EXCEPT ![t] = "load"]
        /\ UNCHANGED <<lease, inflight, used>> /\ embAt[t] = "lock"
    BY <1>2 DEF LockAndLook
  <2>2. LeasesAreCounted'
    BY <2>1 DEF EmbedIInv, LeasesAreCounted, Holders
  <2> QED BY <1>2, <2>1, <2>2 DEF EmbedIInv, EmbedTypeOK, TimerOwnsTheLock, LoaderOwnsTheLock,
                                  MemoryIsKnown, LeasesAreOfTheModel, LockAndLook, timerVars
<1> QED BY <1>1, <1>2

LEMMA LoadModelStep == ASSUME EmbedIInv, NEW t \in Embedders, LoadModel(t) PROVE EmbedIInv'
<1> DEFINE m == models + 1
<1>1. /\ model = 0 /\ llmLock = t /\ lease[t] = 0 /\ models \in Nat /\ m \in Nat \ {0}
      /\ Leases(t, m) /\ llmLock' = NoOne /\ embAt[t] = "load"
  BY DEF EmbedIInv, EmbedTypeOK, LoaderOwnsTheLock, LeasesAreOfTheModel, LoadModel
<1>2. closing = 0 /\ \A g \in DOMAIN firing : firing[g] \notin Busy
  BY <1>1 DEF EmbedIInv, TimerOwnsTheLock
<1>3. LeasesAreCounted' /\ inflight' \in Nat
  BY <1>1, LeaseTaken
<1>4. EmbedTypeOK'
  BY <1>1, <1>3 DEF EmbedIInv, EmbedTypeOK, LoadModel, Leases, timerVars
<1>5. TimerOwnsTheLock'
  BY <1>2 DEF EmbedIInv, TimerOwnsTheLock, LoadModel, timerVars
<1>6. LoaderOwnsTheLock'
  BY <1>1 DEF EmbedIInv, EmbedTypeOK, LoaderOwnsTheLock, Leases
<1>7. MemoryIsKnown'
  BY <1>1, <1>2 DEF EmbedIInv, MemoryIsKnown, LoadModel
<1>8. LeasesAreOfTheModel'
  BY <1>1 DEF EmbedIInv, EmbedTypeOK, LeasesAreOfTheModel, LoadModel, Leases
<1> QED BY <1>3, <1>4, <1>5, <1>6, <1>7, <1>8 DEF EmbedIInv

LEMMA LoadFailsStep == ASSUME EmbedIInv, NEW t \in Embedders, LoadFails(t) PROVE EmbedIInv'
BY DEF EmbedIInv, LeasesAreCounted, Holders, LoadFails, EmbedTypeOK, TimerOwnsTheLock,
   LoaderOwnsTheLock, MemoryIsKnown, LeasesAreOfTheModel, timerVars

LEMMA InferStep == ASSUME EmbedIInv, NEW t \in Embedders, Infer(t) PROVE EmbedIInv'
BY DEF EmbedIInv, LeasesAreCounted, Holders, Infer, EmbedTypeOK, TimerOwnsTheLock,
   LoaderOwnsTheLock, MemoryIsKnown, LeasesAreOfTheModel, timerVars

LEMMA ReturnLeaseStep == ASSUME EmbedIInv, NEW t \in Embedders, ReturnLease(t) PROVE EmbedIInv'
<1>1. /\ lease[t] # 0 /\ lease' = [lease EXCEPT ![t] = 0] /\ inflight' = inflight - 1
      /\ embAt' = [embAt EXCEPT ![t] = "idle"] /\ embAt[t] = "infer"
  BY DEF EmbedIInv, LeasesAreOfTheModel, ReturnLease
<1>2. LeasesAreCounted' /\ inflight' \in Nat
  BY <1>1, LeaseReturned
<1>3. /\ timer' \in Nat /\ timerGen' \in Nat
      /\ firing' \in [DOMAIN firing' -> {"armed", "fired", "closing", "ended"}]
      /\ IsFiniteSet(DOMAIN firing') /\ DOMAIN firing \subseteq DOMAIN firing'
      /\ \A g \in DOMAIN firing : firing'[g] = firing[g]
      /\ \A g \in DOMAIN firing' : g \in DOMAIN firing \/ firing'[g] = "armed"
  BY ArmsFacts DEF EmbedIInv, EmbedTypeOK, TimerOwnsTheLock, ReturnLease
<1>4. EmbedTypeOK'
  BY <1>1, <1>2, <1>3 DEF EmbedIInv, EmbedTypeOK, ReturnLease
<1>5. TimerOwnsTheLock'
  BY <1>3 DEF EmbedIInv, TimerOwnsTheLock, ReturnLease
<1>6. (LoaderOwnsTheLock /\ MemoryIsKnown /\ LeasesAreOfTheModel)'
  BY <1>1 DEF EmbedIInv, EmbedTypeOK, LoaderOwnsTheLock, MemoryIsKnown, LeasesAreOfTheModel,
              ReturnLease
<1> QED BY <1>2, <1>4, <1>5, <1>6 DEF EmbedIInv

\* A timer that has fired has the lock, and no model is being closed beside it.
LEMMA BusyTimer ==
    ASSUME EmbedIInv, NEW g \in DOMAIN firing, firing[g] \in Busy
    PROVE  /\ llmLock = "timer" /\ \A h \in DOMAIN firing \ {g} : firing[h] \notin Busy
           /\ firing[g] = "fired" => closing = 0
           /\ \A t \in Embedders : embAt[t] # "load"
BY DEF EmbedIInv, TimerOwnsTheLock, LoaderOwnsTheLock

LEMMA FireStep == ASSUME EmbedIInv, NEW g \in DOMAIN firing, Fire(g) PROVE EmbedIInv'
BY DEF EmbedIInv, TimerOwnsTheLock, LoaderOwnsTheLock, Fire, EmbedTypeOK, MemoryIsKnown,
   LeasesAreOfTheModel, LeasesAreCounted, Holders

LEMMA TakeOutStep == ASSUME EmbedIInv, NEW g \in DOMAIN firing, TakeOut(g) PROVE EmbedIInv'
<1>1. /\ firing[g] = "fired" /\ closing = 0 /\ llmLock = "timer"
      /\ \A h \in DOMAIN firing \ {g} : firing[h] \notin Busy
      /\ \A t \in Embedders : embAt[t] # "load"
      /\ UNCHANGED <<embAt, calls, models, alive, lease, inflight, inferLock, used>>
  BY BusyTimer DEF TakeOut
<1>2. LeasesAreCounted'
  BY <1>1 DEF EmbedIInv, LeasesAreCounted, Holders
<1>3. CASE /\ model # 0 /\ inflight = 0
           /\ closing' = model /\ model' = 0
           /\ firing' = [firing EXCEPT ![g] = "closing"]
           /\ UNCHANGED <<timer, timerGen, llmLock>>
  BY <1>3, <1>1, UsedIsCounted, <1>2 DEF EmbedIInv, EmbedTypeOK, TimerOwnsTheLock,
     LoaderOwnsTheLock, MemoryIsKnown, LeasesAreOfTheModel
<1>4. CASE firing' = [firing EXCEPT ![g] = "ended"] /\ llmLock' = NoOne
           /\ UNCHANGED <<model, closing, timer, timerGen>>
  BY <1>4, <1>1, <1>2 DEF EmbedIInv, EmbedTypeOK, TimerOwnsTheLock, LoaderOwnsTheLock,
     MemoryIsKnown, LeasesAreOfTheModel
<1>5. CASE llmLock' = NoOne /\ UNCHANGED <<model, closing>>
           /\ Arms([firing EXCEPT ![g] = "ended"], timer)
  <2> DEFINE left == [firing EXCEPT ![g] = "ended"]
  <2>1. /\ DOMAIN left = DOMAIN firing /\ IsFiniteSet(DOMAIN left)
        /\ left \in [DOMAIN left -> {"armed", "fired", "closing", "ended"}]
        /\ \A h \in DOMAIN left : left[h] \notin Busy
    BY <1>1 DEF EmbedIInv, EmbedTypeOK, TimerOwnsTheLock
  <2>2. PICK old : old = left
    OBVIOUS
  <2>3. /\ timer' \in Nat /\ timerGen' \in Nat
        /\ firing' \in [DOMAIN firing' -> {"armed", "fired", "closing", "ended"}]
        /\ IsFiniteSet(DOMAIN firing')
        /\ \A h \in DOMAIN old : firing'[h] = old[h]
        /\ \A h \in DOMAIN firing' : h \in DOMAIN old \/ firing'[h] = "armed"
    BY <1>5, <2>1, <2>2, ArmsFacts DEF EmbedIInv, EmbedTypeOK
  <2>4. \A h \in DOMAIN firing' : firing'[h] \notin Busy
    BY <2>1, <2>2, <2>3
  <2>5. EmbedTypeOK'
    BY <1>1, <1>5, <2>3 DEF EmbedIInv, EmbedTypeOK
  <2>6. TimerOwnsTheLock'
    BY <1>1, <1>5, <2>3, <2>4 DEF TimerOwnsTheLock
  <2>7. (LoaderOwnsTheLock /\ MemoryIsKnown /\ LeasesAreOfTheModel)'
    BY <1>1, <1>5 DEF EmbedIInv, LoaderOwnsTheLock, MemoryIsKnown, LeasesAreOfTheModel
  <2> QED BY <1>2, <2>5, <2>6, <2>7 DEF EmbedIInv
<1> QED BY <1>1, <1>3, <1>4, <1>5 DEF TakeOut

LEMMA CloseModelStep == ASSUME EmbedIInv, NEW g \in DOMAIN firing, CloseModel(g) PROVE EmbedIInv'
BY BusyTimer DEF CloseModel, EmbedIInv, EmbedTypeOK, TimerOwnsTheLock, LoaderOwnsTheLock,
   MemoryIsKnown, LeasesAreOfTheModel, LeasesAreCounted, Holders

LEMMA EndTimerStep == ASSUME EmbedIInv, NEW g \in DOMAIN firing, EndTimer(g) PROVE EmbedIInv'
BY FS_RemoveElement DEF EmbedIInv, EmbedTypeOK, EndTimer, TimerOwnsTheLock, LoaderOwnsTheLock,
   MemoryIsKnown, LeasesAreOfTheModel, LeasesAreCounted, Holders

LEMMA EmbedStutter == ASSUME EmbedIInv, UNCHANGED embedVars PROVE EmbedIInv'
BY DEF embedVars, timerVars, EmbedIInv, EmbedTypeOK, TimerOwnsTheLock, LoaderOwnsTheLock,
       MemoryIsKnown, LeasesAreOfTheModel, LeasesAreCounted, Holders

LEMMA EmbedStep == ASSUME EmbedIInv, EmbedNext PROVE EmbedIInv'
<1>1. CASE IdleTimePasses
  BY <1>1 DEF IdleTimePasses, timerVars, EmbedIInv, EmbedTypeOK, TimerOwnsTheLock,
              LoaderOwnsTheLock, MemoryIsKnown, LeasesAreOfTheModel, LeasesAreCounted, Holders
<1>2. CASE TimerStep
  BY <1>2, FireStep, TakeOutStep, CloseModelStep, EndTimerStep DEF TimerStep
<1>3. ASSUME NEW t \in Embedders, BeginCall(t) \/ EmbedderStep(t)
      PROVE  EmbedIInv'
  BY <1>3, BeginCallStep, LeaseLoadedStep, GoToLoadStep, LockAndLookStep, LoadModelStep,
     LoadFailsStep, InferStep, ReturnLeaseStep DEF EmbedderStep
<1> QED BY <1>1, <1>2, <1>3 DEF EmbedNext

LEMMA EmbedIInvIsSound == EmbedIInv => ModelIsSound
<1> SUFFICES ASSUME EmbedIInv PROVE ModelIsSound
  OBVIOUS
<1>1. Cardinality(alive) <= 1
  <2>1. alive = {} \/ \E m : alive = {m}
    BY DEF EmbedIInv, MemoryIsKnown
  <2>2. CASE alive = {}
    BY <2>2, FS_EmptySet
  <2>3. ASSUME NEW m, alive = {m}
        PROVE  Cardinality(alive) <= 1
    BY FS_Singleton, <2>3
  <2> QED BY <2>1, <2>2, <2>3
<1>2. \A t \in Embedders : embAt[t] \in {"use", "infer"} =>
          lease[t] = model /\ model \in alive /\ closing # model
  BY DEF EmbedIInv, MemoryIsKnown, LeasesAreOfTheModel
<1>3. inflight = Cardinality({t \in Embedders : lease[t] # 0})
  BY DEF EmbedIInv, LeasesAreCounted, Holders
<1> QED BY <1>1, <1>2, <1>3 DEF ModelIsSound

-----------------------------------------------------------------------------
(* The sum of the components.                                              *)

ServicesIInv ==
    /\ HttpIInv /\ BootIInv /\ EmbedIInv /\ WorkflowIInv /\ FileLockInv

LEMMA ServicesInitInv == ServicesInit => ServicesIInv
BY HttpInitIInv, BootInitInv, EmbedInitInv, WorkflowInitInv, InitIInv DEF ServicesInit, ServicesIInv

LEMMA ServicesStep == ServicesIInv /\ [ServicesNext]_serviceVars => ServicesIInv'
BY HttpStep, HttpStutter, BootStep, BootStutter, EmbedStep, EmbedStutter, WorkflowStep,
   WorkflowStutter, IInvStep DEF ServicesIInv, ServicesNext, serviceVars

LEMMA ServicesInvariance == ServicesSpec => []ServicesIInv
BY ServicesInitInv, ServicesStep, PTL DEF ServicesSpec

-----------------------------------------------------------------------------
(* The theorems.                                                           *)

\* Every component's variables keep their types.
THEOREM ServicesTypeCorrect == ServicesSpec => []ServicesTypesOK
<1>1. ServicesIInv => ServicesTypesOK
  BY DEF ServicesIInv, HttpIInv, BootIInv, EmbedIInv, WorkflowIInv, FileLockInv, ServicesTypesOK
<1> QED BY <1>1, ServicesInvariance, PTL

\* There is one local user however many servers and init runs meet on an empty
\* directory (auth.py); one embedding model in memory however many threads fall
\* back to it while timers fire (llamacpp_embedding.py); and of the reviewers who
\* race to resolve an approval one is told it is done (approvals.py).
THEOREM DecisionsStand == ServicesSpec => []DecidedOnce
<1>1. ServicesIInv => DecidedOnce
  BY BootIInvIsOne, EmbedIInvIsSound DEF ServicesIInv, WorkflowIInv, DecidedOnce
<1> QED BY <1>1, ServicesInvariance, PTL
=============================================================================
