------------------------------- MODULE FileLock -------------------------------
(***************************************************************************)
(* opencrab/locking.py: file_lock and write_lock (with blocks, re-entrant  *)
(* within a thread) and acquire_file_lock / release_file_lock (a handle    *)
(* kept for the life of a store), over lock files shared by processes.     *)
(*                                                                         *)
(* An acquisition waits twice, for the RLock of its process and then for   *)
(* the lock of the operating system, under one deadline.  Time is not      *)
(* modelled: whoever waits may run out of time.  A caller's own code runs  *)
(* at lockPc "run"; it may enter further with blocks from there.           *)
(***************************************************************************)
EXTENDS Integers, FiniteSets

CONSTANTS
    Threads,
    Processes,
    ProcOf,       \* the process of each thread
    Paths,        \* lock files
    WritePath,    \* write.lock, taken through write_lock
    Purposes,     \* values of write_lock's purpose argument
    SharedMode,   \* "sh" on POSIX; on Windows a shared request is "ex"
    MaxDepth      \* bound: with blocks one thread is in at once

ASSUME ThreadsAssumption ==
    /\ ProcOf \in [Threads -> Processes]
    /\ "nobody" \notin Threads
    /\ {"nobody", "torn"} \cap Processes = {}

ASSUME LocksAssumption ==
    /\ WritePath \in Paths
    /\ "none" \notin Purposes
    /\ SharedMode \in {"sh", "ex"}
    /\ MaxDepth \in Nat

VARIABLES
    rlock,    \* _process_locks: the RLock of each process for each path
    held,     \* _held.locks: the depth a thread has recorded for each path
    blocks,   \* with blocks whose body each thread is in, for each path
    mode,     \* what the operating system has granted to each open handle
    pending,  \* _held.pending_purpose of each thread
    record,   \* the holder record written into each lock file
    lockPc,   \* where each thread is inside locking.py
    call      \* the acquisition or release each thread is in

lockVars == <<rlock, held, blocks, mode, pending, record, lockPc, call>>

-----------------------------------------------------------------------------
NoThread == "nobody"
NoPurpose == "none"
Free == [owner |-> NoThread, count |-> 0]

\* A with block's handle and a store's handle are separate open files.
With(t) == <<"with", t>>
Life(t) == <<"life", t>>
Handles == {"with", "life"} \X Threads

NoCall == [path |-> WritePath, purpose |-> NoPurpose, write |-> FALSE]
Calls == [path : Paths, purpose : Purposes \cup {NoPurpose}, write : BOOLEAN]

\* The record: nothing yet, a half-written one, or a pid and a purpose.
NoRecord == [by |-> NoThread, purpose |-> NoPurpose]
Torn == [by |-> "torn", purpose |-> NoPurpose]
Records == [by : Processes, purpose : Purposes \cup {NoPurpose}] \cup {NoRecord, Torn}

RLockType == {Free} \cup [owner : Threads, count : Nat \ {0}]

LockTypeOK ==
    /\ rlock \in [Processes \X Paths -> RLockType]
    /\ held \in [Threads -> [Paths -> Nat]]
    /\ blocks \in [Threads -> [Paths -> Nat]]
    /\ mode \in [Paths -> [Handles -> {"none", "sh", "ex"}]]
    /\ pending \in [Threads -> Purposes \cup {NoPurpose}]
    /\ record \in [Paths -> Records]
    /\ lockPc \in [Threads -> {"run", "rlock", "lookup", "flock", "record",
                           "enter", "release", "unlock", "life"}]
    /\ call \in [Threads -> Calls]

LockInit ==
    /\ rlock = [x \in Processes \X Paths |-> Free]
    /\ held = [t \in Threads |-> [p \in Paths |-> 0]]
    /\ blocks = [t \in Threads |-> [p \in Paths |-> 0]]
    /\ mode = [p \in Paths |-> [h \in Handles |-> "none"]]
    /\ pending = [t \in Threads |-> NoPurpose]
    /\ record = [p \in Paths |-> NoRecord]
    /\ lockPc = [t \in Threads |-> "run"]
    /\ call = [t \in Threads |-> NoCall]

-----------------------------------------------------------------------------
GoOn(t, label) == lockPc' = [lockPc EXCEPT ![t] = label]

\* The call is over, with a result or an exception.
GiveBack(t) ==
    /\ GoOn(t, "run")
    /\ call' = [call EXCEPT ![t] = NoCall]

\* The RLock of t's process for the path of t's call.
Mine(t) == <<ProcOf[t], call[t].path>>

\* Mutant: the last release leaves the owner in place.
UnlockedKeepsOwner(l) == [l EXCEPT !.count = @ - 1]

\* process_lock.release(), one level.
Unlocked(l) == IF l.count = 1 THEN Free ELSE [l EXCEPT !.count = @ - 1]

\* write_lock's finally: the purpose is cleared when file_lock returns or raises.
Forget(t) == pending' = IF call[t].write THEN [pending EXCEPT ![t] = NoPurpose] ELSE pending

\* flock(handle, m | LOCK_NB) succeeds.
Grantable(p, h, m) ==
    \A g \in Handles \ {h} : IF m = "ex" THEN mode[p][g] = "none" ELSE mode[p][g] # "ex"

-----------------------------------------------------------------------------
(* Entering a with block.                                                  *)

\* The bound MaxDepth.
Room(t) == Cardinality({x \in Paths \X (1 .. MaxDepth) : x[2] <= blocks[t][x[1]]}) < MaxDepth

\* with write_lock(purpose=...)
CallWriteLock(t, purpose) ==
    /\ lockPc[t] = "run"
    /\ Room(t)
    /\ call' = [call EXCEPT ![t] = [path |-> WritePath, purpose |-> purpose, write |-> TRUE]]
    /\ pending' = [pending EXCEPT ![t] = purpose]
    /\ GoOn(t, "rlock")
    /\ UNCHANGED <<rlock, held, blocks, mode, record>>

\* with file_lock(path): every caller in the repository asks for an exclusive
\* lock, and none for write.lock but write_lock.
CallFileLock(t, p) ==
    /\ lockPc[t] = "run"
    /\ p # WritePath
    /\ Room(t)
    /\ call' = [call EXCEPT ![t] = [path |-> p, purpose |-> NoPurpose, write |-> FALSE]]
    /\ GoOn(t, "rlock")
    /\ UNCHANGED <<rlock, held, blocks, mode, pending, record>>

GetRLock(t) ==
    /\ lockPc[t] = "rlock"
    /\ rlock[Mine(t)].owner \in {NoThread, t}
    /\ rlock' = [rlock EXCEPT ![Mine(t)] = [owner |-> t, count |-> @.count + 1]]
    /\ GoOn(t, "lookup")
    /\ UNCHANGED <<held, blocks, mode, pending, record, call>>

\* Mutant: the purpose of an acquisition that timed out stays with the thread.
RLockTimeoutKeepsPurpose(t) ==
    /\ lockPc[t] = "rlock"
    /\ rlock[Mine(t)].owner \notin {NoThread, t}
    /\ GiveBack(t)
    /\ UNCHANGED <<rlock, held, blocks, mode, pending, record>>

RLockTimeout(t) ==
    /\ lockPc[t] = "rlock"
    /\ rlock[Mine(t)].owner \notin {NoThread, t}
    /\ Forget(t)
    /\ GiveBack(t)
    /\ UNCHANGED <<rlock, held, blocks, mode, record>>

\* The thread already holds the path: one level deeper, no second handle.
Reenter(t) ==
    /\ lockPc[t] = "lookup"
    /\ held[t][call[t].path] > 0
    /\ held' = [held EXCEPT ![t][call[t].path] = @ + 1]
    /\ blocks' = [blocks EXCEPT ![t][call[t].path] = @ + 1]
    /\ Forget(t)
    /\ GiveBack(t)
    /\ UNCHANGED <<rlock, mode, record>>

Open(t) ==
    /\ lockPc[t] = "lookup"
    /\ held[t][call[t].path] = 0
    /\ GoOn(t, "flock")
    /\ UNCHANGED <<rlock, held, blocks, mode, pending, record, call>>

\* Mutant: a failed open leaves file_lock without its outer finally.
OpenFailKeepsRLock(t) ==
    /\ lockPc[t] = "lookup"
    /\ held[t][call[t].path] = 0
    /\ Forget(t)
    /\ GiveBack(t)
    /\ UNCHANGED <<rlock, held, blocks, mode, record>>

OpenFail(t) ==
    /\ lockPc[t] = "lookup"
    /\ held[t][call[t].path] = 0
    /\ Forget(t)
    /\ GoOn(t, "unlock")
    /\ UNCHANGED <<rlock, held, blocks, mode, record, call>>

Flock(t) ==
    /\ lockPc[t] = "flock"
    /\ Grantable(call[t].path, With(t), "ex")
    /\ mode' = [mode EXCEPT ![call[t].path][With(t)] = "ex"]
    /\ GoOn(t, "record")
    /\ UNCHANGED <<rlock, held, blocks, pending, record, call>>

\* Mutant: an omitted timeout means to poll for ever.
FlockPollsForever(t) ==
    /\ lockPc[t] = "flock"
    /\ UNCHANGED lockVars

\* The deadline passes, or flock raises anything else: the handle is closed.
FlockFail(t) ==
    /\ lockPc[t] = "flock"
    /\ Forget(t)
    /\ GoOn(t, "unlock")
    /\ UNCHANGED <<rlock, held, blocks, mode, record, call>>

\* _record_holder, which never raises but may stop half way.
Record(t) ==
    /\ lockPc[t] = "record"
    /\ LET p == call[t].path IN
       \E r \in {[by |-> ProcOf[t], purpose |-> pending[t]], record[p], Torn} :
           record' = [record EXCEPT ![p] = r]
    /\ GoOn(t, "enter")
    /\ UNCHANGED <<rlock, held, blocks, mode, pending, call>>

\* held[path] = (1, fh), and the body starts.
Enter(t) ==
    /\ lockPc[t] = "enter"
    /\ held' = [held EXCEPT ![t][call[t].path] = 1]
    /\ blocks' = [blocks EXCEPT ![t][call[t].path] = 1]
    /\ Forget(t)
    /\ GiveBack(t)
    /\ UNCHANGED <<rlock, mode, record>>

-----------------------------------------------------------------------------
(* Leaving a with block, normally or with an exception of its body.        *)

\* Mutant: the handle is given back by the inner block already.
LeaveInnerReleases(t, p) ==
    /\ lockPc[t] = "run"
    /\ blocks[t][p] > 1
    /\ blocks' = [blocks EXCEPT ![t][p] = @ - 1]
    /\ held' = [held EXCEPT ![t][p] = @ - 1]
    /\ rlock' = [rlock EXCEPT ![<<ProcOf[t], p>>] = Unlocked(@)]
    /\ mode' = [mode EXCEPT ![p][With(t)] = "none"]
    /\ UNCHANGED <<pending, record, lockPc, call>>

LeaveInner(t, p) ==
    /\ lockPc[t] = "run"
    /\ blocks[t][p] > 1
    /\ blocks' = [blocks EXCEPT ![t][p] = @ - 1]
    /\ held' = [held EXCEPT ![t][p] = IF @ = 1 THEN 0 ELSE @ - 1]
    /\ rlock' = [rlock EXCEPT ![<<ProcOf[t], p>>] = Unlocked(@)]
    /\ UNCHANGED <<mode, pending, record, lockPc, call>>

LeaveOuter(t, p) ==
    /\ lockPc[t] = "run"
    /\ blocks[t][p] = 1
    /\ blocks' = [blocks EXCEPT ![t][p] = 0]
    /\ held' = [held EXCEPT ![t][p] = 0]
    /\ call' = [call EXCEPT ![t] = [NoCall EXCEPT !.path = p]]
    /\ GoOn(t, "release")
    /\ UNCHANGED <<rlock, mode, pending, record>>

\* _release and close: the close frees the lock even when _release raises.
ReleaseHandle(t) ==
    /\ lockPc[t] = "release"
    /\ mode' = [mode EXCEPT ![call[t].path][With(t)] = "none"]
    /\ GoOn(t, "unlock")
    /\ UNCHANGED <<rlock, held, blocks, pending, record, call>>

Unlock(t) ==
    /\ lockPc[t] = "unlock"
    /\ rlock' = [rlock EXCEPT ![Mine(t)] = Unlocked(@)]
    /\ GiveBack(t)
    /\ UNCHANGED <<held, blocks, mode, pending, record>>

-----------------------------------------------------------------------------
(* A handle for the life of a store: acquire_file_lock(shared=True).       *)

CallLife(t, p) ==
    /\ lockPc[t] = "run"
    /\ mode[p][Life(t)] = "none"
    /\ p # WritePath
    /\ call' = [call EXCEPT ![t] = [NoCall EXCEPT !.path = p]]
    /\ GoOn(t, "life")
    /\ UNCHANGED <<rlock, held, blocks, mode, pending, record>>

LifeGranted(t) ==
    /\ lockPc[t] = "life"
    /\ Grantable(call[t].path, Life(t), SharedMode)
    /\ mode' = [mode EXCEPT ![call[t].path][Life(t)] = SharedMode]
    /\ GiveBack(t)
    /\ UNCHANGED <<rlock, held, blocks, pending, record>>

LifeFail(t) ==
    /\ lockPc[t] = "life"
    /\ GiveBack(t)
    /\ UNCHANGED <<rlock, held, blocks, mode, pending, record>>

ReleaseLife(t, p) ==
    /\ lockPc[t] = "run"
    /\ mode[p][Life(t)] # "none"
    /\ mode' = [mode EXCEPT ![p][Life(t)] = "none"]
    /\ UNCHANGED <<rlock, held, blocks, pending, record, lockPc, call>>

-----------------------------------------------------------------------------
\* A process dies; another takes its place.  Records stay in the files.
Crash(q) ==
    /\ \E t \in Threads : ProcOf[t] = q
    /\ rlock' = [x \in Processes \X Paths |-> IF x[1] = q THEN Free ELSE rlock[x]]
    /\ held' = [t \in Threads |-> IF ProcOf[t] = q THEN [p \in Paths |-> 0] ELSE held[t]]
    /\ blocks' = [t \in Threads |-> IF ProcOf[t] = q THEN [p \in Paths |-> 0] ELSE blocks[t]]
    /\ mode' = [p \in Paths |-> [h \in Handles |->
                   IF ProcOf[h[2]] = q THEN "none" ELSE mode[p][h]]]
    /\ pending' = [t \in Threads |-> IF ProcOf[t] = q THEN NoPurpose ELSE pending[t]]
    /\ lockPc' = [t \in Threads |-> IF ProcOf[t] = q THEN "run" ELSE lockPc[t]]
    /\ call' = [t \in Threads |-> IF ProcOf[t] = q THEN NoCall ELSE call[t]]
    /\ UNCHANGED record

\* What a thread does inside locking.py once it has called.
LockStep(t) ==
    \/ GetRLock(t) \/ RLockTimeout(t) \/ Reenter(t)
    \/ Open(t) \/ OpenFail(t) \/ Flock(t) \/ FlockFail(t)
    \/ Record(t) \/ Enter(t) \/ ReleaseHandle(t) \/ Unlock(t) \/ LifeGranted(t) \/ LifeFail(t)

CallerStep(t) ==
    \/ \E purpose \in Purposes \cup {NoPurpose} : CallWriteLock(t, purpose)
    \/ \E p \in Paths : \/ CallFileLock(t, p)
                        \/ LeaveInner(t, p)
                        \/ LeaveOuter(t, p)
                        \/ CallLife(t, p)
                        \/ ReleaseLife(t, p)

LockNext ==
    \/ \E t \in Threads : LockStep(t) \/ CallerStep(t)
    \/ \E q \in Processes : Crash(q)

LockSpec == LockInit /\ [][LockNext]_lockVars

\* A thread inside locking.py goes on; nobody has to leave a block or a store.
LockFairness == \A t \in Threads : WF_lockVars(LockStep(t))

LockFairSpec == LockSpec /\ LockFairness

-----------------------------------------------------------------------------
(* Properties.                                                             *)

\* The lock as the callers see it: a with block holds its path from the moment
\* its body starts until it is left, a store from the moment it has its handle.
Readers == [p \in Paths |-> {h \in Handles : h[1] = "life" /\ mode[p][h] # "none"}]
Writer == [p \in Paths |-> {h \in Handles : h[1] = "with" /\ blocks[h[2]][p] > 0}]
ProcessHandles(q) == {h \in Handles : ProcOf[h[2]] = q}

Lock == INSTANCE SharedLock WITH
    Holders <- Handles,
    Groups <- {ProcessHandles(q) : q \in Processes},
    readers <- Readers,
    writer <- Writer

\* file_lock, write_lock and the long-lived handles implement the shared lock,
\* through re-entrance, failed acquisitions and dying processes.
Implements == Lock!Spec

\* A thread that is in no with block and in no call has left nothing behind:
\* no level of an RLock, no entry of the held table, no lock of its with handle.
\* This is what the three failure boundaries of file_lock are for.
NoLeak ==
    \A t \in Threads, p \in Paths :
        lockPc[t] = "run" /\ blocks[t][p] = 0 =>
            /\ rlock[<<ProcOf[t], p>>].owner # t
            /\ held[t][p] = 0
            /\ mode[p][With(t)] = "none"

\* A holder record is written only by a thread that holds the lock exclusively
\* and tells the purpose of that very acquisition, never one left over from an
\* earlier or a failed one (#352).
RecordSpeaksForItself ==
    [][\A p \in Paths : record'[p] # record[p] =>
          \E t \in Threads :
             /\ mode[p][With(t)] = "ex"
             /\ call[t].path = p
             /\ record'[p] \in {Torn, [by |-> ProcOf[t], purpose |-> call[t].purpose]}]_lockVars

\* Every acquisition and every release returns, even when a holder never leaves
\* its block: both waits are bounded (#69).
CallsEnd == \A t \in Threads : lockPc[t] # "run" ~> lockPc[t] = "run"

-----------------------------------------------------------------------------
(* The inductive invariant behind Implements and NoLeak.                   *)

\* The operating system's table never grants an exclusive lock beside another.
TableInv ==
    \A p \in Paths : \A h, g \in Handles :
        mode[p][h] = "ex" /\ g # h => mode[p][g] = "none"

\* The levels of the RLock that t's call in progress accounts for.
Level(t, p) ==
    IF call[t].path = p /\ lockPc[t] \in {"lookup", "flock", "record", "enter", "release", "unlock"}
    THEN 1 ELSE 0

\* The held table counts the blocks, the RLock counts the blocks and the call,
\* and the handle is locked exactly while one of them needs it.
Blk(t, p) ==
    /\ held[t][p] = blocks[t][p]
    /\ blocks[t][p] + Level(t, p) > 0 =>
           rlock[<<ProcOf[t], p>>] = [owner |-> t, count |-> blocks[t][p] + Level(t, p)]
    /\ rlock[<<ProcOf[t], p>>].owner = t => blocks[t][p] + Level(t, p) > 0
    /\ blocks[t][p] > 0 => mode[p][With(t)] = "ex"
    /\ mode[p][With(t)] # "none" =>
           blocks[t][p] > 0 \/ (call[t].path = p /\ lockPc[t] \in {"record", "enter", "release"})
    /\ call[t].path = p /\ lockPc[t] \in {"record", "enter", "release"} => mode[p][With(t)] = "ex"
    /\ call[t].path = p /\ lockPc[t] \in {"flock", "record", "enter", "release", "unlock"} =>
           blocks[t][p] = 0

BlockInv == \A t \in Threads, p \in Paths : Blk(t, p)

\* A purpose is pending only during the write_lock call it belongs to.
PurposeInv ==
    \A t \in Threads :
        /\ pending[t] = IF call[t].write /\ lockPc[t] \in {"rlock", "lookup", "flock", "record", "enter"}
                        THEN call[t].purpose ELSE NoPurpose
        /\ ~call[t].write => call[t].purpose = NoPurpose

FileLockInv == LockTypeOK /\ TableInv /\ BlockInv /\ PurposeInv
=============================================================================
