---------------------------- MODULE PackLifecycle ----------------------------
(***************************************************************************)
(* The life of a pack's registry row: reserved 'creating', then 'ready' or *)
(* 'partial' (opencrab/pack/ownership.py), as driven by                    *)
(*   - pack_create, which writes the graph anchor last (mcp/tools/pack.py),*)
(*   - pack_fork, which writes it first and copies content after it        *)
(*     (pack/fork.py),                                                     *)
(*   - repair_incomplete_packs and its --promote form, and ensure_anchor   *)
(*     (pack/lifecycle.py).                                                *)
(*                                                                         *)
(* Registry and graph are two stores without a common transaction.  Every  *)
(* one of these calls runs under the write.lock of its data directory,     *)
(* which the operating system frees when a process dies.  A store call may *)
(* commit and lose its answer; a graph commit may also land later.         *)
(* Graph content of a pack is its anchor and, for a fork, the legs of the  *)
(* copy.  The optional document and vector stores only choose between      *)
(* messages and are left out.                                              *)
(***************************************************************************)
EXTENDS Integers, FiniteSets

CONSTANTS
    Slugs,        \* pack ids
    Creators,     \* pack_create calls
    Forkers,      \* pack_fork calls
    Repairers,    \* operators running repair-registry --apply, again and again
    Promoters,    \* operators running repair-registry --promote
    Restorers,    \* ensure_anchor calls
    Owner,        \* the principal of each pack_create and pack_fork call
    Requested,    \* the slug each of these calls asks for
    Source,       \* the pack each pack_fork call copies
    HostOf,       \* the data directory whose write.lock a process takes
    Legs,         \* pieces of content a fork copies after the anchor
    MaxRandomAttempts,  \* ownership._MAX_RANDOM_ATTEMPTS
    Faults,       \* which of FaultKinds happen
    MaxFaults,    \* bound: failed or unanswered store calls
    MaxCrashes,   \* bound: processes that die
    MaxRemovals,  \* bound: deletions of a pack's content
    MaxHandDeletes  \* bound: rows deleted by hand

Calls == Creators \cup Forkers
Procs == Calls \cup Repairers \cup Promoters \cup Restorers
Hosts == {HostOf[p] : p \in Procs}
Owners == {Owner[c] : c \in Calls}

\* "insert": the INSERT raises; "registry": another registry statement raises;
\* "probe": a graph read fails; "graph": a graph write is not acknowledged.
FaultKinds == {"insert", "registry", "probe", "graph"}

Nobody == "nobody"
NoSource == "none"

ASSUME ProcsAssumption ==
    /\ Creators \cap Forkers = {}
    /\ Calls \cap (Repairers \cup Promoters \cup Restorers) = {}
    /\ Repairers \cap (Promoters \cup Restorers) = {}
    /\ Promoters \cap Restorers = {}
    /\ Nobody \notin Procs

ASSUME CallsAssumption ==
    /\ Slugs # {}
    /\ Nobody \notin Owners
    /\ Requested \in [Calls -> Slugs]
    /\ NoSource \notin {Source[f] : f \in Forkers}

ASSUME BoundsAssumption ==
    /\ Legs \in Nat \ {0}
    /\ MaxRandomAttempts \in Nat
    /\ Faults \subseteq FaultKinds
    /\ MaxFaults \in Nat
    /\ MaxCrashes \in Nat
    /\ MaxRemovals \in Nat
    /\ MaxHandDeletes \in Nat

VARIABLES
    row,       \* the packs table
    anchor,    \* who the node in each pack's anchor slot belongs to
    copied,    \* the legs of a fork's copy present in the stores
    late,      \* packs whose anchor write may still commit
    lock,      \* holder of each data directory's write.lock
    pc,        \* where each process is
    loc,       \* its local variables
    faults, crashes, removals, handDeletes,
    purged,      \* history: packs whose content delete_pack removed
    handDeleted  \* history: packs whose row was deleted by hand

vars == <<row, anchor, copied, late, lock, pc, loc, faults, crashes, removals,
          handDeletes, purged, handDeleted>>

graphVars == <<anchor, copied, late>>
envVars == <<crashes, removals, handDeletes, purged, handDeleted>>

-----------------------------------------------------------------------------
Statuses == {"free", "creating", "ready", "partial"}

\* A row: owner_id, status, forked_from, and whether updated_at is older than
\* the threshold of the repair pass.  Status "free" stands for no row.
Rows == [owner : Owners \cup {Nobody}, status : Statuses,
         forked : {Source[f] : f \in Forkers} \cup {NoSource}, stale : BOOLEAN]
Free == [owner |-> Nobody, status |-> "free", forked |-> NoSource, stale |-> FALSE]

CreatePc == {"probe", "insert", "adopt", "identity", "discard", "anchor",
             "reprobe", "demote", "ready", "reconcile", "reregister",
             "reinsert", "ingest"}
ForkPc == {"probe", "insert", "adopt", "identity", "discard", "anchor", "copy",
           "demote", "ready", "reconcile"}
Ended == {"ok", "error", "dead"}
RepairPc == {"rows", "apply"}
AllPc == {"idle", "promote", "restore"} \cup CreatePc \cup ForkPc \cup RepairPc \cup Ended

\* The program points of each kind of process.
PcOK ==
    /\ pc \in [Procs -> AllPc]
    /\ \A c \in Creators : pc[c] \in {"idle"} \cup CreatePc \cup Ended
    /\ \A f \in Forkers : pc[f] \in {"idle"} \cup ForkPc \cup Ended
    /\ \A r \in Repairers : pc[r] \in {"idle"} \cup RepairPc
    /\ \A p \in Promoters : pc[p] \in {"idle", "promote"}
    /\ \A e \in Restorers : pc[e] \in {"idle", "restore"}

\* Locals: the slug at hand, was_absent, slugs tried, legs written so far; for
\* the operator passes the slugs still to visit, the owner read, the verdict.
Locals == [slug : Slugs, free : BOOLEAN, tries : 0..MaxRandomAttempts,
           done : 0..Legs, todo : SUBSET Slugs, owner : Owners \cup {Nobody},
           verdict : {"none", "promote", "demote"}]

GraphOK ==
    /\ anchor \in [Slugs -> {"none", "own", "foreign"}]
    /\ copied \in [Slugs -> SUBSET (1..Legs)]
    /\ late \subseteq Slugs

EnvOK ==
    /\ faults \in 0..MaxFaults
    /\ crashes \in 0..MaxCrashes
    /\ removals \in 0..MaxRemovals
    /\ handDeletes \in 0..MaxHandDeletes
    /\ purged \subseteq Slugs
    /\ handDeleted \subseteq Slugs

\* Every variable stays in its domain, and every process at a point of its own code.
TypeOK ==
    /\ row \in [Slugs -> Rows]
    /\ GraphOK
    /\ lock \in [Hosts -> Procs \cup {Nobody}]
    /\ PcOK
    /\ loc \in [Procs -> Locals]
    /\ EnvOK

\* No orphans at start: the server refuses to boot with one.  The anchor slot
\* of an unregistered pack may hold a node of another pack.
Init ==
    /\ row = [s \in Slugs |-> Free]
    /\ anchor \in [Slugs -> {"none", "foreign"}]
    /\ copied = [s \in Slugs |-> {}]
    /\ late = {}
    /\ lock = [h \in Hosts |-> Nobody]
    /\ pc = [p \in Procs |-> "idle"]
    /\ loc = [p \in Procs |->
                [slug |-> IF p \in Calls THEN Requested[p]
                                          ELSE CHOOSE s \in Slugs : TRUE,
                 free |-> FALSE, tries |-> 0, done |-> 0, todo |-> {},
                 owner |-> Nobody, verdict |-> "none"]]
    /\ faults = 0
    /\ crashes = 0
    /\ removals = 0
    /\ handDeletes = 0
    /\ purged = {}
    /\ handDeleted = {}

-----------------------------------------------------------------------------
(* Shared steps.                                                           *)

Goto(p, label) == pc' = [pc EXCEPT ![p] = label]
Acquire(p) ==
    /\ lock[HostOf[p]] = Nobody
    /\ lock' = [lock EXCEPT ![HostOf[p]] = p]
\* Mutant: the lock outlives the handler.
KeepLock(p) == UNCHANGED lock

Release(p) == lock' = [lock EXCEPT ![HostOf[p]] = Nobody]
\* The handler returns: its lock goes with it.
Finish(p, label) == Goto(p, label) /\ Release(p)
Continue(p, label) == Goto(p, label) /\ UNCHANGED lock

Fault(kind) ==
    /\ kind \in Faults
    /\ faults < MaxFaults
    /\ faults' = faults + 1
NoFault == UNCHANGED faults

SetRow(s, r) == row' = [row EXCEPT ![s] = r]
SetLoc(p, l) == loc' = [loc EXCEPT ![p] = l]
\* UPDATE packs SET status = new, updated_at = now WHERE ... status = old.
Matches(s, owner, old) == row[s].owner = owner /\ row[s].status = old
MoveIf(s, owner, old, new) ==
    IF Matches(s, owner, old)
    THEN SetRow(s, [row[s] EXCEPT !.status = new, !.stale = FALSE])
    ELSE UNCHANGED row

SourceOf(c) == IF c \in Forkers THEN Source[c] ELSE NoSource
NewRow(c, status) ==
    [owner |-> Owner[c], status |-> status, forked |-> SourceOf(c), stale |-> FALSE]

\* A read of the graph anchor: present, absent, or a failed read.
ProbeFails == Fault("probe")
AnchorPresent(s) == anchor[s] = "own" /\ NoFault
AnchorAbsent(s) == anchor[s] # "own" /\ NoFault

\* What a graph write of s's anchor that was not acknowledged may have done.
WriteUnacknowledged(s) ==
    \/ anchor' = [anchor EXCEPT ![s] = "own"] /\ UNCHANGED late
    \/ UNCHANGED <<anchor, late>>
    \/ late' = late \cup {s} /\ UNCHANGED anchor

-----------------------------------------------------------------------------
(* Reserving a slug: begin_pack_creation, for pack_create and pack_fork.   *)

StartCall(c) ==
    /\ pc[c] = "idle"
    /\ Acquire(c)
    /\ Goto(c, "probe")
    /\ UNCHANGED <<row, graphVars, loc, faults, envVars>>

\* was_absent, read before the INSERT: an unreadable registry is no evidence.
ReserveProbe(c) ==
    /\ pc[c] = "probe"
    /\ \/ NoFault /\ SetLoc(c, [loc[c] EXCEPT !.free = (row[loc[c].slug].status = "free")])
       \/ Fault("registry") /\ SetLoc(c, [loc[c] EXCEPT !.free = FALSE])
    /\ Continue(c, "insert")
    /\ UNCHANGED <<row, graphVars, envVars>>

\* Mutant: one candidate too many.
RetryOnceMore(c) == loc[c].tries <= MaxRandomAttempts

RetriesLeft(c) == loc[c].tries < MaxRandomAttempts

ReserveInsert(c) ==
    LET s == loc[c].slug
        taken == row[s].status # "free"
    IN  /\ pc[c] = "insert"
        /\ \/ /\ ~taken
              /\ NoFault
              /\ SetRow(s, NewRow(c, "creating"))
              /\ Continue(c, "identity")
              /\ UNCHANGED loc
           \/ /\ taken
              /\ NoFault
              /\ RetriesLeft(c)
              /\ \E t \in Slugs :
                    SetLoc(c, [loc[c] EXCEPT !.slug = t, !.tries = @ + 1])
              /\ Continue(c, "probe")
              /\ UNCHANGED row
           \/ /\ taken
              /\ NoFault
              /\ ~RetriesLeft(c)
              /\ Finish(c, "error")
              /\ UNCHANGED <<row, loc>>
           \/ /\ Fault("insert")
              /\ \/ UNCHANGED row
                 \/ ~taken /\ SetRow(s, NewRow(c, "creating"))
              /\ IF loc[c].free THEN Continue(c, "adopt") ELSE Finish(c, "error")
              /\ UNCHANGED loc
        /\ UNCHANGED <<graphVars, envVars>>

\* The INSERT raised at an id that was free: _row_is_ours decides.
Adopt(c) ==
    /\ pc[c] = "adopt"
    /\ \/ /\ NoFault
          /\ IF Matches(loc[c].slug, Owner[c], "creating")
             THEN Continue(c, "identity") ELSE Finish(c, "error")
       \/ Fault("registry") /\ Finish(c, "error")
    /\ UNCHANGED <<row, graphVars, loc, envVars>>

\* Before any writer runs: the anchor slot must not be another pack's, and the
\* destination of a fork must be empty.
SlotUsable(c, s) ==
    /\ anchor[s] # "foreign"
    /\ c \in Forkers => anchor[s] = "none" /\ copied[s] = {}

Identity(c) ==
    /\ pc[c] = "identity"
    /\ \/ NoFault /\ Continue(c, IF SlotUsable(c, loc[c].slug) THEN "anchor" ELSE "discard")
       \/ ProbeFails /\ Continue(c, "discard")
    /\ UNCHANGED <<row, graphVars, loc, envVars>>

\* The one delete of the registry row.  pack_create demotes when it fails.
Discard(c) ==
    LET s == loc[c].slug
        delete == IF Matches(s, Owner[c], "creating") THEN SetRow(s, Free) ELSE UNCHANGED row
        undeleted == IF c \in Creators THEN Continue(c, "demote") ELSE Finish(c, "error")
    IN  /\ pc[c] = "discard"
        /\ \/ /\ NoFault
              /\ delete
              /\ IF Matches(s, Owner[c], "creating") THEN Finish(c, "error") ELSE undeleted
           \/ /\ Fault("registry")
              /\ delete \/ UNCHANGED row
              /\ undeleted
        /\ UNCHANGED <<graphVars, loc, envVars>>

-----------------------------------------------------------------------------
(* Writing the anchor, and what follows when the graph does not confirm it.*)

\* add_node(pack_anchor=True): authorized only inside the creating window, and
\* refused when the slot is another pack's.
AnchorWritable(c) ==
    /\ Matches(loc[c].slug, Owner[c], "creating")
    /\ anchor[loc[c].slug] # "foreign"

WriteAnchor(c) ==
    LET s == loc[c].slug
        unconfirmed == Continue(c, IF c \in Creators THEN "reprobe" ELSE "demote")
    IN  /\ pc[c] = "anchor"
        /\ \/ /\ AnchorWritable(c)
              /\ NoFault
              /\ anchor' = [anchor EXCEPT ![s] = "own"]
              /\ Continue(c, IF c \in Creators THEN "ready" ELSE "copy")
              /\ UNCHANGED late
           \/ /\ AnchorWritable(c)
              /\ Fault("graph")
              /\ WriteUnacknowledged(s)
              /\ unconfirmed
           \/ /\ ~AnchorWritable(c)
              /\ NoFault
              /\ unconfirmed
              /\ UNCHANGED <<anchor, late>>
        /\ UNCHANGED <<row, copied, loc, envVars>>

\* pack_create asks the graph again before it believes "not landed".
Reprobe(c) ==
    /\ pc[c] = "reprobe"
    /\ \/ AnchorPresent(loc[c].slug) /\ Continue(c, "ready")
       \/ AnchorAbsent(loc[c].slug) /\ Continue(c, "demote")
       \/ ProbeFails /\ Continue(c, "demote")
    /\ UNCHANGED <<row, graphVars, loc, envVars>>

\* Mutant: an attempt given up is deleted, as the identity conflict is.
DeleteAttempt(c) ==
    IF Matches(loc[c].slug, Owner[c], "creating") THEN SetRow(loc[c].slug, Free)
                                                 ELSE UNCHANGED row

MarkPartial(c) == MoveIf(loc[c].slug, Owner[c], "creating", "partial")

\* mark_pack_partial; whatever it answers, the call ends in an error.
Demote(c) ==
    /\ pc[c] = "demote"
    /\ \/ NoFault /\ MarkPartial(c)
       \/ Fault("registry") /\ (MarkPartial(c) \/ UNCHANGED row)
    /\ Finish(c, "error")
    /\ UNCHANGED <<graphVars, loc, envVars>>

\* pack_fork copies nodes, edges, sources and vectors, each write authorized
\* again, and re-reads the copy after the last.  A failure demotes.
CopyLeg(c) ==
    LET s == loc[c].slug
        leg == loc[c].done + 1
        open == Matches(s, Owner[c], "creating") /\ row[s].forked # NoSource
    IN  /\ pc[c] = "copy"
        /\ \/ /\ open
              /\ NoFault
              /\ copied' = [copied EXCEPT ![s] = copied[s] \cup {leg}]
              /\ SetLoc(c, [loc[c] EXCEPT !.done = leg])
              /\ Continue(c, IF leg = Legs THEN "ready" ELSE "copy")
           \/ /\ open
              /\ Fault("graph")
              /\ copied' \in {copied, [copied EXCEPT ![s] = @ \cup {leg}]}
              /\ Continue(c, "demote")
              /\ UNCHANGED loc
           \/ /\ ~open
              /\ NoFault
              /\ Continue(c, "demote")
              /\ UNCHANGED <<copied, loc>>
        /\ UNCHANGED <<row, anchor, late, envVars>>

-----------------------------------------------------------------------------
(* Finalizing: mark_pack_ready and the reconciliation of its answer.       *)

Succeed(c) == IF c \in Creators THEN Continue(c, "ingest") ELSE Finish(c, "ok")

\* Mutant: the answer of the transition is not looked at.
AssumeFinalized(c) == Succeed(c)

NotFinalized(c) == Continue(c, "reconcile")

MarkReady(c) ==
    LET s == loc[c].slug
        promote == MoveIf(s, Owner[c], "creating", "ready")
    IN  /\ pc[c] = "ready"
        /\ \/ /\ NoFault
              /\ promote
              /\ IF Matches(s, Owner[c], "creating") THEN Succeed(c) ELSE NotFinalized(c)
           \/ /\ Fault("registry")
              /\ promote \/ UNCHANGED row
              /\ NotFinalized(c)
        /\ UNCHANGED <<graphVars, loc, envVars>>

\* pack_create re-reads the row.  A row still creating is left for the repair
\* pass; a partial one is demoted again, which changes nothing.
ReconcileCreate(c) ==
    LET s == loc[c].slug
        ours == row[s].owner = Owner[c]
    IN  /\ c \in Creators
        /\ pc[c] = "reconcile"
        /\ \/ /\ NoFault
              /\ \/ row[s].status = "free" /\ Continue(c, "reregister")
                 \/ row[s].status # "free" /\ ~ours /\ Finish(c, "error")
                 \/ ours /\ row[s].status = "ready" /\ Continue(c, "ingest")
                 \/ ours /\ row[s].status = "creating" /\ Finish(c, "error")
                 \/ ours /\ row[s].status = "partial" /\ Continue(c, "demote")
           \/ Fault("registry") /\ Finish(c, "error")
        /\ UNCHANGED <<row, graphVars, loc, envVars>>

\* pack_fork trusts only a ready row of its own; anything else it demotes.
ReconcileFork(c) ==
    LET s == loc[c].slug
    IN  /\ c \in Forkers
        /\ pc[c] = "reconcile"
        /\ \/ /\ NoFault
              /\ IF Matches(s, Owner[c], "ready") /\ row[s].forked = Source[c]
                 THEN Finish(c, "ok") ELSE Continue(c, "demote")
           \/ Fault("registry") /\ Continue(c, "demote")
        /\ UNCHANGED <<row, graphVars, loc, envVars>>

\* The row vanished under the call: registered again, as ready, only when the
\* graph positively holds the anchor, and never over another row.
Reregister(c) ==
    /\ pc[c] = "reregister"
    /\ \/ AnchorPresent(loc[c].slug) /\ Continue(c, "reinsert")
       \/ AnchorAbsent(loc[c].slug) /\ Finish(c, "error")
       \/ ProbeFails /\ Finish(c, "error")
    /\ UNCHANGED <<row, graphVars, loc, envVars>>

Reinsert(c) ==
    LET s == loc[c].slug
        insert == IF row[s].status = "free" THEN SetRow(s, NewRow(c, "ready"))
                                            ELSE UNCHANGED row
    IN  /\ pc[c] = "reinsert"
        /\ \/ NoFault /\ insert
           \/ Fault("insert") /\ (insert \/ UNCHANGED row)
        /\ Finish(c, "error")
        /\ UNCHANGED <<graphVars, loc, envVars>>

\* The rest of pack_create ingests into the ready pack and touches no row.
Ingest(c) ==
    /\ pc[c] = "ingest"
    /\ Finish(c, "ok")
    /\ UNCHANGED <<row, graphVars, loc, faults, envVars>>

Call(c) ==
    \/ ReserveProbe(c) \/ ReserveInsert(c) \/ Adopt(c) \/ Identity(c)
    \/ Discard(c) \/ WriteAnchor(c) \/ Reprobe(c) \/ Demote(c) \/ CopyLeg(c)
    \/ MarkReady(c) \/ ReconcileCreate(c) \/ ReconcileFork(c)
    \/ Reregister(c) \/ Reinsert(c) \/ Ingest(c)

-----------------------------------------------------------------------------
(* The operators' passes.                                                  *)

\* Mutants: the age read before the lock is not read again; forks are passed over.
DueAtScan(s) == row[s].status = "creating"
DueUnlessForked(s) == row[s].status = "creating" /\ row[s].stale /\ row[s].forked = NoSource

\* A row the pass may act on.
Due(s) == row[s].status = "creating" /\ row[s].stale

\* repair_incomplete_packs selects its candidates without the lock.
Scan(r) ==
    LET candidates == {s \in Slugs : row[s].status = "creating" /\ row[s].stale}
    IN  /\ pc[r] = "idle"
        /\ candidates # {}
        /\ SetLoc(r, [loc[r] EXCEPT !.todo = candidates])
        /\ Goto(r, "rows")
        /\ UNCHANGED <<row, graphVars, lock, faults, envVars>>

RowsLeft(todo) == IF todo = {} THEN "idle" ELSE "rows"

\* Under the lock the row and its age are read again, then judged: a forked
\* row is demoted whatever the graph says, any other goes by the graph.
RepairSkip(r, s) ==
    /\ pc[r] = "rows"
    /\ s \in loc[r].todo
    /\ lock[HostOf[r]] = Nobody
    /\ \/ NoFault /\ ~Due(s)
       \/ ProbeFails /\ Due(s) /\ row[s].forked = NoSource
    /\ SetLoc(r, [loc[r] EXCEPT !.todo = @ \ {s}])
    /\ Goto(r, RowsLeft(loc[r].todo \ {s}))
    /\ UNCHANGED <<row, graphVars, lock, envVars>>

\* Mutants: a forked row goes by the graph too; age alone promotes.
VerdictByAnchor(s) == IF anchor[s] = "own" THEN "promote" ELSE "demote"
VerdictByAge(s) == IF row[s].forked = NoSource THEN "promote" ELSE "demote"

Verdict(s) ==
    IF row[s].forked = NoSource /\ anchor[s] = "own" THEN "promote" ELSE "demote"

RepairJudge(r, s) ==
    /\ pc[r] = "rows"
    /\ s \in loc[r].todo
    /\ Due(s)
    /\ Acquire(r)
    /\ SetLoc(r, [loc[r] EXCEPT !.slug = s, !.todo = @ \ {s},
                                !.owner = row[s].owner, !.verdict = Verdict(s)])
    /\ Goto(r, "apply")
    /\ UNCHANGED <<row, graphVars, faults, envVars>>

\* The transition pins owner and status; if it raises, the pass ends.
RepairApply(r) ==
    LET s == loc[r].slug
        new == IF loc[r].verdict = "promote" THEN "ready" ELSE "partial"
        apply == MoveIf(s, loc[r].owner, "creating", new)
    IN  /\ pc[r] = "apply"
        /\ \/ NoFault /\ apply /\ Finish(r, RowsLeft(loc[r].todo))
           \/ Fault("registry") /\ (apply \/ UNCHANGED row) /\ Finish(r, "idle")
        /\ SetLoc(r, [loc[r] EXCEPT !.verdict = "none"])
        /\ UNCHANGED <<graphVars, envVars>>

Repair(r) == Scan(r) \/ RepairApply(r) \/ \E s \in Slugs : RepairSkip(r, s) \/ RepairJudge(r, s)

\* --promote: only a partial row that is no fork, with its anchor present.
PromoteJudge(p, s) ==
    /\ pc[p] = "idle"
    /\ row[s].status = "partial"
    /\ row[s].forked = NoSource
    /\ anchor[s] = "own"
    /\ Acquire(p)
    /\ SetLoc(p, [loc[p] EXCEPT !.slug = s, !.owner = row[s].owner])
    /\ Goto(p, "promote")
    /\ UNCHANGED <<row, graphVars, faults, envVars>>

\* promote_partial_pack refuses a forked row of that owner.
PromoteApply(p) ==
    LET s == loc[p].slug
        promote == IF row[s].forked = NoSource
                   THEN MoveIf(s, loc[p].owner, "partial", "ready") ELSE UNCHANGED row
    IN  /\ pc[p] = "promote"
        /\ \/ NoFault /\ promote
           \/ Fault("registry") /\ (promote \/ UNCHANGED row)
        /\ Finish(p, "idle")
        /\ UNCHANGED <<graphVars, loc, envVars>>

\* ensure_anchor writes the missing anchor of a ready pack.
EnsureJudge(e, s) ==
    /\ pc[e] = "idle"
    /\ row[s].status = "ready"
    /\ anchor[s] = "none"
    /\ Acquire(e)
    /\ SetLoc(e, [loc[e] EXCEPT !.slug = s, !.owner = row[s].owner])
    /\ Goto(e, "restore")
    /\ UNCHANGED <<row, graphVars, faults, envVars>>

EnsureWrite(e) ==
    LET s == loc[e].slug
        open == Matches(s, loc[e].owner, "ready") /\ anchor[s] # "foreign"
    IN  /\ pc[e] = "restore"
        /\ \/ open /\ NoFault /\ anchor' = [anchor EXCEPT ![s] = "own"] /\ UNCHANGED late
           \/ open /\ Fault("graph") /\ WriteUnacknowledged(s)
           \/ ~open /\ NoFault /\ UNCHANGED <<anchor, late>>
        /\ Finish(e, "idle")
        /\ UNCHANGED <<row, copied, loc, envVars>>

-----------------------------------------------------------------------------
(* The environment.                                                        *)

\* A process dies; the operating system frees its lock.
Crash(p) ==
    /\ crashes < MaxCrashes
    /\ lock[HostOf[p]] = p
    /\ crashes' = crashes + 1
    /\ Finish(p, IF p \in Calls THEN "dead" ELSE "idle")
    /\ UNCHANGED <<row, graphVars, loc, faults, removals, handDeletes,
                  purged, handDeleted>>

\* updated_at falls behind the repair threshold.
Age(s) ==
    /\ row[s].status = "creating"
    /\ ~row[s].stale
    /\ SetRow(s, [row[s] EXCEPT !.stale = TRUE])
    /\ UNCHANGED <<graphVars, lock, pc, loc, faults, envVars>>

\* A slow graph backend commits the write after all, or drops it.
LateCommit(s) ==
    /\ s \in late
    /\ late' = late \ {s}
    /\ anchor' \in {anchor, [anchor EXCEPT ![s] = "own"]}
    /\ UNCHANGED <<row, copied, lock, pc, loc, faults, envVars>>

\* The owner deletes the pack's content: delete_pack holds a lock of its own
\* and leaves the row, whatever its status.
DeleteContent(s) ==
    /\ removals < MaxRemovals
    /\ row[s].status # "free"
    /\ removals' = removals + 1
    /\ anchor' = [anchor EXCEPT ![s] = IF @ = "own" THEN "none" ELSE @]
    /\ copied' = [copied EXCEPT ![s] = {}]
    /\ purged' = purged \cup {s}
    /\ UNCHANGED <<row, late, lock, pc, loc, faults, crashes,
                  handDeletes, handDeleted>>

\* An operator deletes a row by hand (DELETE FROM packs).
DeleteRow(s) ==
    /\ handDeletes < MaxHandDeletes
    /\ row[s].status # "free"
    /\ handDeletes' = handDeletes + 1
    /\ SetRow(s, Free)
    /\ handDeleted' = handDeleted \cup {s}
    /\ UNCHANGED <<graphVars, lock, pc, loc, faults, crashes, removals, purged>>

Next ==
    \/ \E c \in Calls : StartCall(c) \/ Call(c)
    \/ \E r \in Repairers : Repair(r)
    \/ \E p \in Promoters : PromoteApply(p) \/ \E s \in Slugs : PromoteJudge(p, s)
    \/ \E e \in Restorers : EnsureWrite(e) \/ \E s \in Slugs : EnsureJudge(e, s)
    \/ \E p \in Procs : Crash(p)
    \/ \E s \in Slugs : Age(s) \/ LateCommit(s) \/ DeleteContent(s) \/ DeleteRow(s)

Spec == Init /\ [][Next]_vars

\* A running call goes on until it ends; time passes; the operator's repair
\* pass is run again and again, and gets the lock when it is free often enough.
Fairness ==
    /\ \A c \in Calls : WF_vars(Call(c))
    /\ \A r \in Repairers : SF_vars(Repair(r))
    /\ \A p \in Promoters : WF_vars(PromoteApply(p))
    /\ \A e \in Restorers : WF_vars(EnsureWrite(e))
    /\ \A s \in Slugs : WF_vars(Age(s))

LiveSpec == Spec /\ Fairness

-----------------------------------------------------------------------------
(* Properties.                                                             *)

\* A pack visible to readers has its anchor in the graph, unless its owner
\* deleted its content since.
ReadyHasAnchor ==
    \A s \in Slugs : row[s].status = "ready" => anchor[s] = "own" \/ s \in purged

\* What ReadyHasAnchor rests on.  Whoever is about to make a row ready has seen
\* the anchor, and only a content deletion takes it away again.
Kept(s) == anchor[s] = "own" \/ s \in purged
AnchorSeen ==
    /\ \A c \in Calls : pc[c] \in {"copy", "ready", "reinsert"} => Kept(loc[c].slug)
    /\ \A r \in Repairers :
          pc[r] = "apply" /\ loc[r].verdict = "promote" => Kept(loc[r].slug)
    /\ \A p \in Promoters : pc[p] = "promote" => Kept(loc[p].slug)

\* A fork still copying has legs left.
BeforeReady == {"idle", "probe", "insert", "adopt", "identity", "discard", "anchor", "copy"}
LegsLeft == \A f \in Forkers : pc[f] \in BeforeReady => loc[f].done < Legs

IInv == TypeOK /\ LegsLeft /\ ReadyHasAnchor /\ AnchorSeen

\* A fork is visible only when every leg of the copy is there: a half copy is
\* never promoted, by the fork, by the repair pass or by an operator.
ForkReadyIsComplete ==
    \A s \in Slugs : row[s].status = "ready" /\ row[s].forked # NoSource =>
                        copied[s] = 1..Legs \/ s \in purged

\* An anchor in the graph, or one that may still land there, has a registry
\* row: otherwise the server refuses to boot.  Only a hand-made DELETE breaks it.
NoOrphan ==
    \A s \in Slugs : anchor[s] = "own" \/ s \in late \/ copied[s] # {} =>
                        row[s].status # "free" \/ s \in handDeleted

\* A pack_create or pack_fork that answers "ok" leaves a ready pack of its
\* caller behind, unless an operator deleted the row.
OkMeansReady ==
    \A c \in Calls : pc[c] \in {"ok", "ingest"} =>
        \/ Matches(loc[c].slug, Owner[c], "ready") /\ row[loc[c].slug].forked = SourceOf(c)
        \/ loc[c].slug \in handDeleted

\* The repair pass never moves a row younger than its threshold, so it keeps
\* off calls in flight, though it picked its candidates before the lock.
RepairSparesYoung ==
    [][\A r \in Repairers : \A s \in Slugs :
          RepairApply(r) /\ row'[s] # row[s] => row[s].stale]_vars

\* Only the pack_fork call that wrote every leg makes a forked row ready.
OnlyTheForkPromotes ==
    [][\A s \in Slugs :
          row[s].forked # NoSource /\ row[s].status # "ready" /\ row'[s].status = "ready"
          => \E f \in Forkers : pc[f] = "ready" /\ loc[f].slug = s /\ loc[f].done = Legs]_vars

\* Every call that got the lock ends, and gives the lock back.
CallsEnd ==
    \A c \in Calls : lock[HostOf[c]] = c ~> pc[c] \in Ended /\ lock[HostOf[c]] # c

\* A reservation is never left creating for good: a call that died, or whose
\* own transition failed, is promoted or demoted by the repair pass.
NoRowStaysCreating ==
    \A s \in Slugs : row[s].status = "creating" ~> row[s].status # "creating"
=============================================================================
