------------------------ MODULE PackLifecycle_proofs ------------------------
(***************************************************************************)
(* Proofs about PackLifecycle, for any number of packs, calls, operators   *)
(* and hosts, every kind of fault and any bounds.                          *)
(***************************************************************************)
EXTENDS MCPackLifecycle, TLAPS

CommonPc == {"probe", "insert", "adopt", "identity", "discard", "anchor",
             "demote", "ready", "reconcile"} \cup Ended

-----------------------------------------------------------------------------
(* What the shared steps do to the domains.                                *)

LEMMA CallGoto ==
    ASSUME PcOK, NEW c \in Calls, NEW l \in CommonPc, Goto(c, l)
    PROVE  PcOK'
BY ProcsAssumption
DEF PcOK, Goto, CommonPc, Ended, AllPc, CreatePc, ForkPc, RepairPc, Calls, Procs

LEMMA CreatorGoto ==
    ASSUME PcOK, NEW c \in Creators, NEW l \in CreatePc \cup Ended, Goto(c, l)
    PROVE  PcOK'
BY ProcsAssumption
DEF PcOK, Goto, Ended, AllPc, CreatePc, ForkPc, RepairPc, Calls, Procs

LEMMA ForkerGoto ==
    ASSUME PcOK, NEW f \in Forkers, NEW l \in ForkPc \cup Ended, Goto(f, l)
    PROVE  PcOK'
BY ProcsAssumption
DEF PcOK, Goto, Ended, AllPc, CreatePc, ForkPc, RepairPc, Calls, Procs

LEMMA RepairerGoto ==
    ASSUME PcOK, NEW r \in Repairers, NEW l \in {"idle"} \cup RepairPc, Goto(r, l)
    PROVE  PcOK'
BY ProcsAssumption
DEF PcOK, Goto, Ended, AllPc, CreatePc, ForkPc, RepairPc, Calls, Procs

LEMMA PromoterGoto ==
    ASSUME PcOK, NEW p \in Promoters, NEW l \in {"idle", "promote"}, Goto(p, l)
    PROVE  PcOK'
BY ProcsAssumption
DEF PcOK, Goto, Ended, AllPc, CreatePc, ForkPc, RepairPc, Calls, Procs

LEMMA RestorerGoto ==
    ASSUME PcOK, NEW e \in Restorers, NEW l \in {"idle", "restore"}, Goto(e, l)
    PROVE  PcOK'
BY ProcsAssumption
DEF PcOK, Goto, Ended, AllPc, CreatePc, ForkPc, RepairPc, Calls, Procs

LEMMA LockType ==
    ASSUME TypeOK, NEW p \in Procs, Acquire(p) \/ Release(p) \/ UNCHANGED lock
    PROVE  lock' \in [Hosts -> Procs \cup {Nobody}]
BY DEF TypeOK, Acquire, Release

LEMMA FaultType ==
    ASSUME EnvOK, NoFault \/ \E kind \in FaultKinds : Fault(kind)
    PROVE  faults' \in 0..MaxFaults
BY BoundsAssumption DEF EnvOK, NoFault, Fault

LEMMA RowTypes ==
    /\ Free \in Rows
    /\ \A c \in Calls : NewRow(c, "creating") \in Rows /\ NewRow(c, "ready") \in Rows
BY DEF Free, Rows, NewRow, Statuses, Owners, SourceOf

LEMMA SetRowType ==
    ASSUME TypeOK, NEW s \in Slugs, NEW r \in Rows, SetRow(s, r)
    PROVE  row' \in [Slugs -> Rows]
BY DEF TypeOK, SetRow

LEMMA MoveType ==
    ASSUME TypeOK, NEW s \in Slugs, NEW owner, NEW old,
           NEW new \in Statuses, MoveIf(s, owner, old, new)
    PROVE  row' \in [Slugs -> Rows]
BY SetRowType DEF TypeOK, Rows, MoveIf

LEMMA LocType ==
    ASSUME TypeOK, NEW p \in Procs, NEW l \in Locals, SetLoc(p, l)
    PROVE  loc' \in [Procs -> Locals]
BY DEF TypeOK, SetLoc

LEMMA SlugType ==
    ASSUME TypeOK, NEW p \in Procs
    PROVE  loc[p] \in Locals /\ loc[p].slug \in Slugs
BY DEF TypeOK, Locals

LEMMA AnchorType ==
    ASSUME TypeOK, NEW s \in Slugs,
           WriteUnacknowledged(s) \/ (anchor' = [anchor EXCEPT ![s] = "own"] /\ UNCHANGED late)
    PROVE  anchor' \in [Slugs -> {"none", "own", "foreign"}] /\ late' \subseteq Slugs
BY DEF TypeOK, GraphOK, WriteUnacknowledged

LEMMA CallProcs ==
    /\ Calls \subseteq Procs
    /\ Repairers \subseteq Procs
    /\ Promoters \subseteq Procs
    /\ Restorers \subseteq Procs
BY DEF Procs, Calls

-----------------------------------------------------------------------------
(* TypeOK is kept by every step.  LegsLeft is what keeps a leg in 1..Legs. *)

LEMMA ReserveType ==
    ASSUME TypeOK, NEW c \in Calls,
           StartCall(c) \/ ReserveProbe(c) \/ ReserveInsert(c) \/ Adopt(c)
    PROVE  TypeOK'
<1> USE CallProcs DEF Continue, Finish, envVars, graphVars
<1>0. loc[c] \in Locals /\ loc[c].slug \in Slugs
  BY SlugType
<1>1. CASE StartCall(c)
  BY <1>1, CallGoto, LockType DEF StartCall, CommonPc, TypeOK, GraphOK, EnvOK
<1>2. CASE ReserveProbe(c)
  <2>1. PcOK'
    BY <1>2, CallGoto DEF ReserveProbe, CommonPc, TypeOK
  <2>2. faults' \in 0..MaxFaults
    BY <1>2, FaultType DEF ReserveProbe, TypeOK, FaultKinds
  <2>3. loc' \in [Procs -> Locals]
    BY <1>0, <1>2, LocType DEF Locals, ReserveProbe
  <2> QED BY <1>2, <2>1, <2>2, <2>3 DEF ReserveProbe, TypeOK, GraphOK, EnvOK
<1>3. CASE ReserveInsert(c)
  <2>1. PcOK'
    BY <1>3, CallGoto DEF ReserveInsert, CommonPc, Ended, TypeOK
  <2>2. faults' \in 0..MaxFaults
    BY <1>3, FaultType DEF ReserveInsert, TypeOK, FaultKinds
  <2>3. loc' \in [Procs -> Locals]
    <3>1. ASSUME NEW t \in Slugs, RetriesLeft(c)
          PROVE  [loc[c] EXCEPT !.slug = t, !.tries = @ + 1] \in Locals
      <4>1. loc[c].tries + 1 \in 0..MaxRandomAttempts
        BY <1>0, <3>1, BoundsAssumption DEF Locals, RetriesLeft
      <4>2. \A n \in 0..MaxRandomAttempts : [loc[c] EXCEPT !.slug = t, !.tries = n] \in Locals
        BY <1>0 DEF Locals
      <4> QED BY <4>1, <4>2
    <3>2. CASE UNCHANGED loc
      BY <3>2 DEF TypeOK
    <3>3. CASE RetriesLeft(c) /\ \E t \in Slugs :
                  SetLoc(c, [loc[c] EXCEPT !.slug = t, !.tries = @ + 1])
      BY <3>3, <3>1, LocType
    <3> QED BY <1>3, <3>2, <3>3 DEF ReserveInsert
  <2>4. row' \in [Slugs -> Rows]
    BY <1>0, <1>3, RowTypes, SetRowType DEF ReserveInsert, TypeOK
  <2>5. lock' \in [Hosts -> Procs \cup {Nobody}]
    BY <1>3, LockType DEF ReserveInsert
  <2> QED BY <1>3, <2>1, <2>2, <2>3, <2>4, <2>5 DEF ReserveInsert, TypeOK, GraphOK, EnvOK
<1>4. CASE Adopt(c)
  <2>1. PcOK'
    BY <1>4, CallGoto DEF Adopt, CommonPc, Ended, TypeOK
  <2>2. faults' \in 0..MaxFaults
    BY <1>4, FaultType DEF Adopt, TypeOK, FaultKinds
  <2>3. lock' \in [Hosts -> Procs \cup {Nobody}]
    BY <1>4, LockType DEF Adopt
  <2> QED BY <1>4, <2>1, <2>2, <2>3 DEF Adopt, TypeOK, GraphOK, EnvOK
<1> QED BY <1>1, <1>2, <1>3, <1>4

LEMMA AnchorStepsType ==
    ASSUME TypeOK, NEW c \in Calls,
           Identity(c) \/ Discard(c) \/ WriteAnchor(c) \/ Reprobe(c) \/ Demote(c)
    PROVE  TypeOK'
<1> USE CallProcs DEF Continue, Finish, envVars, graphVars
<1>0. loc[c] \in Locals /\ loc[c].slug \in Slugs
  BY SlugType
<1>1. CASE Identity(c)
  <2>1. PcOK'
    BY <1>1, CallGoto DEF Identity, CommonPc, TypeOK
  <2>2. faults' \in 0..MaxFaults
    BY <1>1, FaultType DEF Identity, ProbeFails, TypeOK, FaultKinds
  <2> QED BY <1>1, <2>1, <2>2 DEF Identity, TypeOK, GraphOK, EnvOK
<1>2. CASE Discard(c)
  <2>1. PcOK'
    BY <1>2, CallGoto DEF Discard, CommonPc, Ended, TypeOK
  <2>2. faults' \in 0..MaxFaults
    BY <1>2, FaultType DEF Discard, TypeOK, FaultKinds
  <2>3. row' \in [Slugs -> Rows]
    BY <1>0, <1>2, RowTypes, SetRowType DEF Discard, TypeOK
  <2>4. lock' \in [Hosts -> Procs \cup {Nobody}]
    BY <1>2, LockType DEF Discard
  <2> QED BY <1>2, <2>1, <2>2, <2>3, <2>4 DEF Discard, TypeOK, GraphOK, EnvOK
<1>3. CASE WriteAnchor(c)
  <2>1. PcOK'
    <3>1. CASE c \in Creators
      BY <1>3, <3>1, CreatorGoto DEF WriteAnchor, CreatePc, TypeOK
    <3>2. CASE c \in Forkers
      BY <1>3, <3>2, ProcsAssumption, ForkerGoto DEF WriteAnchor, ForkPc, TypeOK
    <3> QED BY <3>1, <3>2 DEF Calls
  <2>2. faults' \in 0..MaxFaults
    BY <1>3, FaultType DEF WriteAnchor, TypeOK, FaultKinds
  <2>3. anchor' \in [Slugs -> {"none", "own", "foreign"}] /\ late' \subseteq Slugs
    BY <1>0, <1>3, AnchorType DEF WriteAnchor, TypeOK, GraphOK
  <2>4. UNCHANGED <<row, copied, lock, loc, crashes, removals, handDeletes, purged, handDeleted>>
    BY <1>3 DEF WriteAnchor
  <2> QED BY <2>1, <2>2, <2>3, <2>4 DEF TypeOK, GraphOK, EnvOK
<1>4. CASE Reprobe(c)
  <2>1. PcOK'
    BY <1>4, CallGoto DEF Reprobe, CommonPc, TypeOK
  <2>2. faults' \in 0..MaxFaults
    BY <1>4, FaultType DEF Reprobe, ProbeFails, AnchorPresent, AnchorAbsent, TypeOK, FaultKinds
  <2> QED BY <1>4, <2>1, <2>2 DEF Reprobe, TypeOK, GraphOK, EnvOK
<1>5. CASE Demote(c)
  <2>1. PcOK'
    BY <1>5, CallGoto DEF Demote, CommonPc, Ended, TypeOK
  <2>2. faults' \in 0..MaxFaults
    BY <1>5, FaultType DEF Demote, TypeOK, FaultKinds
  <2>3. row' \in [Slugs -> Rows]
    BY <1>0, MoveType, <1>5 DEF TypeOK, MarkPartial, Statuses, Demote
  <2>4. lock' \in [Hosts -> Procs \cup {Nobody}]
    BY <1>5, LockType DEF Demote
  <2> QED BY <1>5, <2>1, <2>2, <2>3, <2>4 DEF Demote, TypeOK, GraphOK, EnvOK
<1> QED BY <1>1, <1>2, <1>3, <1>4, <1>5

LEMMA CopyType ==
    ASSUME TypeOK, LegsLeft, NEW f \in Calls, CopyLeg(f)
    PROVE  TypeOK'
<1> USE CallProcs DEF Continue, Finish, envVars, graphVars
<1>0. loc[f] \in Locals /\ loc[f].slug \in Slugs /\ loc[f].done \in 0..Legs
  BY SlugType DEF Locals
<1>1. f \in Forkers /\ pc[f] = "copy"
  BY DEF CopyLeg, TypeOK, PcOK, CreatePc, Ended, Calls
<1>2. loc[f].done + 1 \in 1..Legs
  BY <1>0, <1>1, BoundsAssumption DEF LegsLeft, BeforeReady
<1>3. PcOK'
  BY <1>1, ForkerGoto DEF CopyLeg, ForkPc, TypeOK
<1>4. faults' \in 0..MaxFaults
  BY FaultType DEF CopyLeg, TypeOK, FaultKinds
<1>5. copied' \in [Slugs -> SUBSET (1..Legs)]
  BY <1>0, <1>2 DEF TypeOK, GraphOK, CopyLeg
<1>6. loc' \in [Procs -> Locals]
  BY <1>0, <1>2, BoundsAssumption, LocType DEF Locals, CopyLeg, TypeOK
<1>7. UNCHANGED <<row, anchor, late, lock, crashes, removals, handDeletes, purged, handDeleted>>
  BY DEF CopyLeg
<1> QED BY <1>3, <1>4, <1>5, <1>6, <1>7 DEF TypeOK, GraphOK, EnvOK

LEMMA FinalizeType ==
    ASSUME TypeOK, NEW c \in Calls,
           MarkReady(c) \/ ReconcileCreate(c) \/ ReconcileFork(c)
               \/ Reregister(c) \/ Reinsert(c) \/ Ingest(c)
    PROVE  TypeOK'
<1> USE CallProcs DEF Continue, Finish, envVars, graphVars
<1>0. loc[c] \in Locals /\ loc[c].slug \in Slugs
  BY SlugType
<1>1. CASE MarkReady(c)
  <2>1. PcOK'
    <3>1. CASE c \in Creators
      BY <1>1, <3>1, CreatorGoto DEF MarkReady, Succeed, NotFinalized, CreatePc, TypeOK
    <3>2. CASE c \in Forkers
      <4>1. \E l \in {"ok", "reconcile"} : Goto(c, l)
        BY <1>1, <3>2, ProcsAssumption DEF MarkReady, Succeed, NotFinalized
      <4> QED BY <3>2, <4>1, ForkerGoto DEF ForkPc, Ended, TypeOK
    <3> QED BY <3>1, <3>2 DEF Calls
  <2>2. faults' \in 0..MaxFaults
    BY <1>1, FaultType DEF MarkReady, TypeOK, FaultKinds
  <2>3. row' \in [Slugs -> Rows]
    BY <1>1, <1>0, MoveType DEF MarkReady, Statuses, TypeOK
  <2>4. lock' \in [Hosts -> Procs \cup {Nobody}]
    BY <1>1, LockType DEF MarkReady, Succeed, NotFinalized
  <2>5. UNCHANGED <<graphVars, loc, envVars>>
    BY <1>1 DEF MarkReady
  <2> QED BY <2>1, <2>2, <2>3, <2>4, <2>5 DEF TypeOK, GraphOK, EnvOK
<1>2. CASE ReconcileCreate(c)
  <2>1. PcOK'
    BY <1>2, CreatorGoto DEF ReconcileCreate, CreatePc, Ended, TypeOK
  <2>2. faults' \in 0..MaxFaults
    BY <1>2, FaultType DEF ReconcileCreate, TypeOK, FaultKinds
  <2>3. lock' \in [Hosts -> Procs \cup {Nobody}]
    BY <1>2, LockType DEF ReconcileCreate
  <2> QED BY <1>2, <2>1, <2>2, <2>3 DEF ReconcileCreate, TypeOK, GraphOK, EnvOK
<1>3. CASE ReconcileFork(c)
  <2>1. PcOK'
    BY <1>3, CallGoto DEF ReconcileFork, CommonPc, Ended, TypeOK
  <2>2. faults' \in 0..MaxFaults
    BY <1>3, FaultType DEF ReconcileFork, TypeOK, FaultKinds
  <2>3. lock' \in [Hosts -> Procs \cup {Nobody}]
    BY <1>3, LockType DEF ReconcileFork
  <2> QED BY <1>3, <2>1, <2>2, <2>3 DEF ReconcileFork, TypeOK, GraphOK, EnvOK
<1>4. CASE Reregister(c)
  <2>0. c \in Creators
    BY <1>4 DEF Reregister, TypeOK, PcOK, ForkPc, Ended, Calls
  <2>1. PcOK'
    BY <1>4, <2>0, CreatorGoto DEF Reregister, CreatePc, Ended, TypeOK
  <2>2. faults' \in 0..MaxFaults
    BY <1>4, FaultType DEF Reregister, ProbeFails, AnchorPresent, AnchorAbsent, TypeOK, FaultKinds
  <2>3. lock' \in [Hosts -> Procs \cup {Nobody}]
    BY <1>4, LockType DEF Reregister
  <2> QED BY <1>4, <2>1, <2>2, <2>3 DEF Reregister, TypeOK, GraphOK, EnvOK
<1>5. CASE Reinsert(c)
  <2>1. PcOK'
    BY <1>5, CallGoto DEF Reinsert, CommonPc, Ended, TypeOK
  <2>2. faults' \in 0..MaxFaults
    BY <1>5, FaultType DEF Reinsert, TypeOK, FaultKinds
  <2>3. row' \in [Slugs -> Rows]
    BY <1>0, <1>5, RowTypes, SetRowType DEF Reinsert, TypeOK
  <2>4. lock' \in [Hosts -> Procs \cup {Nobody}]
    BY <1>5, LockType DEF Reinsert
  <2> QED BY <1>5, <2>1, <2>2, <2>3, <2>4 DEF Reinsert, TypeOK, GraphOK, EnvOK
<1>6. CASE Ingest(c)
  BY <1>6, CallGoto, LockType DEF Ingest, CommonPc, Ended, TypeOK, GraphOK, EnvOK
<1> QED BY <1>1, <1>2, <1>3, <1>4, <1>5, <1>6

LEMMA RepairType ==
    ASSUME TypeOK, NEW r \in Repairers, Repair(r)
    PROVE  TypeOK'
<1> USE CallProcs DEF Continue, Finish, envVars, graphVars
<1>0. loc[r] \in Locals /\ loc[r].slug \in Slugs
  BY SlugType
<1>a. \A todo \in SUBSET Slugs : RowsLeft(todo) \in {"idle"} \cup RepairPc
  BY DEF RowsLeft, RepairPc
<1>1. CASE Scan(r)
  <2>1. PcOK'
    BY <1>1, RepairerGoto DEF Scan, RepairPc, TypeOK
  <2>2. loc' \in [Procs -> Locals]
    <3> DEFINE due == {s \in Slugs : row[s].status = "creating" /\ row[s].stale}
    <3>1. due \in SUBSET Slugs
      OBVIOUS
    <3>2. SetLoc(r, [loc[r] EXCEPT !.todo = due])
      BY <1>1 DEF Scan
    <3> HIDE DEF due
    <3>3. [loc[r] EXCEPT !.todo = due] \in Locals
      BY <1>0, <3>1 DEF Locals
    <3> QED BY <3>2, <3>3, LocType
  <2> QED BY <1>1, <2>1, <2>2 DEF Scan, TypeOK, GraphOK, EnvOK
<1>2. ASSUME NEW s \in Slugs, RepairSkip(r, s) PROVE TypeOK'
  <2>0. loc[r].todo \ {s} \in SUBSET Slugs
    BY <1>0 DEF Locals
  <2>1. PcOK'
    BY <1>2, <1>a, <2>0, RepairerGoto DEF RepairSkip, TypeOK
  <2>2. faults' \in 0..MaxFaults
    BY <1>2, FaultType DEF RepairSkip, ProbeFails, TypeOK, FaultKinds
  <2>3. loc' \in [Procs -> Locals]
    BY <1>0, <2>0, <1>2, LocType DEF Locals, RepairSkip
  <2> QED BY <1>2, <2>1, <2>2, <2>3 DEF RepairSkip, TypeOK, GraphOK, EnvOK
<1>3. ASSUME NEW s \in Slugs, RepairJudge(r, s) PROVE TypeOK'
  <2>1. PcOK'
    BY <1>3, RepairerGoto DEF RepairJudge, RepairPc, TypeOK
  <2>2. lock' \in [Hosts -> Procs \cup {Nobody}]
    BY <1>3, LockType DEF RepairJudge
  <2>3. loc' \in [Procs -> Locals]
    <3> DEFINE todo == loc[r].todo \ {s}
               owner == row[s].owner
               verdict == Verdict(s)
    <3>1. todo \in SUBSET Slugs /\ owner \in Owners \cup {Nobody}
          /\ verdict \in {"none", "promote", "demote"}
      BY <1>0 DEF Locals, TypeOK, Rows, Verdict
    <3>2. SetLoc(r, [loc[r] EXCEPT !.slug = s, !.todo = todo, !.owner = owner,
                                   !.verdict = verdict])
      BY <1>3 DEF RepairJudge
    <3> HIDE DEF todo, owner, verdict
    <3>3. [loc[r] EXCEPT !.slug = s, !.todo = todo, !.owner = owner,
                         !.verdict = verdict] \in Locals
      BY <1>0, <3>1 DEF Locals
    <3> QED BY <3>2, <3>3, LocType
  <2> QED BY <1>3, <2>1, <2>2, <2>3 DEF RepairJudge, TypeOK, GraphOK, EnvOK
<1>4. CASE RepairApply(r)
  <2>1. PcOK'
    BY <1>0, <1>4, <1>a, RepairerGoto DEF Locals, RepairApply, TypeOK
  <2>2. faults' \in 0..MaxFaults
    BY <1>4, FaultType DEF RepairApply, TypeOK, FaultKinds
  <2>3. row' \in [Slugs -> Rows]
    BY <1>4, <1>0, MoveType DEF RepairApply, Statuses, TypeOK
  <2>4. lock' \in [Hosts -> Procs \cup {Nobody}]
    BY <1>4, LockType DEF RepairApply
  <2>5. loc' \in [Procs -> Locals]
    BY <1>0, <1>4, LocType DEF Locals, RepairApply
  <2>6. UNCHANGED <<graphVars, envVars>>
    BY <1>4 DEF RepairApply
  <2> QED BY <2>1, <2>2, <2>3, <2>4, <2>5, <2>6 DEF TypeOK, GraphOK, EnvOK
<1> QED BY <1>1, <1>2, <1>3, <1>4 DEF Repair

LEMMA PromoteType ==
    ASSUME TypeOK, NEW p \in Promoters, NEW s \in Slugs,
           PromoteJudge(p, s) \/ PromoteApply(p)
    PROVE  TypeOK'
<1> USE CallProcs DEF Continue, Finish, envVars, graphVars
<1>0. /\ loc[p] \in Locals /\ loc[p].slug \in Slugs
      /\ row[s].owner \in Owners \cup {Nobody}
  BY SlugType DEF TypeOK, Rows
<1>1. CASE PromoteJudge(p, s)
  <2>1. PcOK'
    BY <1>1, PromoterGoto DEF PromoteJudge, TypeOK
  <2>2. lock' \in [Hosts -> Procs \cup {Nobody}]
    BY <1>1, LockType DEF PromoteJudge
  <2>3. loc' \in [Procs -> Locals]
    BY <1>0, <1>1, LocType DEF Locals, PromoteJudge
  <2> QED BY <1>1, <2>1, <2>2, <2>3 DEF PromoteJudge, TypeOK, GraphOK, EnvOK
<1>2. CASE PromoteApply(p)
  <2>1. PcOK'
    BY <1>2, PromoterGoto DEF PromoteApply, TypeOK
  <2>2. faults' \in 0..MaxFaults
    BY <1>2, FaultType DEF PromoteApply, TypeOK, FaultKinds
  <2>3. row' \in [Slugs -> Rows]
    BY <1>2, <1>0, MoveType DEF PromoteApply, Statuses, TypeOK
  <2>4. lock' \in [Hosts -> Procs \cup {Nobody}]
    BY <1>2, LockType DEF PromoteApply
  <2>5. UNCHANGED <<graphVars, loc, envVars>>
    BY <1>2 DEF PromoteApply
  <2> QED BY <2>1, <2>2, <2>3, <2>4, <2>5 DEF TypeOK, GraphOK, EnvOK
<1> QED BY <1>1, <1>2

LEMMA EnsureType ==
    ASSUME TypeOK, NEW e \in Restorers, NEW s \in Slugs,
           EnsureJudge(e, s) \/ EnsureWrite(e)
    PROVE  TypeOK'
<1> USE CallProcs DEF Continue, Finish, envVars, graphVars
<1>0. /\ loc[e] \in Locals /\ loc[e].slug \in Slugs
      /\ row[s].owner \in Owners \cup {Nobody}
  BY SlugType DEF TypeOK, Rows
<1>1. CASE EnsureJudge(e, s)
  <2>1. PcOK'
    BY <1>1, RestorerGoto DEF EnsureJudge, TypeOK
  <2>2. lock' \in [Hosts -> Procs \cup {Nobody}]
    BY <1>1, LockType DEF EnsureJudge
  <2>3. loc' \in [Procs -> Locals]
    BY <1>0, <1>1, LocType DEF Locals, EnsureJudge
  <2> QED BY <1>1, <2>1, <2>2, <2>3 DEF EnsureJudge, TypeOK, GraphOK, EnvOK
<1>2. CASE EnsureWrite(e)
  <2>1. PcOK'
    BY <1>2, RestorerGoto DEF EnsureWrite, TypeOK
  <2>2. faults' \in 0..MaxFaults
    BY <1>2, FaultType DEF EnsureWrite, TypeOK, FaultKinds
  <2>3. anchor' \in [Slugs -> {"none", "own", "foreign"}] /\ late' \subseteq Slugs
    BY <1>0, <1>2, AnchorType DEF EnsureWrite, TypeOK, GraphOK
  <2>4. lock' \in [Hosts -> Procs \cup {Nobody}]
    BY <1>2, LockType DEF EnsureWrite
  <2>5. UNCHANGED <<row, copied, loc, envVars>>
    BY <1>2 DEF EnsureWrite
  <2> QED BY <2>1, <2>2, <2>3, <2>4, <2>5 DEF TypeOK, GraphOK, EnvOK
<1> QED BY <1>1, <1>2

LEMMA CrashType ==
    ASSUME TypeOK, NEW p \in Procs, Crash(p)
    PROVE  TypeOK'
<1>1. PcOK'
  <2>1. CASE p \in Calls
    BY <2>1, CallGoto DEF Crash, Finish, CommonPc, Ended, TypeOK
  <2>2. CASE p \in Repairers
    BY <2>2, ProcsAssumption, RepairerGoto DEF Crash, Finish, TypeOK
  <2>3. CASE p \in Promoters
    BY <2>3, ProcsAssumption, PromoterGoto DEF Crash, Finish, TypeOK
  <2>4. CASE p \in Restorers
    BY <2>4, ProcsAssumption, RestorerGoto DEF Crash, Finish, TypeOK
  <2> QED BY <2>1, <2>2, <2>3, <2>4 DEF Procs
<1>2. lock' \in [Hosts -> Procs \cup {Nobody}]
  BY LockType DEF Crash, Finish
<1>3. crashes' \in 0..MaxCrashes
  BY BoundsAssumption DEF Crash, TypeOK, EnvOK
<1> QED BY <1>1, <1>2, <1>3 DEF Crash, graphVars, TypeOK, GraphOK, EnvOK

LEMMA WorldType ==
    ASSUME TypeOK, NEW s \in Slugs,
           Age(s) \/ LateCommit(s) \/ DeleteContent(s) \/ DeleteRow(s)
    PROVE  TypeOK'
<1> USE DEF envVars, graphVars, TypeOK, GraphOK, EnvOK
<1>1. CASE Age(s)
  <2>1. [row[s] EXCEPT !.stale = TRUE] \in Rows
    BY DEF Rows
  <2> QED BY <1>1, <2>1, SetRowType DEF Age, PcOK
<1>2. CASE LateCommit(s)
  BY <1>2 DEF LateCommit, PcOK
<1>3. CASE DeleteContent(s)
  BY <1>3, BoundsAssumption DEF DeleteContent, PcOK
<1>4. CASE DeleteRow(s)
  BY <1>4, BoundsAssumption, RowTypes, SetRowType DEF DeleteRow, PcOK
<1> QED BY <1>1, <1>2, <1>3, <1>4

-----------------------------------------------------------------------------
(* What a step may do to the facts the invariant is made of.               *)

KeptNext(s) == anchor'[s] = "own" \/ s \in purged'

\* No other process moves.
OnlyMoves(p) == \A q \in Procs \ {p} : pc'[q] = pc[q] /\ loc'[q] = loc[q]

\* An anchor once seen stays, or its content was deleted.
AnchorsStay == \A s \in Slugs : Kept(s) => KeptNext(s)

\* A row becomes ready only where the anchor has been seen.
ReadyOnEvidence == \A s \in Slugs :
    row'[s].status = "ready" => row[s].status = "ready" \/ Kept(s)

\* What the acting call knows afterwards.
CallKnows(c) ==
    /\ pc'[c] \in {"copy", "ready", "reinsert"} => KeptNext(loc'[c].slug)
    /\ c \in Forkers /\ pc'[c] \in BeforeReady => loc'[c].done < Legs

Safe(p) == OnlyMoves(p) /\ AnchorsStay /\ ReadyOnEvidence

LEMMA Moves ==
    ASSUME TypeOK, NEW p \in Procs, \E l : Goto(p, l),
           UNCHANGED loc \/ \E l : SetLoc(p, l)
    PROVE  OnlyMoves(p)
BY DEF TypeOK, PcOK, Goto, SetLoc, OnlyMoves

LEMMA GraphUntouched ==
    ASSUME UNCHANGED <<anchor, purged>>
    PROVE  AnchorsStay
BY DEF AnchorsStay, Kept, KeptNext

LEMMA RowUntouched ==
    ASSUME UNCHANGED row
    PROVE  ReadyOnEvidence
BY DEF ReadyOnEvidence

LEMMA RowReserved ==
    ASSUME TypeOK, NEW s \in Slugs, NEW r \in Rows, r.status # "ready", SetRow(s, r)
    PROVE  ReadyOnEvidence
BY DEF TypeOK, SetRow, ReadyOnEvidence

LEMMA RowMoved ==
    ASSUME TypeOK, NEW s \in Slugs, NEW owner, NEW old, NEW new \in Statuses,
           MoveIf(s, owner, old, new), new = "ready" => Kept(s)
    PROVE  ReadyOnEvidence
BY DEF TypeOK, Rows, SetRow, MoveIf, ReadyOnEvidence

LEMMA AnchorWritten ==
    ASSUME TypeOK, NEW s \in Slugs, UNCHANGED purged,
           WriteUnacknowledged(s) \/ anchor' = [anchor EXCEPT ![s] = "own"]
    PROVE  AnchorsStay
BY DEF TypeOK, GraphOK, WriteUnacknowledged, AnchorsStay, Kept, KeptNext

LEMMA ReserveSafe ==
    ASSUME IInv, NEW c \in Calls,
           StartCall(c) \/ ReserveProbe(c) \/ ReserveInsert(c) \/ Adopt(c)
    PROVE  Safe(c) /\ CallKnows(c)
<1> USE CallProcs DEF Continue, Finish, envVars, graphVars
<1>0. TypeOK /\ LegsLeft /\ c \in Procs /\ loc[c] \in Locals /\ loc[c].slug \in Slugs
  BY SlugType DEF IInv
<1>1. OnlyMoves(c)
  BY <1>0, Moves DEF StartCall, ReserveProbe, ReserveInsert, Adopt
<1>2. AnchorsStay
  BY GraphUntouched DEF StartCall, ReserveProbe, ReserveInsert, Adopt
<1>3. ReadyOnEvidence
  BY RowTypes, <1>0, RowUntouched, RowReserved DEF StartCall, ReserveProbe, ReserveInsert, Adopt,
     NewRow
<1>4. pc'[c] \in {"probe", "insert", "adopt", "identity", "error"}
  BY <1>0 DEF StartCall, ReserveProbe, ReserveInsert, Adopt, Goto, TypeOK, PcOK
<1>5. pc[c] \in BeforeReady
  BY DEF StartCall, ReserveProbe, ReserveInsert, Adopt, BeforeReady
<1>6. loc'[c].done = loc[c].done
  <2>1. CASE UNCHANGED loc
    BY <2>1
  <2>2. CASE ReserveProbe(c)
    BY <1>0, <2>2 DEF ReserveProbe, SetLoc, TypeOK, Locals
  <2>3. CASE \E t \in Slugs : SetLoc(c, [loc[c] EXCEPT !.slug = t, !.tries = @ + 1])
    BY <1>0, <2>3 DEF SetLoc, TypeOK, Locals
  <2> QED BY <2>1, <2>2, <2>3 DEF StartCall, ReserveInsert, Adopt
<1> QED BY <1>0, <1>1, <1>2, <1>3, <1>4, <1>5, <1>6 DEF Safe, CallKnows, LegsLeft

LEMMA AnchorSafe ==
    ASSUME IInv, NEW c \in Calls,
           Identity(c) \/ Discard(c) \/ WriteAnchor(c) \/ Reprobe(c) \/ Demote(c)
    PROVE  Safe(c) /\ CallKnows(c)
<1> USE CallProcs DEF Continue, Finish, envVars, graphVars
<1>0. /\ TypeOK /\ LegsLeft /\ c \in Procs /\ loc[c] \in Locals /\ loc[c].slug \in Slugs
      /\ UNCHANGED loc
  BY SlugType DEF IInv, Identity, Discard, WriteAnchor, Reprobe, Demote
<1>1. OnlyMoves(c)
  BY <1>0, Moves DEF Identity, Discard, WriteAnchor, Reprobe, Demote
<1>2. AnchorsStay
  BY <1>0, AnchorWritten, GraphUntouched DEF WriteAnchor, Identity, Discard, Reprobe, Demote
<1>3. ReadyOnEvidence
  <2>1. \/ UNCHANGED row
        \/ SetRow(loc[c].slug, Free)
        \/ MarkPartial(c)
    BY DEF Identity, Discard, WriteAnchor, Reprobe, Demote
  <2>2. CASE UNCHANGED row
    BY <2>2, RowUntouched
  <2>3. CASE SetRow(loc[c].slug, Free)
    BY <1>0, <2>3, RowTypes, RowReserved DEF Free
  <2>4. CASE MarkPartial(c)
    BY <1>0, <2>4, RowMoved DEF MarkPartial, Statuses
  <2> QED BY <2>1, <2>2, <2>3, <2>4
<1>4. CallKnows(c)
  <2>1. CASE pc'[c] \in {"discard", "anchor", "reprobe", "demote", "error"}
    <3>1. pc'[c] \in BeforeReady => Identity(c)
      BY <1>0, <2>1
      DEF Discard, WriteAnchor, Reprobe, Demote, Goto, TypeOK, PcOK, BeforeReady
    <3>2. Identity(c) => pc[c] \in BeforeReady
      BY DEF Identity, BeforeReady
    <3> QED BY <1>0, <2>1, <3>1, <3>2 DEF CallKnows, LegsLeft
  <2>2. CASE WriteAnchor(c) /\ anchor' = [anchor EXCEPT ![loc[c].slug] = "own"]
    BY <1>0, <2>2 DEF TypeOK, GraphOK, KeptNext, WriteAnchor, BeforeReady, CallKnows, LegsLeft
  <2>3. CASE Reprobe(c) /\ pc'[c] = "ready"
    <3>1. anchor[loc[c].slug] = "own"
      BY <1>0, <2>3 DEF Reprobe, AnchorPresent, Goto, TypeOK, PcOK
    <3>2. KeptNext(loc[c].slug)
      BY <1>0, <1>2, <3>1 DEF AnchorsStay, Kept
    <3> QED BY <1>0, <2>3, <3>2 DEF CallKnows, BeforeReady
  <2>4. Identity(c) \/ Discard(c) \/ Reprobe(c) \/ Demote(c)
            => pc'[c] \in {"discard", "anchor", "demote", "error", "ready"}
               /\ (pc'[c] = "ready" => Reprobe(c))
    BY <1>0 DEF Identity, Discard, Reprobe, Demote, Goto, TypeOK, PcOK
  <2>5. WriteAnchor(c) => \/ anchor' = [anchor EXCEPT ![loc[c].slug] = "own"]
                          \/ pc'[c] \in {"reprobe", "demote"}
    BY <1>0 DEF WriteAnchor, Goto, TypeOK, PcOK
  <2> QED BY <2>1, <2>2, <2>3, <2>4, <2>5
<1> QED BY <1>1, <1>2, <1>3, <1>4 DEF Safe

LEMMA CopySafe ==
    ASSUME IInv, NEW f \in Calls, CopyLeg(f)
    PROVE  Safe(f) /\ CallKnows(f)
<1> USE CallProcs DEF Continue, Finish, envVars, graphVars
<1>0. /\ TypeOK /\ LegsLeft /\ f \in Procs /\ loc[f] \in Locals /\ loc[f].slug \in Slugs
      /\ Kept(loc[f].slug)
  BY SlugType DEF IInv, CopyLeg, AnchorSeen
<1>1. OnlyMoves(f)
  BY <1>0, Moves DEF CopyLeg
<1>2. AnchorsStay /\ ReadyOnEvidence
  BY GraphUntouched, RowUntouched DEF CopyLeg
<1>3. loc'[f].slug = loc[f].slug
  BY <1>0 DEF CopyLeg, SetLoc, TypeOK, Locals
<1>4. KeptNext(loc'[f].slug)
  BY <1>0, <1>2, <1>3 DEF AnchorsStay
<1>5. ASSUME pc'[f] \in BeforeReady PROVE loc'[f].done < Legs
  <2>1. /\ SetLoc(f, [loc[f] EXCEPT !.done = loc[f].done + 1])
        /\ loc[f].done + 1 # Legs
    BY <1>0, <1>5 DEF CopyLeg, Goto, TypeOK, PcOK, BeforeReady
  <2>2. loc'[f].done = loc[f].done + 1
    BY <1>0, <2>1 DEF SetLoc, TypeOK, Locals
  <2>3. f \in Forkers /\ pc[f] = "copy"
    BY <1>0 DEF CopyLeg, TypeOK, PcOK, CreatePc, Ended, Calls
  <2>4. loc[f].done < Legs /\ loc[f].done \in Nat
    BY <1>0, <2>3, BoundsAssumption DEF LegsLeft, BeforeReady, Locals
  <2> QED BY <2>1, <2>2, <2>4, BoundsAssumption
<1> QED BY <1>1, <1>2, <1>4, <1>5 DEF Safe, CallKnows

LEMMA FinalizeSafe ==
    ASSUME IInv, NEW c \in Calls,
           MarkReady(c) \/ ReconcileCreate(c) \/ ReconcileFork(c)
               \/ Reregister(c) \/ Reinsert(c) \/ Ingest(c)
    PROVE  Safe(c) /\ CallKnows(c)
<1> USE CallProcs DEF Continue, Finish, envVars, graphVars
<1>0. /\ TypeOK /\ AnchorSeen /\ c \in Procs /\ loc[c] \in Locals /\ loc[c].slug \in Slugs
      /\ UNCHANGED <<anchor, purged, loc>>
  BY SlugType
  DEF IInv, MarkReady, ReconcileCreate, ReconcileFork, Reregister, Reinsert, Ingest
<1>1. OnlyMoves(c)
  <2>1. \E l : Goto(c, l)
    BY DEF MarkReady, Succeed, NotFinalized, ReconcileCreate, ReconcileFork,
           Reregister, Reinsert, Ingest
  <2> QED BY <1>0, <2>1, Moves
<1>2. AnchorsStay
  BY <1>0, GraphUntouched
<1>3. ReadyOnEvidence
  <2>1. CASE MarkReady(c)
    BY <1>0, <2>1, RowUntouched, RowMoved DEF MarkReady, AnchorSeen, Statuses
  <2>2. CASE Reinsert(c)
    BY <1>0, <2>2, RowUntouched DEF Reinsert, AnchorSeen, SetRow, TypeOK, ReadyOnEvidence
  <2>3. CASE UNCHANGED row
    BY <2>3, RowUntouched
  <2> QED BY <2>1, <2>2, <2>3 DEF ReconcileCreate, ReconcileFork, Reregister, Ingest
<1>4. \/ pc'[c] \in {"ingest", "ok", "error", "demote", "reconcile", "reregister"}
      \/ Reregister(c) /\ anchor[loc[c].slug] = "own" /\ pc'[c] = "reinsert"
  <2>0. c \in DOMAIN pc
    BY <1>0 DEF TypeOK, PcOK
  <2>1. CASE MarkReady(c)
    BY <2>0, <2>1 DEF Goto, MarkReady, Succeed, NotFinalized
  <2>2. CASE ReconcileCreate(c)
    BY <2>0, <2>2 DEF Goto, ReconcileCreate
  <2>3. CASE ReconcileFork(c)
    BY <2>0, <2>3 DEF Goto, ReconcileFork
  <2>4. CASE Reregister(c)
    BY <2>0, <2>4 DEF Goto, Reregister, AnchorPresent
  <2>5. CASE Reinsert(c)
    BY <2>0, <2>5 DEF Goto, Reinsert
  <2>6. CASE Ingest(c)
    BY <2>0, <2>6 DEF Goto, Ingest
  <2> QED BY <2>1, <2>2, <2>3, <2>4, <2>5, <2>6
<1> QED BY <1>0, <1>1, <1>2, <1>3, <1>4 DEF Safe, CallKnows, KeptNext, BeforeReady

LEMMA CallSafe ==
    ASSUME IInv, NEW c \in Calls, StartCall(c) \/ Call(c)
    PROVE  TypeOK' /\ Safe(c) /\ CallKnows(c)
<1>1. TypeOK /\ LegsLeft
  BY DEF IInv
<1> QED
  BY <1>1, ReserveType, AnchorStepsType, CopyType, FinalizeType,
     ReserveSafe, AnchorSafe, CopySafe, FinalizeSafe
  DEF Call

\* What a repair pass knows afterwards.
RepairKnows(r) ==
    pc'[r] = "apply" /\ loc'[r].verdict = "promote" => KeptNext(loc'[r].slug)

LEMMA RepairSafe ==
    ASSUME IInv, NEW r \in Repairers, Repair(r)
    PROVE  Safe(r) /\ RepairKnows(r)
<1> USE CallProcs DEF Continue, Finish, envVars, graphVars
<1>0. /\ TypeOK /\ AnchorSeen /\ r \in Procs /\ loc[r] \in Locals /\ loc[r].slug \in Slugs
  BY SlugType DEF IInv
<1>1. OnlyMoves(r)
  BY <1>0, Moves DEF Repair, Scan, RepairSkip, RepairJudge, RepairApply
<1>2. AnchorsStay
  BY GraphUntouched DEF Repair, Scan, RepairSkip, RepairJudge, RepairApply
<1>3. ReadyOnEvidence
  <2>1. CASE RepairApply(r)
    BY <1>0, <2>1, RowUntouched, RowMoved DEF RepairApply, AnchorSeen, Statuses
  <2> QED BY <2>1, RowUntouched DEF Repair, Scan, RepairSkip, RepairJudge
<1>4. RepairKnows(r)
  <2>1. CASE \E s \in Slugs : RepairJudge(r, s)
    <3>1. PICK s \in Slugs : RepairJudge(r, s)
      BY <2>1
    <3> DEFINE todo == loc[r].todo \ {s}
               owner == row[s].owner
               verdict == Verdict(s)
    <3>2. verdict = "promote" => anchor[s] = "own"
      BY DEF Verdict
    <3>3. SetLoc(r, [loc[r] EXCEPT !.slug = s, !.todo = todo, !.owner = owner,
                                   !.verdict = verdict])
      BY <3>1 DEF RepairJudge
    <3> HIDE DEF todo, owner, verdict
    <3>4. loc'[r].slug = s /\ loc'[r].verdict = verdict
      BY <1>0, <3>3 DEF SetLoc, TypeOK, Locals
    <3>5. UNCHANGED anchor
      BY <3>1 DEF RepairJudge
    <3> QED BY <3>2, <3>4, <3>5 DEF RepairKnows, KeptNext
  <2>2. CASE Scan(r) \/ RepairApply(r) \/ \E s \in Slugs : RepairSkip(r, s)
    <3>1. pc'[r] # "apply"
      BY <1>0, <2>2 DEF Scan, RepairApply, RepairSkip, RowsLeft, Goto, TypeOK, PcOK
    <3> QED BY <3>1 DEF RepairKnows
  <2> QED BY <2>1, <2>2 DEF Repair
<1> QED BY <1>1, <1>2, <1>3, <1>4 DEF Safe

LEMMA PromoteSafe ==
    ASSUME IInv, NEW p \in Promoters, NEW s \in Slugs,
           PromoteJudge(p, s) \/ PromoteApply(p)
    PROVE  Safe(p) /\ (pc'[p] = "promote" => KeptNext(loc'[p].slug))
<1> USE CallProcs DEF Continue, Finish, envVars, graphVars
<1>0. /\ TypeOK /\ AnchorSeen /\ p \in Procs /\ loc[p] \in Locals /\ loc[p].slug \in Slugs
  BY SlugType DEF IInv
<1>1. OnlyMoves(p)
  BY <1>0, Moves DEF PromoteJudge, PromoteApply
<1>2. AnchorsStay
  BY GraphUntouched DEF PromoteJudge, PromoteApply
<1>3. ReadyOnEvidence
  <2>1. CASE PromoteApply(p)
    BY <1>0, <2>1, RowUntouched, RowMoved DEF PromoteApply, AnchorSeen, Statuses
  <2> QED BY <2>1, RowUntouched DEF PromoteJudge
<1>4. pc'[p] = "promote" => KeptNext(loc'[p].slug)
  <2>1. CASE PromoteJudge(p, s)
    BY <1>0, <2>1 DEF PromoteJudge, SetLoc, TypeOK, Locals, KeptNext
  <2>2. CASE PromoteApply(p)
    BY <1>0, <2>2 DEF PromoteApply, Goto, TypeOK, PcOK
  <2> QED BY <2>1, <2>2
<1> QED BY <1>1, <1>2, <1>3, <1>4 DEF Safe

LEMMA EnsureSafe ==
    ASSUME IInv, NEW e \in Restorers, NEW s \in Slugs,
           EnsureJudge(e, s) \/ EnsureWrite(e)
    PROVE  Safe(e)
<1> USE CallProcs DEF Continue, Finish, envVars, graphVars
<1>0. /\ TypeOK /\ e \in Procs /\ loc[e] \in Locals /\ loc[e].slug \in Slugs
  BY SlugType DEF IInv
<1>1. OnlyMoves(e)
  BY <1>0, Moves DEF EnsureJudge, EnsureWrite
<1>2. AnchorsStay
  BY <1>0, AnchorWritten, GraphUntouched DEF EnsureJudge, EnsureWrite
<1>3. ReadyOnEvidence
  BY RowUntouched DEF EnsureJudge, EnsureWrite
<1> QED BY <1>1, <1>2, <1>3 DEF Safe

LEMMA WorldSafe ==
    ASSUME IInv, NEW s \in Slugs,
           Age(s) \/ LateCommit(s) \/ DeleteContent(s) \/ DeleteRow(s)
    PROVE  AnchorsStay /\ ReadyOnEvidence /\ UNCHANGED <<pc, loc>>
<1> USE DEF envVars, graphVars
<1>0. TypeOK
  BY DEF IInv
<1>1. AnchorsStay
  BY <1>0 DEF Age, LateCommit, DeleteContent, DeleteRow, TypeOK, GraphOK,
              AnchorsStay, Kept, KeptNext
<1>2. ReadyOnEvidence
  <2>1. CASE Age(s)
    BY <1>0, <2>1, RowReserved DEF Age, TypeOK, Rows
  <2>2. CASE DeleteRow(s)
    BY <1>0, <2>2, RowTypes, RowReserved DEF DeleteRow, Free
  <2>3. CASE LateCommit(s) \/ DeleteContent(s)
    BY <2>3, RowUntouched DEF LateCommit, DeleteContent
  <2> QED BY <2>1, <2>2, <2>3
<1> QED BY <1>1, <1>2 DEF Age, LateCommit, DeleteContent, DeleteRow

LEMMA CrashSafe ==
    ASSUME IInv, NEW p \in Procs, Crash(p)
    PROVE  Safe(p) /\ UNCHANGED loc /\ pc'[p] \in {"dead", "idle"}
                   /\ (pc'[p] = "idle" => p \notin Calls)
<1>0. TypeOK
  BY DEF IInv
<1>1. OnlyMoves(p)
  BY <1>0, Moves DEF Crash, Finish
<1>2. AnchorsStay /\ ReadyOnEvidence
  BY GraphUntouched, RowUntouched DEF Crash, graphVars
<1>3. pc' = [pc EXCEPT ![p] = IF p \in Calls THEN "dead" ELSE "idle"] /\ p \in DOMAIN pc
  BY <1>0 DEF Crash, Finish, Goto, TypeOK, PcOK
<1> QED BY <1>1, <1>2, <1>3 DEF Safe, Crash

-----------------------------------------------------------------------------
(* The facts of the steps give the invariant.                              *)

\* What is known after a step of any process.
Knows(p) ==
    /\ p \in Calls => CallKnows(p)
    /\ p \in Repairers => RepairKnows(p)
    /\ p \in Promoters => (pc'[p] = "promote" => KeptNext(loc'[p].slug))

LEMMA ReadyKept ==
    ASSUME IInv, TypeOK', AnchorsStay, ReadyOnEvidence
    PROVE  ReadyHasAnchor'
BY DEF ReadyHasAnchor, KeptNext, ReadyOnEvidence, IInv, Kept, AnchorsStay

\* A process that did not move knows what it knew.
LEMMA StillKnows ==
    ASSUME IInv, AnchorsStay, NEW q \in Procs, pc'[q] = pc[q], loc'[q] = loc[q]
    PROVE  Knows(q)
BY SlugType DEF IInv, AnchorsStay, Knows, CallKnows, RepairKnows, AnchorSeen, LegsLeft

LEMMA AllKnow ==
    ASSUME IInv, TypeOK', AnchorsStay, ReadyOnEvidence, \A q \in Procs : Knows(q)
    PROVE  IInv'
<1>1. ReadyHasAnchor'
  BY ReadyKept
<1>2. AnchorSeen'
  BY CallProcs DEF Knows, CallKnows, RepairKnows, AnchorSeen, Kept, KeptNext
<1>3. LegsLeft'
  BY CallProcs DEF Knows, CallKnows, LegsLeft, Calls
<1> QED BY <1>1, <1>2, <1>3 DEF IInv

LEMMA SafeStep ==
    ASSUME IInv, TypeOK', NEW p \in Procs, Safe(p), Knows(p)
    PROVE  IInv'
<1>1. ASSUME NEW q \in Procs PROVE Knows(q)
  BY StillKnows DEF Safe, OnlyMoves
<1> QED BY <1>1, AllKnow DEF Safe

LEMMA WorldStep ==
    ASSUME IInv, TypeOK', AnchorsStay, ReadyOnEvidence, UNCHANGED <<pc, loc>>
    PROVE  IInv'
BY StillKnows, AllKnow

LEMMA InitInv == Init => IInv
<1> SUFFICES ASSUME Init PROVE IInv
  OBVIOUS
<1> DEFINE start(p) ==
      [slug |-> IF p \in Calls THEN Requested[p] ELSE CHOOSE s \in Slugs : TRUE,
       free |-> FALSE, tries |-> 0, done |-> 0, todo |-> {},
       owner |-> Nobody, verdict |-> "none"]
<1>1. /\ pc = [p \in Procs |-> "idle"]
      /\ loc = [p \in Procs |-> start(p)]
      /\ row = [s \in Slugs |-> Free]
      /\ lock = [h \in Hosts |-> Nobody]
  BY DEF Init
<1>2. PcOK
  BY <1>1 DEF PcOK, AllPc, Procs, Calls
<1>3. ASSUME NEW p \in Procs PROVE start(p) \in Locals
  BY CallsAssumption, BoundsAssumption DEF Locals
<1>4. GraphOK /\ EnvOK
  BY BoundsAssumption DEF Init, GraphOK, EnvOK
<1>5. TypeOK
  BY <1>1, <1>2, <1>3, <1>4, RowTypes DEF TypeOK
<1>6. ReadyHasAnchor
  BY <1>1 DEF ReadyHasAnchor, Free
<1>7. AnchorSeen
  BY <1>1, CallProcs DEF AnchorSeen
<1>8. ASSUME NEW f \in Forkers PROVE loc[f].done < Legs
  BY <1>1, CallProcs, BoundsAssumption DEF Calls
<1> QED BY <1>5, <1>6, <1>7, <1>8 DEF IInv, LegsLeft

LEMMA NextInv == IInv /\ [Next]_vars => IInv'
<1> SUFFICES ASSUME IInv, [Next]_vars PROVE IInv'
  OBVIOUS
<1>0. TypeOK
  BY DEF IInv
<1>1. ASSUME NEW c \in Calls, StartCall(c) \/ Call(c) PROVE IInv'
  BY <1>1, CallSafe, CallProcs, ProcsAssumption, SafeStep DEF Knows
<1>2. ASSUME NEW r \in Repairers, Repair(r) PROVE IInv'
  BY <1>0, <1>2, RepairType, RepairSafe, CallProcs, ProcsAssumption, SafeStep DEF Knows
<1>3. ASSUME NEW p \in Promoters, NEW s \in Slugs, PromoteJudge(p, s) \/ PromoteApply(p)
      PROVE IInv'
  BY <1>0, <1>3, PromoteType, PromoteSafe, CallProcs, ProcsAssumption, SafeStep DEF Knows
<1>4. ASSUME NEW e \in Restorers, NEW s \in Slugs, EnsureJudge(e, s) \/ EnsureWrite(e)
      PROVE IInv'
  BY <1>0, <1>4, EnsureType, EnsureSafe, CallProcs, ProcsAssumption, SafeStep DEF Knows
<1>5. ASSUME NEW p \in Procs, Crash(p) PROVE IInv'
  BY <1>0, <1>5, CrashType, CrashSafe, SafeStep DEF Knows, CallKnows, RepairKnows, BeforeReady
<1>6. ASSUME NEW s \in Slugs, Age(s) \/ LateCommit(s) \/ DeleteContent(s) \/ DeleteRow(s)
      PROVE IInv'
  BY <1>0, <1>6, WorldType, WorldSafe, WorldStep
<1>7. CASE UNCHANGED vars
  <2>1. TypeOK'
    BY <1>0, <1>7 DEF vars, TypeOK, GraphOK, PcOK, EnvOK
  <2>2. AnchorsStay /\ ReadyOnEvidence /\ UNCHANGED <<pc, loc>>
    BY <1>7, GraphUntouched, RowUntouched DEF vars
  <2> QED BY <2>1, <2>2, WorldStep
<1>8. ASSUME NEW p \in Promoters, PromoteApply(p) PROVE IInv'
  BY <1>0, SlugType, CallProcs, <1>3, <1>8
<1>9. ASSUME NEW e \in Restorers, EnsureWrite(e) PROVE IInv'
  BY <1>0, SlugType, CallProcs, <1>4, <1>9
<1> QED BY <1>1, <1>2, <1>3, <1>4, <1>5, <1>6, <1>7, <1>8, <1>9 DEF Next

\* Type correctness: every row, anchor, lock and local variable stays in its
\* domain, and every process at a point of its own code.
THEOREM TypeCorrect == Spec => []TypeOK
<1>1. IInv => TypeOK
  BY DEF IInv
<1> QED BY InitInv, NextInv, <1>1, PTL DEF Spec

\* A pack that readers see has its anchor in the graph (unless its owner
\* deleted its content): whatever fails, dies or answers late, on any number
\* of hosts, and even when rows are deleted by hand.
THEOREM ReadyPacksHaveAnchors == Spec => []ReadyHasAnchor
<1>1. IInv => ReadyHasAnchor
  BY DEF IInv
<1> QED BY InitInv, NextInv, <1>1, PTL DEF Spec

-----------------------------------------------------------------------------
(* The rows of the registry: a visible fork is whole, what is in the graph *)
(* is registered, "ok" is the truth, and nobody resolves another's row.    *)
(*                                                                         *)
(* These need one of two things (Settled): one data directory's lock for   *)
(* everybody, or INSERTs that are answered and rows that nobody deletes by *)
(* hand.  With several hosts and an INSERT without an answer, one call may *)
(* adopt the row of another.                                               *)

OneHost == \A p, q \in Procs : HostOf[p] = HostOf[q]
Answered == "insert" \notin Faults /\ MaxHandDeletes = 0
Settled == OneHost \/ Answered

-----------------------------------------------------------------------------
(* The inductive invariant.                                                *)

Slot(p) == loc[p].slug

\* The points at which a process holds its lock.
Critical == CreatePc \cup ForkPc \cup {"apply", "promote", "restore"}
LocksHeld == \A p \in Procs : pc[p] \in Critical => lock[HostOf[p]] = p

\* The points at which a call relies on its reservation, and those of them
\* at which nothing of the pack is in the graph.
Reserving == {"adopt", "identity", "discard", "anchor"}
Holding == Reserving \cup {"reprobe", "copy", "ready", "reconcile"}

Unused(s) == anchor[s] # "own" /\ s \notin late /\ copied[s] = {}

CallOf(c) ==
    /\ pc[c] = "insert" /\ loc[c].free /\ OneHost => row[Slot(c)].status = "free"
    /\ pc[c] = "adopt" => ~Answered
    /\ pc[c] \in Holding =>
          \/ row[Slot(c)].status = "free"
          \/ row[Slot(c)].owner = Owner[c] /\ row[Slot(c)].forked = SourceOf(c)
    /\ pc[c] \in Holding \ {"adopt"} =>
          row[Slot(c)].status # "free" \/ Slot(c) \in handDeleted
    /\ pc[c] \in Reserving =>
          /\ row[Slot(c)].status # "ready"
          /\ Unused(Slot(c)) \/ Slot(c) \in handDeleted

\* A fork copies leg after leg.
NotCopying == {"idle", "probe", "insert", "adopt", "identity", "discard", "anchor"}
CopyOf(f) ==
    /\ pc[f] \in NotCopying => loc[f].done = 0
    /\ pc[f] = "copy" => 1..loc[f].done \subseteq copied[Slot(f)] \/ Slot(f) \in purged
    /\ pc[f] = "ready" =>
          /\ loc[f].done = Legs
          /\ 1..Legs \subseteq copied[Slot(f)] \/ Slot(f) \in purged

OkOf(c) ==
    pc[c] \in {"ok", "ingest"} =>
        \/ Matches(Slot(c), Owner[c], "ready") /\ row[Slot(c)].forked = SourceOf(c)
        \/ Slot(c) \in handDeleted

\* What a repair pass is about to promote is no fork; on one host the row it
\* judged is as old as it was.
JudgeOf(r) ==
    pc[r] = "apply" =>
        /\ loc[r].verdict = "promote" =>
              row[Slot(r)].status = "free" \/ row[Slot(r)].forked = NoSource
        /\ OneHost /\ row[Slot(r)].status = "creating" => row[Slot(r)].stale

\* Operators that saw the pack in the graph, or ready.
Resolving(p) ==
    \/ p \in Repairers /\ pc[p] = "apply" /\ loc[p].verdict = "promote"
    \/ p \in Promoters /\ pc[p] = "promote"
    \/ p \in Restorers /\ pc[p] = "restore"

\* No two calls hold one slug; what an operator resolves has a row, which no
\* call is still reserving.
Apart ==
    /\ \A c, d \in Calls :
          c # d /\ pc[c] \in Holding /\ pc[d] \in Holding => Slot(c) # Slot(d)
    /\ \A c \in Calls, p \in Procs :
          pc[c] \in Reserving /\ Resolving(p) => Slot(c) # Slot(p)
    /\ \A p \in Procs :
          Resolving(p) => row[Slot(p)].status # "free" \/ Slot(p) \in handDeleted

RowsOK ==
    /\ \A s \in Slugs : row[s].status = "free" => row[s] = Free
    /\ ForkReadyIsComplete
    /\ NoOrphan

SoundInv ==
    /\ IInv
    /\ LocksHeld
    /\ Answered => handDeleted = {}
    /\ \A c \in Calls : CallOf(c) /\ OkOf(c)
    /\ \A f \in Forkers : CopyOf(f)
    /\ \A r \in Repairers : JudgeOf(r)
    /\ Apart
    /\ RowsOK

-----------------------------------------------------------------------------
(* What a step of a process may do: to the lock, to the one slug it is at, *)
(* and to its own place.                                                   *)

LockRule(p) ==
    \/ UNCHANGED lock /\ (pc'[p] \in Critical => pc[p] \in Critical)
    \/ Acquire(p)
    \/ Release(p) /\ lock[HostOf[p]] = p /\ pc'[p] \notin Critical

TouchRule(p) ==
    /\ \A s \in Slugs \ {Slot(p)} :
          /\ row'[s] = row[s] /\ anchor'[s] = anchor[s] /\ copied'[s] = copied[s]
          /\ s \in late' <=> s \in late
    /\ UNCHANGED <<purged, handDeleted>>

\* Whoever makes a row ready is its call at the end of its work, or judged it.
Promotes(p) ==
    \/ p \in Calls /\ pc[p] = "ready" /\ row[Slot(p)].owner = Owner[p]
    \/ p \in Repairers /\ pc[p] = "apply" /\ loc[p].verdict = "promote"
    \/ p \in Promoters /\ pc[p] = "promote" /\ row[Slot(p)].forked = NoSource

RowRule(p) ==
    LET old == row[Slot(p)]
        new == row'[Slot(p)]
    IN  \/ new = old
        \/ /\ old.status = "free"
           /\ \/ /\ p \in Calls /\ pc[p] = "insert" /\ new = NewRow(p, "creating")
                 /\ pc'[p] \in {"adopt", "identity", "error"}
              \/ /\ p \in Creators /\ pc[p] = "reinsert" /\ new = NewRow(p, "ready")
                 /\ pc'[p] = "error"
        \/ /\ p \in Calls /\ pc[p] = "discard" /\ new = Free
           /\ pc'[p] \in {"error", "demote"}
        \/ /\ old.status \in {"creating", "partial"}
           /\ new.owner = old.owner /\ new.forked = old.forked
           /\ \/ new.status = "partial" /\ pc[p] \in {"demote", "apply"}
              \/ new.status = "ready" /\ Promotes(p)

GraphRule(p) ==
    LET s == Slot(p)
    IN  /\ copied[s] \subseteq copied'[s]
        /\ \/ anchor'[s] = anchor[s] /\ copied'[s] = copied[s] /\ (s \in late' <=> s \in late)
           \/ /\ UNCHANGED row
              /\ \/ /\ p \in Calls /\ pc[p] \in {"anchor", "copy"}
                    /\ row[s].status = "creating" /\ pc'[p] \notin Reserving
                 \/ /\ p \in Restorers /\ pc[p] = "restore" /\ row[s].status = "ready"

Rules(p) == OnlyMoves(p) /\ LockRule(p) /\ TouchRule(p) /\ RowRule(p) /\ GraphRule(p)

\* How a call gets to the points that the invariant speaks of.
SameSlot(c) == loc'[c].slug = loc[c].slug
CallRule(c) ==
    LET old == row[Slot(c)]
        new == row'[Slot(c)]
    IN  /\ pc'[c] \in NotCopying => pc[c] \in NotCopying /\ loc'[c].done = loc[c].done
        /\ pc'[c] = "insert" /\ loc'[c].free =>
              SameSlot(c) /\ new = old /\ old.status = "free" /\ pc[c] \in Critical
        /\ pc'[c] = "adopt" =>
              SameSlot(c) /\ pc[c] = "insert" /\ loc[c].free /\ "insert" \in Faults
        /\ pc'[c] = "identity" =>
              /\ SameSlot(c)
              /\ \/ pc[c] = "insert" /\ old.status = "free" /\ new = NewRow(c, "creating")
                 \/ pc[c] = "adopt" /\ old.status = "creating" /\ new = old
        /\ pc'[c] \in {"discard", "anchor"} => SameSlot(c) /\ pc[c] = "identity" /\ new = old
        /\ pc'[c] = "reprobe" => SameSlot(c) /\ pc[c] = "anchor" /\ new = old
        /\ pc'[c] = "copy" =>
              /\ SameSlot(c) /\ c \in Forkers /\ new = old
              /\ \/ pc[c] = "anchor" /\ loc'[c].done = loc[c].done
                 \/ /\ pc[c] = "copy" /\ loc'[c].done = loc[c].done + 1
                    /\ loc'[c].done \in copied'[Slot(c)]
        /\ pc'[c] = "ready" =>
              /\ SameSlot(c) /\ new = old
              /\ \/ c \in Creators /\ pc[c] \in {"anchor", "reprobe"}
                 \/ /\ c \in Forkers /\ pc[c] = "copy"
                    /\ loc'[c].done = loc[c].done + 1 /\ loc'[c].done = Legs
                    /\ loc'[c].done \in copied'[Slot(c)]
        /\ pc'[c] = "reconcile" => SameSlot(c) /\ pc[c] = "ready"
        /\ pc'[c] \in {"ok", "ingest"} =>
              /\ SameSlot(c)
              /\ \/ /\ pc[c] = "ready" /\ old.status = "creating" /\ old.owner = Owner[c]
                    /\ new.status = "ready" /\ new.owner = Owner[c] /\ new.forked = old.forked
                 \/ /\ pc[c] = "reconcile" /\ Matches(Slot(c), Owner[c], "ready") /\ new = old
                    /\ c \in Forkers => old.forked = Source[c]
                 \/ pc[c] = "ingest" /\ new = old

\* What an operator has seen where it is about to resolve a row.
OperatorRule(p) ==
    pc'[p] \in {"apply", "promote", "restore"} =>
        /\ Acquire(p)
        /\ UNCHANGED <<row, graphVars>>
        /\ row[loc'[p].slug].status # "free"
        /\ pc'[p] = "apply" =>
              /\ row[loc'[p].slug].stale
              /\ loc'[p].verdict = "promote" =>
                    row[loc'[p].slug].forked = NoSource /\ anchor[loc'[p].slug] = "own"
        /\ pc'[p] = "promote" => anchor[loc'[p].slug] = "own"
        /\ pc'[p] = "restore" => row[loc'[p].slug].status = "ready"

LEMMA Quiet ==
    ASSUME NEW p \in Procs, UNCHANGED <<row, graphVars, purged, handDeleted>>
    PROVE  TouchRule(p) /\ RowRule(p) /\ GraphRule(p)
BY DEF TouchRule, RowRule, GraphRule, graphVars

LEMMA Went ==
    ASSUME TypeOK, NEW p \in Procs, NEW l, Goto(p, l)
    PROVE  pc'[p] = l
BY DEF Goto, TypeOK, PcOK

LEMMA RowSet ==
    ASSUME TypeOK, NEW s \in Slugs, NEW r, SetRow(s, r)
    PROVE  row'[s] = r /\ \A t \in Slugs \ {s} : row'[t] = row[t]
BY DEF SetRow, TypeOK

LEMMA Holds ==
    ASSUME TypeOK, LocksHeld, NEW p \in Procs, pc[p] \in Critical, NEW l,
           Continue(p, l) \/ (Finish(p, l) /\ l \notin Critical)
    PROVE  LockRule(p)
<1>1. CASE Continue(p, l)
  BY <1>1 DEF Continue, LockRule
<1>2. CASE Finish(p, l) /\ l \notin Critical
  BY <1>2, Went DEF Finish, LockRule, LocksHeld
<1> QED BY <1>1, <1>2

LEMMA QuietRules ==
    ASSUME TypeOK, LocksHeld, NEW c \in Calls,
           StartCall(c) \/ ReserveProbe(c) \/ Adopt(c) \/ Identity(c) \/ Reprobe(c)
               \/ ReconcileCreate(c) \/ ReconcileFork(c) \/ Reregister(c) \/ Ingest(c)
    PROVE  Rules(c)
<1>0. c \in Procs
  BY CallProcs
<1>1. TouchRule(c) /\ RowRule(c) /\ GraphRule(c)
  BY <1>0, Quiet DEF StartCall, ReserveProbe, Adopt, Identity, Reprobe, ReconcileCreate,
    ReconcileFork, Reregister, Ingest, graphVars, envVars
<1>2. OnlyMoves(c)
  <2>1. (\E l : Goto(c, l)) /\ (UNCHANGED loc \/ \E l : SetLoc(c, l))
    BY DEF StartCall, ReserveProbe, Adopt, Identity, Reprobe, ReconcileCreate,
      ReconcileFork, Reregister, Ingest, Continue, Finish
  <2> QED BY <1>0, <2>1, Moves
<1>3. LockRule(c)
  <2>1. CASE StartCall(c)
    BY <2>1 DEF StartCall, LockRule
  <2>2. ASSUME ~StartCall(c) PROVE pc[c] \in Critical
    BY <2>2 DEF ReserveProbe, Adopt, Identity, Reprobe, ReconcileCreate,
      ReconcileFork, Reregister, Ingest, Critical, CreatePc, ForkPc
  <2>3. ASSUME ~StartCall(c)
        PROVE (\E l : Continue(c, l)) \/ \E l \in {"error", "ok"} : Finish(c, l)
    BY <2>3 DEF ReserveProbe, Adopt, Identity, Reprobe, ReconcileCreate,
      ReconcileFork, Reregister, Ingest
  <2>4. "error" \notin Critical /\ "ok" \notin Critical
    BY DEF Critical, CreatePc, ForkPc
  <2> QED BY <1>0, <2>1, <2>2, <2>3, <2>4, Holds
<1> QED BY <1>1, <1>2, <1>3 DEF Rules

LEMMA QuietCall ==
    ASSUME TypeOK, NEW c \in Calls,
           StartCall(c) \/ ReserveProbe(c) \/ Adopt(c) \/ Identity(c) \/ Reprobe(c)
               \/ ReconcileCreate(c) \/ ReconcileFork(c) \/ Reregister(c) \/ Ingest(c)
    PROVE  CallRule(c)
<1>0. c \in Procs /\ loc[c] \in Locals /\ Slot(c) \in Slugs
  BY CallProcs, SlugType DEF Slot
<1>1. row' = row
  BY DEF StartCall, ReserveProbe, Adopt, Identity, Reprobe, ReconcileCreate,
    ReconcileFork, Reregister, Ingest
<1>2. CASE StartCall(c)
  BY <1>0, <1>2, Went DEF StartCall, CallRule, NotCopying
<1>3. CASE ReserveProbe(c)
  <2>1. pc'[c] = "insert" /\ pc[c] = "probe"
    BY <1>0, <1>3, Went DEF ReserveProbe, Continue
  <2>2. /\ loc'[c].slug = loc[c].slug /\ loc'[c].done = loc[c].done
        /\ loc'[c].free => row[Slot(c)].status = "free"
    <3>1. PICK m : m = loc'[c]
      OBVIOUS
    <3>2. PICK l \in Locals : l = loc[c]
      BY <1>0
    <3>4. DOMAIN loc = Procs
      BY DEF TypeOK
    <3>5. m = [l EXCEPT !.free = (row[l.slug].status = "free")] \/ m = [l EXCEPT !.free = FALSE]
      BY <1>0, <1>3, <3>1, <3>2, <3>4 DEF ReserveProbe, SetLoc
    <3>6. m.slug = l.slug /\ m.done = l.done /\ (m.free => row[l.slug].status = "free")
      BY ONLY l \in Locals, <3>5 DEF Locals
    <3> QED BY <3>1, <3>2, <3>6 DEF Slot
  <2>3. pc[c] \in NotCopying /\ pc[c] \in Critical
    BY <2>1 DEF NotCopying, Critical, CreatePc, ForkPc
  <2> QED BY ONLY <1>1, <2>1, <2>2, <2>3 DEF CallRule, SameSlot
<1>4. CASE Adopt(c)
  <2>1. pc'[c] \in {"identity", "error"} /\ pc[c] = "adopt" /\ loc' = loc
    BY <1>0, <1>4, Went DEF Adopt, Continue, Finish
  <2>2. pc'[c] = "identity" => row[Slot(c)].status = "creating"
    BY <1>0, <1>4, Went DEF Adopt, Finish, Matches, Slot
  <2> QED BY <1>1, <2>1, <2>2 DEF CallRule, NotCopying, SameSlot
<1>5. CASE Identity(c)
  BY <1>0, <1>5, Went, <1>1 DEF Identity, Continue, CallRule, NotCopying, SameSlot
<1>6. CASE Reprobe(c)
  <2>1. pc'[c] \in {"ready", "demote"} /\ pc[c] = "reprobe" /\ loc' = loc
    BY <1>0, <1>6, Went DEF Reprobe, Continue
  <2>2. c \in Creators
    BY <2>1 DEF TypeOK, PcOK, ForkPc, Ended, Calls
  <2> QED BY <1>1, <2>1, <2>2 DEF CallRule, NotCopying, SameSlot
<1>7. CASE ReconcileCreate(c)
  <2>1. pc'[c] \in {"reregister", "error", "ingest", "demote"} /\ pc[c] = "reconcile" /\ loc' = loc
    BY <1>0, <1>7, Went DEF ReconcileCreate, Continue, Finish
  <2>2. pc'[c] = "ingest" => Matches(Slot(c), Owner[c], "ready")
    BY <1>0, <1>7, Went DEF ReconcileCreate, Continue, Finish, Matches, Slot
  <2>3. c \notin Forkers
    BY <1>7, ProcsAssumption DEF ReconcileCreate
  <2> QED BY <1>1, <2>1, <2>2, <2>3 DEF CallRule, NotCopying, SameSlot
<1>8. CASE ReconcileFork(c)
  <2>1. pc'[c] \in {"ok", "demote"} /\ pc[c] = "reconcile" /\ loc' = loc
    BY <1>0, <1>8, Went DEF ReconcileFork, Continue, Finish
  <2>2. pc'[c] = "ok" => Matches(Slot(c), Owner[c], "ready") /\ row[Slot(c)].forked = Source[c]
    BY <1>0, <1>8, Went DEF ReconcileFork, Continue, Slot
  <2> QED BY <1>1, <2>1, <2>2 DEF CallRule, NotCopying, SameSlot
<1>9. CASE Reregister(c)
  BY <1>0, <1>9, Went DEF Reregister, Continue, Finish, CallRule, NotCopying
<1>10. CASE Ingest(c)
  BY <1>0, <1>10, Went, <1>1 DEF Ingest, Finish, CallRule, NotCopying, SameSlot
<1> QED BY <1>2, <1>3, <1>4, <1>5, <1>6, <1>7, <1>8, <1>9, <1>10

\* A row update that pins the old status, seen from the one slug it touches.
LEMMA Updated ==
    ASSUME TypeOK, NEW p \in Procs, NEW owner, NEW old, NEW new \in Statuses,
           MoveIf(Slot(p), owner, old, new)
    PROVE  /\ \A t \in Slugs \ {Slot(p)} : row'[t] = row[t]
           /\ ~Matches(Slot(p), owner, old) => row' = row
           /\ Matches(Slot(p), owner, old) =>
                 /\ row'[Slot(p)].status = new
                 /\ row'[Slot(p)].owner = row[Slot(p)].owner
                 /\ row'[Slot(p)].forked = row[Slot(p)].forked
<1> DEFINE s == Slot(p)
           r == [row[s] EXCEPT !.status = new, !.stale = FALSE]
<1>0. s \in Slugs /\ row[s] \in Rows
  BY SlugType DEF Slot, TypeOK
<1>1. CASE Matches(s, owner, old)
  <2>1. r.status = new /\ r.owner = row[s].owner /\ r.forked = row[s].forked
    BY <1>0 DEF Rows
  <2>2. row'[s] = r /\ \A t \in Slugs \ {s} : row'[t] = row[t]
    BY <1>0, <1>1, RowSet DEF MoveIf
  <2> QED BY <1>1, <2>1, <2>2
<1>2. CASE ~Matches(s, owner, old)
  BY <1>2 DEF MoveIf
<1> QED BY <1>1, <1>2

\* A step that writes at most the registry, at the slug of its process.
LEMMA RegistryStep ==
    ASSUME TypeOK, NEW p \in Procs, UNCHANGED <<graphVars, purged, handDeleted>>,
           \A t \in Slugs \ {Slot(p)} : row'[t] = row[t]
    PROVE  TouchRule(p) /\ GraphRule(p)
BY DEF TouchRule, GraphRule, graphVars

LEMMA InsertRules ==
    ASSUME TypeOK, LocksHeld, NEW c \in Calls, ReserveInsert(c)
    PROVE  Rules(c) /\ CallRule(c)
<1> DEFINE s == Slot(c)
<1>0. c \in Procs /\ loc[c] \in Locals /\ s \in Slugs
  BY CallProcs, SlugType DEF Slot
<1>1. pc[c] = "insert" /\ pc'[c] \in {"identity", "probe", "error", "adopt"}
  BY <1>0, Went DEF ReserveInsert, Continue, Finish
<1>2. \/ row' = row
      \/ /\ row[s].status = "free" /\ SetRow(s, NewRow(c, "creating"))
         /\ pc'[c] \in {"identity", "adopt", "error"}
  BY <1>0, Went DEF ReserveInsert, Continue, Finish, Slot
<1>3. /\ row[s].status = "free" /\ pc'[c] = "identity" => SetRow(s, NewRow(c, "creating"))
      /\ pc'[c] = "identity" => row[s].status = "free"
      /\ pc'[c] = "adopt" => loc[c].free /\ "insert" \in Faults
      /\ pc'[c] # "probe" => loc' = loc
  BY <1>0, Went DEF ReserveInsert, Continue, Finish, Slot, Fault
<1>4. loc'[c].done = loc[c].done
  BY <1>0 DEF SetLoc, TypeOK, Locals, ReserveInsert
<1>5. OnlyMoves(c)
  BY <1>0, Moves DEF ReserveInsert, Continue, Finish
<1>6. LockRule(c)
  <2>1. pc[c] \in Critical /\ "error" \notin Critical
    BY <1>1 DEF Critical, CreatePc, ForkPc
  <2>2. (\E l : Continue(c, l)) \/ Finish(c, "error")
    BY DEF ReserveInsert
  <2> QED BY <1>0, <2>1, <2>2, Holds
<1>7. TouchRule(c) /\ GraphRule(c)
  BY <1>0, <1>2, RowSet, RegistryStep DEF ReserveInsert, envVars
<1>8. RowRule(c)
  BY <1>0, <1>1, <1>2, RowSet DEF RowRule
<1>9. CallRule(c)
  BY <1>0, <1>3, RowSet, <1>1, <1>4 DEF CallRule, NotCopying, SameSlot
<1> QED BY <1>5, <1>6, <1>7, <1>8, <1>9 DEF Rules

LEMMA RegistryRules ==
    ASSUME TypeOK, LocksHeld, NEW c \in Calls,
           Discard(c) \/ Demote(c) \/ MarkReady(c) \/ Reinsert(c)
    PROVE  Rules(c) /\ CallRule(c)
<1> DEFINE s == Slot(c)
<1>0. c \in Procs /\ loc[c] \in Locals /\ s \in Slugs /\ row[s] \in Rows
  BY CallProcs, SlugType DEF Slot, TypeOK
<1>1. OnlyMoves(c)
  <2>1. (\E l : Goto(c, l)) /\ UNCHANGED loc
    BY DEF Discard, Demote, MarkReady, Reinsert, Continue, Finish, Succeed, NotFinalized
  <2> QED BY <1>0, <2>1, Moves
<1>2. LockRule(c)
  <2>1. pc[c] \in Critical /\ "error" \notin Critical /\ "ok" \notin Critical
    BY DEF Discard, Demote, MarkReady, Reinsert, Critical, CreatePc, ForkPc
  <2>2. (\E l : Continue(c, l)) \/ Finish(c, "error") \/ Finish(c, "ok")
    BY DEF Discard, Demote, MarkReady, Reinsert, Succeed, NotFinalized
  <2> QED BY <1>0, <2>1, <2>2, Holds
<1>3. UNCHANGED <<graphVars, purged, handDeleted, loc>>
  BY DEF Discard, Demote, MarkReady, Reinsert, envVars
<1>4. CASE Discard(c)
  <2>1. pc[c] = "discard" /\ pc'[c] \in {"error", "demote"}
    BY <1>0, <1>4, Went DEF Discard, Continue, Finish
  <2>2. row' = row \/ SetRow(s, Free)
    BY <1>4 DEF Discard, Slot
  <2>3. RowRule(c) /\ \A t \in Slugs \ {s} : row'[t] = row[t]
    BY <1>0, <2>1, <2>2, RowSet DEF RowRule
  <2>4. CallRule(c)
    BY <2>1 DEF CallRule, NotCopying
  <2> QED BY <1>0, <1>1, <1>2, <1>3, <2>3, <2>4, RegistryStep DEF Rules
<1>5. CASE Demote(c)
  <2>1. pc[c] = "demote" /\ pc'[c] = "error"
    BY <1>0, <1>5, Went DEF Demote, Finish
  <2>2. row' = row \/ MoveIf(s, Owner[c], "creating", "partial")
    BY <1>5 DEF Demote, MarkPartial, Slot
  <2>3. RowRule(c) /\ \A t \in Slugs \ {s} : row'[t] = row[t]
    BY <1>0, <2>1, <2>2, Updated DEF RowRule, Statuses, Matches
  <2>4. CallRule(c)
    BY <2>1 DEF CallRule, NotCopying
  <2> QED BY <1>0, <1>1, <1>2, <1>3, <2>3, <2>4, RegistryStep DEF Rules
<1>6. CASE MarkReady(c)
  <2>1. pc[c] = "ready" /\ pc'[c] \in {"ingest", "ok", "reconcile"}
    BY <1>0, <1>6, Went DEF MarkReady, Continue, Finish, Succeed, NotFinalized
  <2>2. /\ row' = row \/ MoveIf(s, Owner[c], "creating", "ready")
        /\ pc'[c] \in {"ok", "ingest"} =>
              Matches(s, Owner[c], "creating") /\ MoveIf(s, Owner[c], "creating", "ready")
    BY <1>0, <1>6, Went DEF MarkReady, NotFinalized, Continue, Slot
  <2>3. RowRule(c) /\ \A t \in Slugs \ {s} : row'[t] = row[t]
    BY <1>0, <2>1, <2>2, Updated DEF RowRule, Statuses, Matches, Promotes
  <2>4. CallRule(c)
    BY <1>0, <1>3, <2>1, <2>2, Updated DEF CallRule, NotCopying, SameSlot, Matches, Statuses
  <2> QED BY <1>0, <1>1, <1>2, <1>3, <2>3, <2>4, RegistryStep DEF Rules
<1>7. CASE Reinsert(c)
  <2>1. pc[c] = "reinsert" /\ pc'[c] = "error"
    BY <1>0, <1>7, Went DEF Reinsert, Finish
  <2>2. c \in Creators
    BY <2>1 DEF TypeOK, PcOK, ForkPc, Ended, Calls
  <2>3. row' = row \/ (row[s].status = "free" /\ SetRow(s, NewRow(c, "ready")))
    BY <1>7 DEF Reinsert, Slot
  <2>4. RowRule(c) /\ \A t \in Slugs \ {s} : row'[t] = row[t]
    BY <1>0, <2>1, <2>2, <2>3, RowSet DEF RowRule
  <2>5. CallRule(c)
    BY <2>1 DEF CallRule, NotCopying
  <2> QED BY <1>0, <1>1, <1>2, <1>3, <2>4, <2>5, RegistryStep DEF Rules
<1> QED BY <1>4, <1>5, <1>6, <1>7

LEMMA GraphRules ==
    ASSUME TypeOK, LocksHeld, NEW c \in Calls, WriteAnchor(c) \/ CopyLeg(c)
    PROVE  Rules(c) /\ CallRule(c)
<1> DEFINE s == Slot(c)
<1>0. c \in Procs /\ loc[c] \in Locals /\ s \in Slugs
  BY CallProcs, SlugType DEF Slot
<1>1. OnlyMoves(c)
  BY <1>0, Moves DEF WriteAnchor, CopyLeg, Continue
<1>2. LockRule(c)
  BY <1>0, Holds DEF WriteAnchor, CopyLeg, Critical, CreatePc, ForkPc
<1>3. UNCHANGED <<row, purged, handDeleted>>
  BY DEF WriteAnchor, CopyLeg, envVars
<1>4. CASE WriteAnchor(c)
  <2>1. /\ pc[c] = "anchor" /\ loc' = loc /\ copied' = copied
        /\ pc'[c] \in {"ready", "reprobe", "copy", "demote"}
        /\ pc'[c] \in {"ready", "reprobe"} => c \in Creators
        /\ pc'[c] = "copy" => c \in Forkers
    BY <1>0, <1>4, Went DEF WriteAnchor, Continue, Calls
  <2>2. \/ anchor' = anchor /\ late' = late
        \/ /\ row[s].status = "creating"
           /\ \/ anchor' = [anchor EXCEPT ![s] = "own"] /\ late' = late
              \/ late' = late \cup {s} /\ anchor' = anchor
    BY <1>4 DEF WriteAnchor, WriteUnacknowledged, AnchorWritable, Matches, Slot
  <2>3. TouchRule(c) /\ GraphRule(c)
    BY <1>0, <1>3, <2>1, <2>2 DEF TouchRule, GraphRule, TypeOK, GraphOK, Reserving
  <2>4. CallRule(c)
    BY <1>3, <2>1 DEF CallRule, NotCopying, SameSlot
  <2> QED BY <1>1, <1>2, <1>3, <2>3, <2>4 DEF Rules, RowRule
<1>5. CASE CopyLeg(c)
  <2>0. c \in Forkers
    BY <1>5 DEF CopyLeg, TypeOK, PcOK, CreatePc, Ended, Calls
  <2>1. /\ pc[c] = "copy" /\ anchor' = anchor /\ late' = late
        /\ pc'[c] \in {"copy", "ready", "demote"}
    BY <1>0, <1>5, Went DEF CopyLeg, Continue
  <2>2. /\ pc'[c] # "demote" =>
              /\ copied' = [copied EXCEPT ![s] = copied[s] \cup {loc[c].done + 1}]
              /\ SetLoc(c, [loc[c] EXCEPT !.done = loc[c].done + 1])
        /\ pc'[c] = "ready" => loc[c].done + 1 = Legs
        /\ pc'[c] = "demote" => loc' = loc
    BY <1>0, <1>5, Went DEF CopyLeg, Continue, Slot
  <2>3. \/ copied' = copied
        \/ /\ row[s].status = "creating"
           /\ copied' = [copied EXCEPT ![s] = copied[s] \cup {loc[c].done + 1}]
    BY <1>5 DEF CopyLeg, Matches, Slot
  <2>4. TouchRule(c) /\ GraphRule(c)
    BY <1>0, <1>3, <2>1, <2>3 DEF TouchRule, GraphRule, TypeOK, GraphOK, Reserving
  <2>5. pc'[c] # "demote" => /\ SameSlot(c) /\ loc'[c].done = loc[c].done + 1
                             /\ loc'[c].done \in copied'[s]
    BY <1>0, <2>2 DEF SetLoc, TypeOK, Locals, SameSlot, GraphOK
  <2>6. CallRule(c)
    BY <1>3, <2>0, <2>1, <2>2, <2>5 DEF CallRule, NotCopying
  <2> QED BY <1>1, <1>2, <1>3, <2>4, <2>6 DEF Rules, RowRule
<1> QED BY <1>4, <1>5

LEMMA CallRules ==
    ASSUME TypeOK, LocksHeld, NEW c \in Calls, StartCall(c) \/ Call(c)
    PROVE  Rules(c) /\ CallRule(c)
BY QuietRules, QuietCall, InsertRules, RegistryRules, GraphRules DEF Call

LEMMA RepairRules ==
    ASSUME TypeOK, LocksHeld, NEW r \in Repairers, Repair(r)
    PROVE  Rules(r) /\ OperatorRule(r)
<1>0. r \in Procs /\ loc[r] \in Locals /\ Slot(r) \in Slugs
  BY CallProcs, SlugType DEF Slot
<1>1. OnlyMoves(r)
  BY <1>0, Moves DEF Repair, Scan, RepairSkip, RepairJudge, RepairApply, Finish
<1>2. CASE Scan(r) \/ \E s \in Slugs : RepairSkip(r, s)
  <2>1. pc'[r] \in {"rows", "idle"}
    BY <1>0, <1>2, Went DEF Scan, RepairSkip, RowsLeft
  <2>2. LockRule(r)
    BY <1>2, <2>1 DEF Scan, RepairSkip, LockRule, Critical, CreatePc, ForkPc
  <2>3. UNCHANGED <<row, graphVars, purged, handDeleted>>
    BY <1>2 DEF Scan, RepairSkip, envVars
  <2> QED BY <1>0, <1>1, <2>1, <2>2, <2>3, Quiet DEF Rules, OperatorRule
<1>3. CASE \E s \in Slugs : RepairJudge(r, s)
  <2>1. PICK s \in Slugs : RepairJudge(r, s)
    BY <1>3
  <2>2. pc'[r] = "apply" /\ Acquire(r) /\ LockRule(r)
    BY <1>0, <2>1, Went DEF RepairJudge, LockRule
  <2>3. UNCHANGED <<row, graphVars, purged, handDeleted>>
    BY <2>1 DEF RepairJudge, envVars
  <2> DEFINE todo == loc[r].todo \ {s}
             owner == row[s].owner
             verdict == Verdict(s)
  <2>4. SetLoc(r, [loc[r] EXCEPT !.slug = s, !.todo = todo, !.owner = owner,
                                 !.verdict = verdict])
    BY <2>1 DEF RepairJudge
  <2>5. verdict = "promote" => row[s].forked = NoSource /\ anchor[s] = "own"
    BY DEF Verdict
  <2> HIDE DEF todo, owner, verdict
  <2>6. loc'[r].slug = s /\ loc'[r].verdict = verdict
    BY <1>0, <2>4 DEF SetLoc, TypeOK, Locals
  <2>7. row[s].status = "creating" /\ row[s].stale
    BY <2>1 DEF RepairJudge, Due
  <2> QED BY <1>0, <1>1, <2>2, <2>3, <2>5, <2>6, <2>7, Quiet DEF Rules, OperatorRule
<1>4. CASE RepairApply(r)
  <2>1. pc[r] = "apply" /\ pc'[r] \in {"rows", "idle"}
    BY <1>0, <1>4, Went DEF RepairApply, Finish, RowsLeft
  <2>2. LockRule(r)
    BY <1>4, <2>1, <1>0, Holds DEF RepairApply, RowsLeft, Critical, CreatePc, ForkPc
  <2>3. \/ row' = row
        \/ loc[r].verdict = "promote" /\ MoveIf(Slot(r), loc[r].owner, "creating", "ready")
        \/ MoveIf(Slot(r), loc[r].owner, "creating", "partial")
    BY <1>4 DEF RepairApply, Slot
  <2>4. RowRule(r) /\ \A t \in Slugs \ {Slot(r)} : row'[t] = row[t]
    BY <1>0, <2>1, <2>3, Updated DEF RowRule, Statuses, Matches, Promotes
  <2>5. UNCHANGED <<graphVars, purged, handDeleted>>
    BY <1>4 DEF RepairApply, envVars
  <2> QED BY <1>0, <1>1, <2>1, <2>2, <2>4, <2>5, RegistryStep DEF Rules, OperatorRule
<1> QED BY <1>2, <1>3, <1>4 DEF Repair

LEMMA PromoteRules ==
    ASSUME TypeOK, LocksHeld, NEW p \in Promoters, NEW s \in Slugs,
           PromoteJudge(p, s) \/ PromoteApply(p)
    PROVE  Rules(p) /\ OperatorRule(p)
<1>0. p \in Procs /\ loc[p] \in Locals /\ Slot(p) \in Slugs
  BY CallProcs, SlugType DEF Slot
<1>1. OnlyMoves(p)
  BY <1>0, Moves DEF PromoteJudge, PromoteApply, Finish
<1>2. CASE PromoteJudge(p, s)
  <2>1. pc'[p] = "promote" /\ Acquire(p) /\ LockRule(p)
    BY <1>0, <1>2, Went DEF PromoteJudge, LockRule
  <2>2. UNCHANGED <<row, graphVars, purged, handDeleted>>
    BY <1>2 DEF PromoteJudge, envVars
  <2>3. loc'[p].slug = s
    BY <1>0, <1>2 DEF PromoteJudge, SetLoc, TypeOK, Locals
  <2>4. row[s].status = "partial" /\ anchor[s] = "own"
    BY <1>2 DEF PromoteJudge
  <2> QED BY <1>0, <1>1, <2>1, <2>2, <2>3, <2>4, Quiet DEF Rules, OperatorRule
<1>3. CASE PromoteApply(p)
  <2>1. pc[p] = "promote" /\ pc'[p] = "idle"
    BY <1>0, <1>3, Went DEF PromoteApply, Finish
  <2>2. LockRule(p)
    BY <2>1, <1>0, <1>3, Holds DEF Critical, CreatePc, ForkPc, PromoteApply
  <2>3. \/ row' = row
        \/ row[Slot(p)].forked = NoSource /\ MoveIf(Slot(p), loc[p].owner, "partial", "ready")
    BY <1>3 DEF PromoteApply, Slot
  <2>4. RowRule(p) /\ \A t \in Slugs \ {Slot(p)} : row'[t] = row[t]
    BY <1>0, <2>1, <2>3, Updated DEF RowRule, Statuses, Matches, Promotes
  <2>5. UNCHANGED <<graphVars, purged, handDeleted>>
    BY <1>3 DEF PromoteApply, envVars
  <2> QED BY <1>0, <1>1, <2>1, <2>2, <2>4, <2>5, RegistryStep DEF Rules, OperatorRule
<1> QED BY <1>2, <1>3

LEMMA EnsureRules ==
    ASSUME TypeOK, LocksHeld, NEW e \in Restorers, NEW s \in Slugs,
           EnsureJudge(e, s) \/ EnsureWrite(e)
    PROVE  Rules(e) /\ OperatorRule(e)
<1>0. e \in Procs /\ loc[e] \in Locals /\ Slot(e) \in Slugs
  BY CallProcs, SlugType DEF Slot
<1>1. OnlyMoves(e)
  BY <1>0, Moves DEF EnsureJudge, EnsureWrite, Finish
<1>2. CASE EnsureJudge(e, s)
  <2>1. pc'[e] = "restore" /\ Acquire(e) /\ LockRule(e)
    BY <1>0, <1>2, Went DEF EnsureJudge, LockRule
  <2>2. UNCHANGED <<row, graphVars, purged, handDeleted>>
    BY <1>2 DEF EnsureJudge, envVars
  <2>3. loc'[e].slug = s
    BY <1>0, <1>2 DEF EnsureJudge, SetLoc, TypeOK, Locals
  <2>4. row[s].status = "ready"
    BY <1>2 DEF EnsureJudge
  <2> QED BY <1>0, <1>1, <2>1, <2>2, <2>3, <2>4, Quiet DEF Rules, OperatorRule
<1>3. CASE EnsureWrite(e)
  <2>1. pc[e] = "restore" /\ pc'[e] = "idle"
    BY <1>0, <1>3, Went DEF EnsureWrite, Finish
  <2>2. LockRule(e)
    BY <2>1, <1>0, <1>3, Holds DEF Critical, CreatePc, ForkPc, EnsureWrite
  <2>3. /\ UNCHANGED <<row, copied, purged, handDeleted>>
        /\ \/ anchor' = anchor /\ late' = late
           \/ /\ row[Slot(e)].status = "ready"
              /\ \/ anchor' = [anchor EXCEPT ![Slot(e)] = "own"] /\ late' = late
                 \/ late' = late \cup {Slot(e)} /\ anchor' = anchor
    BY <1>3 DEF EnsureWrite, WriteUnacknowledged, Matches, Slot, envVars
  <2>4. TouchRule(e) /\ GraphRule(e)
    BY <1>0, <2>1, <2>3 DEF TouchRule, GraphRule, TypeOK, GraphOK
  <2> QED BY <1>1, <2>1, <2>2, <2>3, <2>4 DEF Rules, RowRule, OperatorRule
<1> QED BY <1>2, <1>3

LEMMA CrashRules ==
    ASSUME TypeOK, NEW p \in Procs, Crash(p)
    PROVE  /\ Rules(p) /\ UNCHANGED <<row, graphVars, loc>>
           /\ pc'[p] \in {"dead", "idle"} /\ (p \in Calls => pc'[p] = "dead")
<1>1. pc'[p] = IF p \in Calls THEN "dead" ELSE "idle"
  BY Went DEF Crash, Finish
<1>2. OnlyMoves(p)
  BY Moves DEF Crash, Finish
<1>3. LockRule(p)
  BY <1>1 DEF Crash, Finish, LockRule, Critical, CreatePc, ForkPc
<1>4. UNCHANGED <<row, graphVars, purged, handDeleted, loc>>
  BY DEF Crash
<1> QED BY <1>1, <1>2, <1>3, <1>4, Quiet DEF Rules, graphVars

-----------------------------------------------------------------------------
(* From the rules to the invariant.                                        *)

Moved(p) ==
    /\ Rules(p)
    /\ p \in Calls => CallRule(p)
    /\ p \notin Calls => OperatorRule(p)

UnusedNext(s) == anchor'[s] # "own" /\ s \notin late' /\ copied'[s] = {}

SameStores ==
    \A s \in Slugs :
        /\ row'[s] = row[s] /\ anchor'[s] = anchor[s] /\ copied'[s] = copied[s]
        /\ s \in late' <=> s \in late

LEMMA LocksKept ==
    ASSUME TypeOK, LocksHeld, NEW p \in Procs, OnlyMoves(p), LockRule(p)
    PROVE  LocksHeld'
<1> SUFFICES ASSUME NEW q \in Procs, pc'[q] \in Critical
             PROVE  lock'[HostOf[q]] = q
  BY DEF LocksHeld
<1>0. HostOf[p] \in DOMAIN lock /\ HostOf[q] \in DOMAIN lock
  BY DEF TypeOK, Hosts
<1>1. CASE q = p
  BY <1>0, <1>1 DEF LockRule, Acquire, LocksHeld
<1>2. CASE q # p
  BY <1>2, ProcsAssumption, <1>0 DEF OnlyMoves, LocksHeld, LockRule, Acquire, Release
<1> QED BY <1>1, <1>2

\* Under one lock, nobody else is at a point that needs it.
LEMMA Alone ==
    ASSUME OneHost, TypeOK, LocksHeld, NEW p \in Procs, OnlyMoves(p), LockRule(p),
           NEW q \in Procs, q # p, pc[q] \in Critical
    PROVE  pc[p] \notin Critical /\ pc'[p] \notin Critical
BY LocksKept DEF OneHost, LocksHeld, OnlyMoves

\* Without the lock nothing is written.
LEMMA Inert ==
    ASSUME NEW p \in Procs, Rules(p), pc[p] \notin Critical
    PROVE  SameStores
BY DEF Critical, CreatePc, ForkPc, Rules, RowRule, Promotes, GraphRule, TouchRule, SameStores

LEMMA AloneInert ==
    ASSUME OneHost, TypeOK, LocksHeld, NEW p \in Procs, Rules(p),
           NEW q \in Procs, q # p, pc[q] \in Critical
    PROVE  SameStores /\ pc[p] \notin Critical /\ pc'[p] \notin Critical
BY Alone, Inert DEF Rules

LEMMA PcSets ==
    /\ Reserving \subseteq Holding /\ Holding \subseteq Critical /\ "insert" \in Critical
    /\ {"apply", "promote", "restore"} \subseteq Critical
    /\ \A p \in Procs : Resolving(p) => pc[p] \in Critical /\ p \notin Calls
BY ProcsAssumption DEF Reserving, Holding, Critical, CreatePc, ForkPc, Resolving

\* A call that does not move keeps what it relies on.
LEMMA OthersCall ==
    ASSUME Settled, SoundInv, NEW p \in Procs, Moved(p), NEW c \in Calls, c # p
    PROVE  CallOf(c)'
<1>0. /\ TypeOK /\ LocksHeld /\ CallOf(c) /\ Apart /\ c \in Procs /\ Rules(p)
      /\ Slot(c) \in Slugs
  BY CallProcs, SlugType DEF SoundInv, IInv, Moved, Slot
<1>1. pc'[c] = pc[c] /\ loc'[c] = loc[c] /\ handDeleted' = handDeleted
  BY <1>0 DEF Rules, OnlyMoves, TouchRule
<1>2. CASE SameStores
  BY <1>0, <1>1, <1>2 DEF CallOf, SameStores, Slot, Unused
<1>3. CASE pc[c] \notin Critical
  BY <1>3, PcSets, <1>1 DEF Reserving, CallOf
<1>4. CASE OneHost /\ pc[c] \in Critical
  BY <1>0, <1>4, AloneInert, <1>2
<1>5. CASE ~OneHost
  <2>0. Answered /\ handDeleted = {}
    BY <1>5 DEF Settled, SoundInv
  <2>1. pc[c] # "adopt"
    BY <1>0, <2>0 DEF CallOf
  <2>2. CASE pc[c] \in Holding
    <3> DEFINE s == Slot(c)
    <3>1. /\ row[s].status # "free"
          /\ row[s].owner = Owner[c] /\ row[s].forked = SourceOf(c)
      BY <1>0, <2>0, <2>1, <2>2 DEF CallOf
    <3>2. Slot(p) = s => ~(p \in Calls /\ pc[p] \in Holding)
      BY <1>0, <2>2 DEF Apart
    <3>3. Slot(p) = s /\ pc[c] \in Reserving => ~Resolving(p)
      BY <1>0 DEF Apart
    <3>4. /\ row'[s].status # "free"
          /\ row'[s].owner = Owner[c] /\ row'[s].forked = SourceOf(c)
      BY <1>0, <3>1, <3>2 DEF Rules, TouchRule, RowRule, Holding, Reserving
    <3>5. ASSUME pc[c] \in Reserving PROVE row'[s].status # "ready" /\ UnusedNext(s)
      <4>1. row[s].status # "ready" /\ Unused(s)
        BY <1>0, <2>0, <3>5 DEF CallOf
      <4>2. CASE Slot(p) # s
        BY <1>0, <4>1, <4>2 DEF Rules, TouchRule, Unused, UnusedNext, Free
      <4>3. CASE Slot(p) = s
        <5>2. ~Promotes(p)
          BY <3>2, <3>3, <3>5, <4>3 DEF Promotes, Resolving, Holding
        <5>3. row'[s].status # "ready"
          BY <1>0, <3>1, <4>1, <4>3, <5>2 DEF Rules, RowRule, Free
        <5>4. ~(p \in Restorers /\ pc[p] = "restore")
          BY <3>3, <3>5, <4>3 DEF Resolving
        <5>5. ~(p \in Calls /\ pc[p] \in {"anchor", "copy"})
          BY <3>2, <4>3 DEF Holding, Reserving
        <5>6. UnusedNext(s)
          BY <1>0, <4>1, <4>3, <5>4, <5>5 DEF Rules, GraphRule, Unused, UnusedNext
        <5> QED BY <5>3, <5>6
      <4> QED BY <4>2, <4>3
    <3> QED BY <1>1, <1>5, <2>1, <3>4, <3>5 DEF CallOf, Slot, Unused, UnusedNext
  <2>3. CASE pc[c] \notin Holding
    BY <1>1, <1>5, <2>1, <2>3, PcSets DEF CallOf
  <2> QED BY <2>2, <2>3
<1> QED BY <1>2, <1>3, <1>4, <1>5

\* The call that moves.
LEMMA OwnCall ==
    ASSUME Settled, SoundInv, NEW c \in Calls, Moved(c)
    PROVE  CallOf(c)'
<1> DEFINE s == Slot(c)
<1>0. /\ CallOf(c) /\ Rules(c) /\ CallRule(c) /\ RowsOK
      /\ s \in Slugs /\ handDeleted' = handDeleted
  BY CallProcs, SlugType DEF SoundInv, IInv, Moved, Slot, Rules, TouchRule
<1>1. pc'[c] = "insert" /\ loc'[c].free => Slot(c)' = s /\ row'[s].status = "free"
  BY <1>0 DEF CallRule, SameSlot, Slot
<1>2. pc'[c] = "adopt" => ~Answered /\ OneHost /\ loc[c].free
  BY <1>0 DEF CallRule, Answered, Settled
<1>3. pc'[c] \in Holding => Slot(c)' = s
  BY <1>0 DEF CallRule, SameSlot, Slot, Holding, Reserving
<1>4. ASSUME pc'[c] \in Holding
      PROVE  /\ \/ row'[s].status = "free"
                \/ row'[s].owner = Owner[c] /\ row'[s].forked = SourceOf(c)
             /\ pc'[c] # "adopt" => row'[s].status # "free" \/ s \in handDeleted
  <2>1. CASE pc'[c] = "adopt"
    BY <1>0, <1>2, <2>1 DEF CallRule, CallOf, Rules, RowRule, NewRow, Promotes
  <2>2. CASE pc'[c] = "identity"
    BY <1>0, <2>2 DEF CallRule, CallOf, NewRow, Holding, Reserving
  <2>3. CASE pc'[c] \in {"discard", "anchor", "reprobe", "copy", "ready"}
    BY <1>0, <2>3 DEF CallRule, Holding, Reserving, CallOf
  <2>4. CASE pc'[c] = "reconcile"
    BY <1>0, <2>4 DEF CallRule, Holding, Reserving, Rules, RowRule, CallOf
  <2> QED BY <1>4, <2>1, <2>2, <2>3, <2>4 DEF Holding, Reserving
<1>5. ASSUME pc'[c] \in Reserving
      PROVE  row'[s].status # "ready" /\ (UnusedNext(s) \/ s \in handDeleted)
  <2>1. row[s].status = "free" => Unused(s) \/ s \in handDeleted
    BY <1>0 DEF RowsOK, NoOrphan, Unused
  <2>2. pc[c] \notin {"anchor", "copy"}
    BY <1>0, <1>5 DEF CallRule, Reserving
  <2>3. Unused(s) => UnusedNext(s)
    BY <1>0, <2>2, ProcsAssumption DEF Rules, GraphRule, Unused, UnusedNext
  <2>4. CASE pc'[c] = "adopt"
    <3>1. pc[c] = "insert" /\ row[s].status = "free"
      BY <1>0, <1>2, <2>4 DEF CallRule, CallOf
    <3> QED BY <1>0, <2>1, <2>3, <3>1 DEF Rules, RowRule, NewRow, Promotes
  <2>5. CASE pc'[c] = "identity"
    BY <1>0, <2>1, <2>3, <2>5 DEF CallRule, CallOf, NewRow, Reserving
  <2>6. CASE pc'[c] \in {"discard", "anchor"}
    BY <1>0, <2>3, <2>6 DEF CallRule, CallOf, Reserving
  <2> QED BY <1>5, <2>4, <2>5, <2>6 DEF Reserving
<1> QED BY <1>0, <1>1, <1>2, <1>3, <1>4, <1>5, PcSets DEF CallOf, Unused, UnusedNext

\* One call at a slug, and no operator resolving what a call reserves.
LEMMA CallsApart ==
    ASSUME Settled, SoundInv, NEW p \in Procs, Moved(p), NEW c \in Calls, NEW d \in Calls,
           c # d, d # p, pc'[c] \in Holding, pc'[d] \in Holding
    PROVE  loc'[c].slug # loc'[d].slug
<1>0. /\ TypeOK /\ LocksHeld /\ Apart /\ Rules(p) /\ CallOf(d) /\ c \in Procs /\ d \in Procs
      /\ pc'[d] = pc[d] /\ loc'[d] = loc[d]
  BY CallProcs DEF SoundInv, IInv, Moved, Rules, OnlyMoves
<1>1. CASE c # p
  BY <1>0, <1>1 DEF Rules, OnlyMoves, Apart, Slot
<1>2. CASE c = p /\ OneHost
  BY <1>0, <1>2, AloneInert, PcSets
<1>3. CASE c = p /\ ~OneHost
  <2>0. Answered /\ handDeleted = {}
    BY <1>3 DEF Settled, SoundInv
  <2>1. CallRule(c) /\ pc'[c] # "adopt"
    BY <1>3, <2>0 DEF Moved, CallRule, Answered
  <2>2. SameSlot(c)
    BY <2>1 DEF CallRule, Holding, Reserving
  <2>3. pc[c] \in Holding \/ row[Slot(c)].status = "free"
    BY <2>1 DEF CallRule, Holding, Reserving
  <2>4. row[Slot(d)].status # "free"
    BY <1>0, <2>0 DEF CallOf
  <2> QED BY <1>0, <2>2, <2>3, <2>4 DEF Apart, SameSlot, Slot
<1> QED BY <1>1, <1>2, <1>3

LEMMA OperatorsApart ==
    ASSUME Settled, SoundInv, NEW p \in Procs, Moved(p), NEW c \in Calls, NEW q \in Procs,
           pc'[c] \in Reserving, Resolving(q)'
    PROVE  loc'[c].slug # loc'[q].slug
<1>0. /\ TypeOK /\ LocksHeld /\ Apart /\ Rules(p) /\ CallOf(c) /\ c \in Procs
      /\ Slot(c) \in Slugs
  BY CallProcs, SlugType DEF SoundInv, IInv, Moved, Slot
<1>1. pc'[q] \in Critical /\ q \notin Calls /\ pc'[q] \in {"apply", "promote", "restore"}
  BY PcSets, ProcsAssumption DEF Resolving
<1>2. ASSUME c # p
      PROVE  pc'[c] = pc[c] /\ loc'[c] = loc[c] /\ pc[c] \in Reserving
  BY <1>0, <1>2 DEF Rules, OnlyMoves
<1>3. ASSUME q # p
      PROVE  pc'[q] = pc[q] /\ loc'[q] = loc[q] /\ Resolving(q)
  BY <1>0, <1>3 DEF Rules, OnlyMoves, Resolving
<1>4. CASE c # p /\ q # p
  BY <1>0, <1>2, <1>3, <1>4 DEF Apart, Slot
<1>5. CASE c = p \/ q = p
  <2>1. CASE OneHost
    <3>1. CASE c = p
      BY <1>1, <1>3, <3>1, <1>0, <2>1, AloneInert, PcSets
    <3>2. CASE q = p
      BY <1>1, <1>2, <3>2, PcSets, <1>0, <2>1, AloneInert
    <3> QED BY <1>5, <3>1, <3>2
  <2>2. CASE ~OneHost
    <3>0. Answered /\ handDeleted = {}
      BY <2>2 DEF Settled, SoundInv
    <3>1. CASE c = p
      <4>1. CallRule(c) /\ pc'[c] # "adopt"
        BY <3>0, <3>1 DEF Moved, CallRule, Answered
      <4>2. SameSlot(c)
        BY <4>1 DEF CallRule, Reserving
      <4>3. pc[c] \in Reserving \/ row[Slot(c)].status = "free"
        BY <4>1 DEF CallRule, Reserving
      <4>4. Resolving(q) /\ loc'[q] = loc[q]
        BY <1>1, <1>3, <3>1
      <4>5. row[Slot(q)].status # "free"
        BY <1>0, <3>0, <4>4 DEF Apart
      <4> QED BY <1>0, <4>2, <4>3, <4>4, <4>5 DEF Apart, SameSlot, Slot
    <3>2. CASE q = p
      <4>1. OperatorRule(q) /\ c # p
        BY <1>1, <3>2 DEF Moved
      <4>2. row[Slot(c)].status # "ready" /\ Unused(Slot(c)) /\ loc'[c] = loc[c]
        BY <1>0, <1>2, <3>0, <4>1 DEF CallOf
      <4>3. anchor[loc'[q].slug] = "own" \/ row[loc'[q].slug].status = "ready"
        BY <1>1, <4>1 DEF OperatorRule, Resolving
      <4> QED BY <4>2, <4>3 DEF Unused, Slot
    <3> QED BY <1>5, <3>1, <3>2
  <2> QED BY <2>1, <2>2
<1> QED BY <1>4, <1>5

LEMMA ResolvedHasRow ==
    ASSUME Settled, SoundInv, NEW p \in Procs, Moved(p), NEW q \in Procs, Resolving(q)'
    PROVE  row'[loc'[q].slug].status # "free" \/ loc'[q].slug \in handDeleted'
<1>0. TypeOK /\ LocksHeld /\ Apart /\ Rules(p) /\ handDeleted' = handDeleted
  BY DEF SoundInv, IInv, Moved, Rules, TouchRule
<1>1. q \notin Calls /\ pc'[q] \in {"apply", "promote", "restore"}
  BY ProcsAssumption DEF Resolving
<1>2. CASE q = p
  BY <1>1, <1>2 DEF Moved, OperatorRule
<1>3. CASE q # p
  <2>1. /\ pc'[q] = pc[q] /\ loc'[q] = loc[q] /\ Resolving(q) /\ pc[q] \in Critical
        /\ Slot(q) \in Slugs
    BY <1>0, <1>1, <1>3, PcSets, SlugType DEF Rules, OnlyMoves, Resolving, Slot
  <2>2. row[Slot(q)].status # "free" \/ Slot(q) \in handDeleted
    BY <1>0, <2>1 DEF Apart
  <2>3. CASE SameStores
    BY <1>0, <2>1, <2>2, <2>3 DEF SameStores, Slot
  <2>4. CASE OneHost
    BY <1>0, <1>3, <2>1, <2>3, <2>4, AloneInert
  <2>5. CASE ~OneHost
    <3>1. row[Slot(q)].status # "free"
      BY <2>2, <2>5 DEF Settled, SoundInv
    <3>2. CASE Slot(p) # Slot(q)
      BY <1>0, <2>1, <3>1, <3>2 DEF Rules, TouchRule, Slot
    <3>3. CASE Slot(p) = Slot(q)
      BY <1>0, <2>1, <3>3, <3>1 DEF Apart, Reserving, Rules, RowRule, Slot
    <3> QED BY <3>2, <3>3
  <2> QED BY <2>4, <2>5
<1> QED BY <1>2, <1>3

LEMMA ApartKept ==
    ASSUME Settled, SoundInv, NEW p \in Procs, Moved(p)
    PROVE  Apart'
BY CallsApart, OperatorsApart, ResolvedHasRow DEF Apart, Slot

LEMMA JudgeKept ==
    ASSUME Settled, SoundInv, NEW p \in Procs, Moved(p), NEW r \in Repairers
    PROVE  JudgeOf(r)'
<1> SUFFICES ASSUME pc'[r] = "apply" PROVE JudgeOf(r)'
  BY DEF JudgeOf
<1>0. /\ TypeOK /\ LocksHeld /\ Apart /\ Rules(p) /\ JudgeOf(r) /\ r \in Procs
      /\ r \notin Calls /\ Slot(r) \in Slugs
  BY CallProcs, SlugType, ProcsAssumption DEF SoundInv, IInv, Moved, Slot
<1>1. CASE r = p
  BY <1>0, <1>1 DEF Moved, OperatorRule, JudgeOf, Slot
<1>2. CASE r # p
  <2>1. pc'[r] = pc[r] /\ loc'[r] = loc[r] /\ pc[r] \in Critical
    BY <1>0, <1>2, PcSets DEF Rules, OnlyMoves
  <2>2. CASE SameStores
    BY <1>0, <2>1, <2>2 DEF SameStores, JudgeOf, Slot
  <2>3. CASE OneHost
    BY <1>0, <1>2, <2>1, <2>2, <2>3, AloneInert
  <2>4. CASE ~OneHost
    <3> SUFFICES ASSUME loc[r].verdict = "promote"
                 PROVE  row'[Slot(r)].status = "free" \/ row'[Slot(r)].forked = NoSource
      BY <2>1, <2>4 DEF JudgeOf, Slot
    <3>1. Resolving(r)
      BY <2>1 DEF Resolving
    <3>2. row[Slot(r)].status # "free" /\ row[Slot(r)].forked = NoSource
      BY <1>0, <2>1, <2>4, <3>1 DEF Apart, JudgeOf, Settled, SoundInv
    <3>3. CASE Slot(p) # Slot(r)
      BY <1>0, <3>2, <3>3 DEF Rules, TouchRule
    <3>4. CASE Slot(p) = Slot(r)
      BY <1>0, <3>2, <3>4 DEF Rules, RowRule, Free
    <3> QED BY <3>3, <3>4
  <2> QED BY <2>3, <2>4
<1> QED BY <1>1, <1>2

\* A ready row stays as it is, as long as nobody deletes it by hand.
LEMMA ReadyStays ==
    ASSUME SoundInv, NEW p \in Procs, Moved(p), NEW s \in Slugs, row[s].status = "ready"
    PROVE  row'[s] = row[s]
<1>0. Rules(p) /\ TypeOK
  BY DEF Moved, SoundInv, IInv
<1>1. CASE Slot(p) # s
  BY <1>0, <1>1 DEF Rules, TouchRule
<1>2. CASE Slot(p) = s
  BY <1>2, <1>0 DEF SoundInv, CallOf, Reserving, Rules, RowRule
<1> QED BY <1>1, <1>2

LEMMA OkKept ==
    ASSUME SoundInv, NEW p \in Procs, Moved(p), NEW c \in Calls
    PROVE  OkOf(c)'
<1> SUFFICES ASSUME pc'[c] \in {"ok", "ingest"} PROVE OkOf(c)'
  BY DEF OkOf
<1>0. /\ OkOf(c) /\ CallOf(c) /\ Rules(p) /\ c \in Procs /\ Slot(c) \in Slugs
      /\ handDeleted' = handDeleted
  BY CallProcs, SlugType DEF SoundInv, IInv, Moved, Slot, Rules, TouchRule
<1>1. CASE c = p
  <2>1. CallRule(c)
    BY <1>1 DEF Moved
  <2>2. pc[c] = "ready" \/ pc[c] = "reconcile" =>
           \/ row[Slot(c)].status = "free"
           \/ row[Slot(c)].owner = Owner[c] /\ row[Slot(c)].forked = SourceOf(c)
    BY <1>0 DEF CallOf, Holding
  <2>3. SameSlot(c)
    BY <2>1 DEF CallRule
  <2> QED BY <1>0, <2>1, <2>2, <2>3 DEF CallRule, OkOf, Matches, Slot, SameSlot
<1>2. CASE c # p
  BY <1>0, <1>2, ReadyStays DEF Rules, OnlyMoves, OkOf, Matches, Slot
<1> QED BY <1>1, <1>2

LEMMA CopyGrows ==
    ASSUME NEW p \in Procs, Rules(p), NEW s \in Slugs
    PROVE  copied[s] \subseteq copied'[s] /\ purged' = purged
BY DEF Rules, TouchRule, GraphRule

LEMMA CopyKept ==
    ASSUME SoundInv, NEW p \in Procs, Moved(p), NEW f \in Forkers
    PROVE  CopyOf(f)'
<1>0. /\ CopyOf(f) /\ Rules(p) /\ f \in Calls /\ f \in Procs /\ Slot(f) \in Slugs
      /\ loc[f].done \in 0..Legs
  BY CallProcs, SlugType DEF SoundInv, IInv, Moved, Slot, Calls, Locals
<1>1. copied[Slot(f)] \subseteq copied'[Slot(f)] /\ purged' = purged
  BY <1>0, CopyGrows
<1>2. CASE f # p
  BY <1>0, <1>2, <1>1 DEF Rules, OnlyMoves, CopyOf, Slot
<1>3. CASE f = p
  <2>1. CallRule(f) /\ f \notin Creators
    BY <1>0, <1>3, ProcsAssumption DEF Moved
  <2>2. pc'[f] \in NotCopying => loc'[f].done = 0
    BY <1>0, <2>1 DEF CallRule, CopyOf
  <2>3. ASSUME pc'[f] \in {"copy", "ready"}
        PROVE  /\ Slot(f)' = Slot(f)
               /\ 1..loc'[f].done \subseteq copied'[Slot(f)] \/ Slot(f) \in purged
    <3>1. Slot(f)' = Slot(f)
      BY <2>1, <2>3 DEF CallRule, SameSlot, Slot
    <3>2. CASE pc[f] = "anchor"
      BY <1>0, <2>1, <2>3, <3>2, <3>1 DEF CallRule, CopyOf, NotCopying
    <3>3. CASE pc[f] = "copy"
      BY <2>1, <2>3, <3>3, <1>0, <1>1, BoundsAssumption, <3>1 DEF CallRule, CopyOf
    <3> QED BY <2>1, <2>3, <3>2, <3>3 DEF CallRule
  <2>4. pc'[f] = "ready" => loc'[f].done = Legs
    BY <2>1 DEF CallRule
  <2> QED BY <1>1, <2>2, <2>3, <2>4 DEF CopyOf
<1> QED BY <1>2, <1>3

\* A forked row becomes ready in the hands of the fork that wrote it.
LEMMA OnlyItsFork ==
    ASSUME SoundInv, NEW p \in Procs, Moved(p), NEW s \in Slugs,
           row[s].status # "ready", row'[s].status = "ready", row'[s].forked # NoSource
    PROVE  Slot(p) = s /\ p \in Forkers /\ pc[p] = "ready"
<1>0. Rules(p) /\ RowsOK
  BY DEF Moved, SoundInv
<1>1. Slot(p) = s
  BY <1>0 DEF Rules, TouchRule
<1>2. ~(p \in Creators /\ row'[s] = NewRow(p, "ready"))
  BY ProcsAssumption DEF NewRow, SourceOf
<1>3. Promotes(p) /\ row'[s].forked = row[s].forked /\ row[s].status # "free"
  BY <1>0, <1>1, <1>2 DEF Rules, RowRule, Free, NewRow
<1>4. ~(p \in Repairers /\ pc[p] = "apply" /\ loc[p].verdict = "promote")
  BY <1>1, <1>3 DEF SoundInv, JudgeOf
<1>5. p \in Calls /\ pc[p] = "ready"
  BY <1>1, <1>3, <1>4 DEF Promotes
<1>6. row[s].forked = SourceOf(p)
  BY <1>1, <1>3, <1>5 DEF SoundInv, CallOf, Holding
<1> QED BY <1>1, <1>3, <1>5, <1>6 DEF SourceOf

LEMMA RowsKept ==
    ASSUME SoundInv, IInv', NEW p \in Procs, Moved(p)
    PROVE  RowsOK'
<1>0. Rules(p) /\ RowsOK /\ TypeOK /\ TypeOK' /\ Slot(p) \in Slugs /\ handDeleted' = handDeleted
  BY SlugType DEF Moved, SoundInv, IInv, Slot, Rules, TouchRule
<1>1. ASSUME NEW s \in Slugs, row'[s].status = "free" PROVE row'[s] = Free
  BY <1>0, <1>1 DEF Rules, TouchRule, RowsOK, RowRule, NewRow
<1>2. ASSUME NEW s \in Slugs, row'[s].status = "ready", row'[s].forked # NoSource
      PROVE  copied'[s] = 1..Legs \/ s \in purged'
  <2>0. copied[s] \subseteq copied'[s] /\ purged' = purged /\ copied'[s] \subseteq 1..Legs
    BY <1>0, CopyGrows DEF TypeOK, GraphOK
  <2>1. CASE row[s].status = "ready"
    BY <1>0, <1>2, <2>1, ReadyStays, <2>0 DEF RowsOK, ForkReadyIsComplete
  <2>2. CASE row[s].status # "ready"
    BY <1>2, <2>2, OnlyItsFork, <2>0 DEF SoundInv, CopyOf
  <2> QED BY <2>1, <2>2
<1>3. ASSUME NEW s \in Slugs, ~UnusedNext(s), row'[s].status = "free"
      PROVE  s \in handDeleted
  <2>1. row[s].status = "free" => Unused(s) \/ s \in handDeleted
    BY <1>0 DEF RowsOK, NoOrphan, Unused
  <2>2. CASE Slot(p) # s
    BY <1>0, <1>3, <2>1, <2>2 DEF Rules, TouchRule, Unused, UnusedNext
  <2>3. CASE Slot(p) = s
    <3>1. CASE row[s].status = "free"
      BY <1>0, <1>3, <2>1, <2>3, <3>1 DEF Rules, GraphRule, Unused, UnusedNext
    <3>2. CASE row[s].status # "free"
      <4>1. p \in Calls /\ pc[p] = "discard"
        BY <1>0, <1>3, <2>3, <3>2 DEF Rules, RowRule
      <4>2. Unused(s) \/ s \in handDeleted
        BY <2>3, <4>1 DEF SoundInv, CallOf, Reserving
      <4>3. p \notin Restorers
        BY <4>1, ProcsAssumption
      <4> QED BY <1>0, <1>3, <2>3, <4>1, <4>2, <4>3 DEF Rules, GraphRule, Unused, UnusedNext
    <3> QED BY <3>1, <3>2
  <2> QED BY <2>2, <2>3
<1> QED
  BY <1>0, <1>1, <1>2, <1>3 DEF RowsOK, ForkReadyIsComplete, NoOrphan, UnusedNext

LEMMA ProcessKeeps ==
    ASSUME Settled, SoundInv, IInv', NEW p \in Procs, Moved(p)
    PROVE  SoundInv'
<1>1. LocksHeld'
  BY LocksKept DEF SoundInv, IInv, Moved, Rules
<1>2. Answered => handDeleted' = {}
  BY DEF SoundInv, Moved, Rules, TouchRule
<1>3. ASSUME NEW c \in Calls PROVE CallOf(c)'
  BY OthersCall, OwnCall
<1> QED
  BY <1>1, <1>2, <1>3, OkKept, CopyKept, JudgeKept, ApartKept, RowsKept DEF SoundInv

-----------------------------------------------------------------------------
(* The environment.                                                        *)

WorldRule ==
    /\ \A s \in Slugs :
          /\ \/ row'[s] = row[s]
             \/ /\ row[s].status = "creating" /\ row'[s].status = "creating" /\ row'[s].stale
                /\ row'[s].owner = row[s].owner /\ row'[s].forked = row[s].forked
             \/ row'[s] = Free /\ s \in handDeleted'
          /\ Unused(s) => UnusedNext(s)
          /\ copied[s] \subseteq copied'[s] \/ s \in purged'
    /\ handDeleted \subseteq handDeleted'
    /\ purged \subseteq purged'
    /\ Answered => handDeleted' = handDeleted
    /\ UNCHANGED <<lock, pc, loc>>

LEMMA WorldRules ==
    ASSUME TypeOK, NEW s \in Slugs,
           Age(s) \/ LateCommit(s) \/ DeleteContent(s) \/ DeleteRow(s)
    PROVE  WorldRule
<1>1. CASE Age(s)
  <2>1. SetRow(s, [row[s] EXCEPT !.stale = TRUE]) /\ row[s] \in Rows
    BY <1>1 DEF Age, TypeOK
  <2>2. row'[s] = [row[s] EXCEPT !.stale = TRUE] /\ \A t \in Slugs \ {s} : row'[t] = row[t]
    BY <2>1, RowSet
  <2>3. /\ row'[s].status = row[s].status /\ row'[s].stale
        /\ row'[s].owner = row[s].owner /\ row'[s].forked = row[s].forked
    BY <2>1, <2>2 DEF Rows
  <2>4. UNCHANGED <<anchor, late, copied, lock, pc, loc, handDeleted, purged>>
    BY <1>1 DEF Age, graphVars, envVars
  <2> QED BY <1>1, <2>2, <2>3, <2>4 DEF WorldRule, Unused, UnusedNext, Age
<1>2. CASE LateCommit(s)
  BY <1>2 DEF LateCommit, WorldRule, Unused, UnusedNext, TypeOK, GraphOK, envVars
<1>3. CASE DeleteContent(s)
  BY <1>3 DEF DeleteContent, WorldRule, Unused, UnusedNext, TypeOK, GraphOK
<1>4. CASE DeleteRow(s)
  <2>1. row'[s] = Free /\ \A t \in Slugs \ {s} : row'[t] = row[t]
    BY <1>4, RowSet DEF DeleteRow
  <2>2. ~Answered
    BY <1>4, BoundsAssumption DEF DeleteRow, Answered, TypeOK, EnvOK
  <2>3. UNCHANGED <<anchor, late, copied, lock, pc, loc, purged>>
        /\ handDeleted' = handDeleted \cup {s}
    BY <1>4 DEF DeleteRow, graphVars
  <2> QED BY <2>1, <2>2, <2>3 DEF WorldRule, Unused, UnusedNext
<1> QED BY <1>1, <1>2, <1>3, <1>4

LEMMA WorldKeeps ==
    ASSUME SoundInv, IInv', WorldRule
    PROVE  SoundInv'
<1>0. /\ TypeOK /\ TypeOK' /\ pc' = pc /\ loc' = loc /\ lock' = lock
      /\ handDeleted \subseteq handDeleted' /\ purged \subseteq purged'
  BY DEF SoundInv, IInv, WorldRule
<1>1. LocksHeld' /\ (Answered => handDeleted' = {})
  BY <1>0 DEF SoundInv, LocksHeld, WorldRule
<1>2. ASSUME NEW c \in Calls PROVE CallOf(c)' /\ OkOf(c)'
  <2>0. CallOf(c) /\ OkOf(c) /\ Slot(c) \in Slugs /\ Slot(c)' = Slot(c)
    BY <1>0, SlugType, CallProcs DEF SoundInv, Slot
  <2>1. \/ row'[Slot(c)] = row[Slot(c)]
        \/ /\ row[Slot(c)].status = "creating" /\ row'[Slot(c)].status = "creating"
           /\ row'[Slot(c)].owner = row[Slot(c)].owner
           /\ row'[Slot(c)].forked = row[Slot(c)].forked
        \/ row'[Slot(c)].status = "free" /\ Slot(c) \in handDeleted'
    BY <2>0 DEF WorldRule, Free
  <2>2. Unused(Slot(c)) => Unused(Slot(c))'
    BY <2>0 DEF WorldRule, Unused, UnusedNext
  <2>3. CallOf(c)'
    BY <1>0, <2>0, <2>1, <2>2 DEF CallOf
  <2>4. OkOf(c)'
    BY <1>0, <2>0, <2>1 DEF OkOf, Matches
  <2> QED BY <2>3, <2>4
<1>3. ASSUME NEW f \in Forkers PROVE CopyOf(f)'
  BY <1>0, SlugType, CallProcs DEF SoundInv, Slot, Calls, WorldRule, CopyOf
<1>4. ASSUME NEW r \in Repairers PROVE JudgeOf(r)'
  BY <1>0, SlugType, CallProcs DEF SoundInv, Slot, WorldRule, Free, JudgeOf
<1>5. Apart'
  BY <1>0, SlugType, CallProcs DEF SoundInv, Slot, Resolving, WorldRule, Apart
<1>6. RowsOK'
  <2>0. RowsOK
    BY DEF SoundInv
  <2>1. ASSUME NEW s \in Slugs, row'[s].status = "free" PROVE row'[s] = Free
    BY <2>0, <2>1 DEF RowsOK, WorldRule
  <2>2. ASSUME NEW s \in Slugs, row'[s].status = "ready", row'[s].forked # NoSource
        PROVE  copied'[s] = 1..Legs \/ s \in purged'
    <3>1. row'[s] = row[s]
      BY <2>2 DEF WorldRule, Free
    <3>2. copied[s] = 1..Legs \/ s \in purged
      BY <2>0, <2>2, <3>1 DEF RowsOK, ForkReadyIsComplete
    <3>3. copied'[s] \subseteq 1..Legs
      BY <1>0 DEF TypeOK, GraphOK
    <3> QED BY <1>0, <3>2, <3>3 DEF WorldRule
  <2>3. ASSUME NEW s \in Slugs, ~UnusedNext(s), row'[s].status = "free"
        PROVE  s \in handDeleted'
    BY <2>3, <1>0, <2>0 DEF WorldRule, RowsOK, NoOrphan, Unused
  <2> QED BY <2>1, <2>2, <2>3 DEF RowsOK, ForkReadyIsComplete, NoOrphan, UnusedNext
<1> QED BY <1>1, <1>2, <1>3, <1>4, <1>5, <1>6 DEF SoundInv

-----------------------------------------------------------------------------
LEMMA InitSound == Init => SoundInv
<1> SUFFICES ASSUME Init PROVE SoundInv
  OBVIOUS
<1>0. IInv /\ TypeOK
  BY InitInv DEF IInv
<1>1. \A p \in Procs : pc[p] = "idle"
  BY DEF Init
<1>2. \A s \in Slugs : row[s] = Free /\ anchor[s] # "own" /\ copied[s] = {} /\ s \notin late
  BY DEF Init
<1>3. \A p \in Procs : loc[p].done = 0
  BY DEF Init
<1>4. LocksHeld
  BY <1>1 DEF LocksHeld, Critical, CreatePc, ForkPc
<1>5. handDeleted = {}
  BY DEF Init
<1>6. ASSUME NEW c \in Calls PROVE CallOf(c) /\ OkOf(c)
  BY <1>1, CallProcs DEF CallOf, OkOf, Holding, Reserving
<1>7. ASSUME NEW f \in Forkers PROVE CopyOf(f)
  BY <1>1, <1>3, CallProcs DEF Calls, CopyOf
<1>8. ASSUME NEW r \in Repairers PROVE JudgeOf(r)
  BY <1>1, CallProcs DEF JudgeOf
<1>9. Apart
  BY <1>1, CallProcs DEF Apart, Holding, Reserving, Resolving
<1>10. RowsOK
  <2>1. ForkReadyIsComplete
    BY <1>2 DEF ForkReadyIsComplete, Free
  <2>2. NoOrphan
    BY <1>2 DEF NoOrphan
  <2> QED BY <1>2, <2>1, <2>2 DEF RowsOK
<1> QED BY <1>0, <1>4, <1>5, <1>6, <1>7, <1>8, <1>9, <1>10 DEF SoundInv

\* Every step of Next is one of a process that obeys the rules, or of the world.
LEMMA NextRules ==
    ASSUME SoundInv, Next
    PROVE  WorldRule \/ \E p \in Procs : Moved(p)
<1>0. TypeOK /\ LocksHeld
  BY DEF SoundInv, IInv
<1>1. ASSUME NEW c \in Calls, StartCall(c) \/ Call(c) PROVE Moved(c) /\ c \in Procs
  BY <1>0, <1>1, CallRules, CallProcs DEF Moved
<1>2. ASSUME NEW r \in Repairers, Repair(r) PROVE Moved(r) /\ r \in Procs
  BY <1>0, <1>2, RepairRules, CallProcs, ProcsAssumption DEF Moved
<1>3. ASSUME NEW p \in Promoters, NEW s \in Slugs, PromoteJudge(p, s) \/ PromoteApply(p)
      PROVE  Moved(p) /\ p \in Procs
  BY <1>0, <1>3, PromoteRules, CallProcs, ProcsAssumption DEF Moved
<1>4. ASSUME NEW e \in Restorers, NEW s \in Slugs, EnsureJudge(e, s) \/ EnsureWrite(e)
      PROVE  Moved(e) /\ e \in Procs
  BY <1>0, <1>4, EnsureRules, CallProcs, ProcsAssumption DEF Moved
<1>5. ASSUME NEW p \in Procs, Crash(p) PROVE Moved(p)
  BY <1>0, <1>5, CrashRules DEF CallRule, NotCopying, OperatorRule, Moved
<1>6. ASSUME NEW s \in Slugs, Age(s) \/ LateCommit(s) \/ DeleteContent(s) \/ DeleteRow(s)
      PROVE  WorldRule
  BY <1>0, <1>6, WorldRules
<1>7. \E s \in Slugs : TRUE
  BY CallsAssumption
<1> QED BY <1>1, <1>2, <1>3, <1>4, <1>5, <1>6, <1>7 DEF Next

LEMMA NextSound == Settled /\ SoundInv /\ [Next]_vars => SoundInv'
<1> SUFFICES ASSUME Settled, SoundInv, [Next]_vars PROVE SoundInv'
  OBVIOUS
<1>0. IInv'
  BY NextInv DEF SoundInv
<1>1. CASE Next
  BY <1>0, <1>1, NextRules, ProcessKeeps, WorldKeeps
<1>2. CASE UNCHANGED vars
  BY <1>2, <1>0, WorldKeeps DEF vars, WorldRule, Unused, UnusedNext
<1> QED BY <1>1, <1>2

\* A forked pack that readers see is a whole copy: no crash, failed statement
\* or operator's pass makes half a copy visible (pack/fork, pack/lifecycle).
THEOREM VisibleForksAreWhole ==
    ASSUME Settled
    PROVE  Spec => []ForkReadyIsComplete
<1>1. SoundInv => ForkReadyIsComplete
  BY DEF SoundInv, RowsOK
<1> QED BY InitSound, NextSound, <1>1, PTL DEF Spec

\* What is in the graph, or may still land there, has a registry row unless an
\* operator deleted it by hand, so the server boots (pack/ownership).
THEOREM GraphIsRegistered ==
    ASSUME Settled
    PROVE  Spec => []NoOrphan
<1>1. SoundInv => NoOrphan
  BY DEF SoundInv, RowsOK
<1> QED BY InitSound, NextSound, <1>1, PTL DEF Spec

\* A call that answers "ok" leaves a ready pack of its caller behind
\* (mcp/tools/pack).
THEOREM AnswersAreTrue ==
    ASSUME Settled
    PROVE  Spec => []OkMeansReady
<1>1. SoundInv => OkMeansReady
  BY DEF SoundInv, OkOf, OkMeansReady, Slot
<1> QED BY InitSound, NextSound, <1>1, PTL DEF Spec

\* On several hosts as on one, while every INSERT is answered and nobody
\* deletes rows by hand: the primary key and the status-pinned updates keep
\* packs whole (pack/ownership).
THEOREM PacksStaySound ==
    ASSUME Settled
    PROVE  Spec => []PacksAreSound
<1>1. SoundInv => PacksAreSound
  BY DEF SoundInv, IInv, RowsOK, OkOf, OkMeansReady, PacksAreSound, Slot
<1> QED BY InitSound, NextSound, <1>1, PTL DEF Spec

-----------------------------------------------------------------------------
LEMMA ForkStep ==
    ASSUME SoundInv, [Next]_vars, NEW s \in Slugs,
           row[s].forked # NoSource, row[s].status # "ready", row'[s].status = "ready"
    PROVE  \E f \in Forkers : pc[f] = "ready" /\ loc[f].slug = s /\ loc[f].done = Legs
<1>0. row[s].status # "free" /\ row'[s] # row[s]
  BY DEF SoundInv, RowsOK, Free
<1>1. ~WorldRule
  BY <1>0 DEF WorldRule, Free
<1>2. PICK p \in Procs : Moved(p)
  BY <1>0, <1>1, NextRules DEF vars
<1>3. row'[s].forked # NoSource
  BY <1>0, <1>2 DEF Moved, Rules, RowRule, Free, TouchRule
<1>4. Slot(p) = s /\ p \in Forkers /\ pc[p] = "ready"
  BY <1>2, <1>3, OnlyItsFork
<1> QED BY <1>4 DEF SoundInv, CopyOf, Slot

LEMMA YoungStep ==
    ASSUME OneHost, SoundInv, NEW r \in Repairers, NEW s \in Slugs, RepairApply(r), row'[s] # row[s]
    PROVE  row[s].stale
<1>0. TypeOK /\ r \in Procs /\ Slot(r) \in Slugs /\ JudgeOf(r)
  BY CallProcs, SlugType DEF SoundInv, IInv, Slot
<1>1. \E new \in {"ready", "partial"} : MoveIf(Slot(r), loc[r].owner, "creating", new)
  BY DEF RepairApply, Slot
<1>2. s = Slot(r) /\ row[s].status = "creating"
  BY <1>0, <1>1, Updated DEF Statuses, Matches
<1> QED BY <1>0, <1>2 DEF JudgeOf, RepairApply

\* While a call is at its reservation, nobody else resolves it: the repair pass
\* keeps off young rows though it picked them before it had the lock, and a
\* forked row becomes ready only through the call that wrote every leg.
THEOREM CallsAreLeftAlone ==
    ASSUME OneHost
    PROVE  Spec => CallsKeepTheirRows
<1>0. Settled
  BY DEF Settled
<1>1. SoundInv /\ [Next]_vars =>
        [\A r \in Repairers : \A s \in Slugs :
            RepairApply(r) /\ row'[s] # row[s] => row[s].stale]_vars
  BY YoungStep
<1>2. SoundInv /\ [Next]_vars =>
        [\A s \in Slugs :
            row[s].forked # NoSource /\ row[s].status # "ready" /\ row'[s].status = "ready"
            => \E f \in Forkers : pc[f] = "ready" /\ loc[f].slug = s /\ loc[f].done = Legs]_vars
  BY ForkStep
<1>3. Spec => RepairSparesYoung
  BY <1>0, <1>1, InitSound, NextSound, PTL DEF Spec, RepairSparesYoung
<1>4. Spec => OnlyTheForkPromotes
  BY <1>0, <1>2, InitSound, NextSound, PTL DEF Spec, OnlyTheForkPromotes
<1> QED BY <1>3, <1>4 DEF CallsKeepTheirRows
=============================================================================
