---------------------- MODULE DeletePackJournal_proofs ----------------------
(***************************************************************************)
(* Proofs about DeletePackJournal, for any number of deleters, users and   *)
(* pieces of content and any bounds.                                       *)
(***************************************************************************)
EXTENDS DeletePackJournal, TLAPS

-----------------------------------------------------------------------------
(* What the shared parts of the steps do to the domains.                   *)

LEMMA PcType ==
    ASSUME TypeOK, NEW p \in Deleters, NEW l \in Labels, Goto(p, l)
    PROVE  pc' \in [Deleters -> Labels]
BY DEF TypeOK, Goto

LEMMA LocType ==
    ASSUME TypeOK, NEW p \in Deleters, NEW l \in Locals, SetLoc(p, l)
    PROVE  loc' \in [Deleters -> Locals]
BY DEF TypeOK, SetLoc

LEMMA FreshType == Fresh \in Locals
BY LimitsAssumption DEF Fresh, Locals, NoSnapshot

LEMMA FinishType ==
    ASSUME TypeOK, NEW p \in Deleters, Finish(p)
    PROVE  /\ pc' \in [Deleters -> Labels]
           /\ loc' \in [Deleters -> Locals]
           /\ lock' \in Deleters \cup {Nobody}
BY PcType, LocType, FreshType DEF Labels, Finish

LEMMA FaultType ==
    ASSUME TypeOK, NoFault \/ Fault
    PROVE  faults' \in 0..MaxFaults
BY LimitsAssumption DEF TypeOK, NoFault, Fault

LEMMA LocalsOf ==
    ASSUME TypeOK, NEW p \in Deleters
    PROVE  /\ loc[p] \in Locals
           /\ loc[p].rows \subseteq Nodes
           /\ loc[p].todo \subseteq Nodes
BY DEF TypeOK, Locals

LEMMA RecordType ==
    ASSUME TypeOK, NEW axis \in Axes, NEW ok \in BOOLEAN
    PROVE  Record(axis, ok) \in Journals
<1> DEFINE done == IF ok THEN journal.done \cup {axis} ELSE journal.done \ {axis}
<1>1. done \in SUBSET Axes
  BY DEF TypeOK, Journals
<1>2. Record(axis, ok) = [journal EXCEPT !.done = done]
  BY DEF Record
<1> HIDE DEF done
<1> QED BY <1>1, <1>2 DEF TypeOK, Journals

LEMMA OpenedType ==
    ASSUME TypeOK, NEW p \in Deleters
    PROVE  Opened(p) \in Journals
BY DEF TypeOK, Opened, Journals, Axes

-----------------------------------------------------------------------------
(* TypeOK is kept by every step.                                           *)

LEMMA CommitType ==
    ASSUME TypeOK, NEW p \in Deleters, NEW axis \in Axes, NEW ok \in BOOLEAN,
           NEW next \in Labels, CommitAxis(p, axis, ok, next)
    PROVE  TypeOK'
BY RecordType, FinishType, PcType, FaultType DEF CommitAxis, TypeOK, Raise, content, bounds

LEMMA EnterType ==
    ASSUME TypeOK, NEW p \in Deleters, NEW here, NEW due, NEW body \in Labels,
           NEW skip \in Labels, Enter(p, here, due, body, skip)
    PROVE  TypeOK'
BY LocalsOf, LocType, PcType DEF Locals, Enter, TypeOK, content, bounds

LEMMA EntryType ==
    ASSUME TypeOK, NEW p \in Deleters, NEW resume \in BOOLEAN,
           Start(p, resume) \/ TakeLock(p) \/ GiveUp(p)
    PROVE  TypeOK'
<1> USE DEF content, bounds
<1>1. CASE Start(p, resume)
  BY FreshType, <1>1, LocType, PcType DEF Locals, Start, Labels, TypeOK
<1>2. CASE TakeLock(p)
  BY <1>2, PcType DEF TakeLock, Labels, TypeOK
<1>3. CASE GiveUp(p)
  BY <1>3, PcType, LocType, FreshType DEF GiveUp, Labels, TypeOK
<1> QED BY <1>1, <1>2, <1>3

LEMMA ContentType ==
    ASSUME TypeOK
    PROVE  Content \subseteq ({"graph", "twin"} \X Nodes) \cup ({"source"} \X Sources)
                                 \cup ({"vector"} \X Vectors)
BY DEF TypeOK, Content

LEMMA CheckType ==
    ASSUME TypeOK, NEW p \in Deleters, Check(p)
    PROVE  TypeOK'
<1> USE DEF content, bounds
<1>1. CASE MayProceed(p)
  <2>1. row.created \in 0..MaxRows /\ (journal.state = "none") \in BOOLEAN
    BY DEF TypeOK
  <2>2. [loc[p] EXCEPT !.created = row.created,
                       !.began = (journal.state = "none")] \in Locals
    BY <2>1, LocalsOf DEF Locals
  <2>3. Open(p) /\ old' = Content
    BY <1>1 DEF Check
  <2>4. pc' \in [Deleters -> Labels] /\ loc' \in [Deleters -> Locals]
        /\ lock' \in Deleters \cup {Nobody}
    <3>1. CASE Raise(p)
      BY <3>1, FinishType DEF Raise
    <3>2. CASE /\ UNCHANGED lock
               /\ Goto(p, "rows")
               /\ SetLoc(p, [loc[p] EXCEPT !.created = row.created,
                                           !.began = (journal.state = "none")])
      BY <3>2, <2>2, LocType, PcType DEF TypeOK, Labels, Reading
    <3> QED BY <2>3, <3>1, <3>2 DEF Open
  <2>5. journal' \in Journals
    BY <2>3, OpenedType DEF Open, TypeOK
  <2>6. faults' \in 0..MaxFaults
    BY <2>3, FaultType DEF Open, Raise
  <2>7. UNCHANGED <<row, content, owed, shaped, vecUp, writes, bounds>>
    BY DEF Check
  <2> QED BY <2>3, <2>4, <2>5, <2>6, <2>7, ContentType DEF TypeOK
<1>2. CASE ~MayProceed(p)
  BY <1>2, FinishType DEF Check, TypeOK
<1> QED BY <1>1, <1>2

LEMMA ReadType ==
    ASSUME TypeOK, NEW p \in Deleters, ReadRows(p) \/ ReadDocs(p) \/ ProbeVectors(p)
    PROVE  TypeOK'
<1> USE DEF content, bounds
<1>1. CASE ReadRows(p)
  <2>1. faults' \in 0..MaxFaults
    BY <1>1, FaultType DEF ReadRows, Raise
  <2>2. pc' \in [Deleters -> Labels] /\ loc' \in [Deleters -> Locals]
        /\ lock' \in Deleters \cup {Nobody}
    <3>1. CASE Raise(p)
      BY <3>1, FinishType DEF Raise
    <3>2. CASE /\ SetLoc(p, [loc[p] EXCEPT !.rows = graph])
               /\ Goto(p, "docsLive")
               /\ UNCHANGED lock
      BY LocalsOf, <3>2, LocType, PcType DEF Locals, TypeOK, Labels, Reading
    <3> QED BY <1>1, <3>1, <3>2 DEF ReadRows
  <2> QED BY <1>1, <2>1, <2>2 DEF ReadRows, TypeOK
<1>2. CASE ReadDocs(p)
  <2>1. faults' \in 0..MaxFaults
    BY <1>2, FaultType DEF ReadDocs, Raise
  <2>2. pc' \in [Deleters -> Labels] /\ loc' \in [Deleters -> Locals]
        /\ lock' \in Deleters \cup {Nobody}
    <3>1. CASE Raise(p)
      BY <3>1, FinishType DEF Raise
    <3>2. CASE /\ SetLoc(p, [loc[p] EXCEPT !.docsLive = (sources # {} \/ Tagged # {})])
               /\ Goto(p, "vecLive")
               /\ UNCHANGED lock
      BY LocalsOf, <3>2, LocType, PcType DEF Locals, TypeOK, Labels, Reading
    <3> QED BY <1>2, <3>1, <3>2 DEF ReadDocs
  <2> QED BY <1>2, <2>1, <2>2 DEF ReadDocs, TypeOK
<1>3. CASE ProbeVectors(p)
  <2>1. faults' \in 0..MaxFaults
    BY <1>3, FaultType DEF ProbeVectors
  <2>2. \E avail \in {"yes", "no", "unknown"}, drift \in BOOLEAN :
          SetLoc(p, [loc[p] EXCEPT !.avail = avail, !.drift = drift])
    BY <1>3 DEF ProbeVectors
  <2>3. \A avail \in {"yes", "no", "unknown"}, drift \in BOOLEAN :
          [loc[p] EXCEPT !.avail = avail, !.drift = drift] \in Locals
    BY LocalsOf DEF Locals
  <2>4. loc' \in [Deleters -> Locals]
    BY <2>2, <2>3, LocType
  <2>5. pc' \in [Deleters -> Labels]
    BY <1>3, PcType DEF ProbeVectors, Labels, Deleting
  <2> QED BY <1>3, <2>1, <2>4, <2>5 DEF ProbeVectors, TypeOK
<1> QED BY <1>1, <1>2, <1>3

LEMMA LabelsOf ==
    /\ Reading \cup Deleting \cup {"idle", "wait", "check"} = Labels
    /\ {"twins", "twinLoop", "docs", "docNodes", "docSources", "docsCommit", "nodes",
        "nodeLoop", "vectors", "vecDelete", "vecCommit", "end"} \subseteq Labels
BY DEF Labels, Reading, Deleting

LEMMA TwinType ==
    ASSUME TypeOK, NEW p \in Deleters, NEW n \in Nodes, DeleteTwin(p, n)
    PROVE  TypeOK'
<1> USE DEF content, bounds
<1>1. faults' \in 0..MaxFaults
  BY FaultType DEF DeleteTwin
<1>2. loc' \in [Deleters -> Locals]
  <2> DEFINE left == loc[p].todo \ {n}
  <2>1. left \in SUBSET Nodes
    BY LocalsOf
  <2>2. \/ SetLoc(p, [loc[p] EXCEPT !.todo = left])
        \/ SetLoc(p, [loc[p] EXCEPT !.todo = left, !.failed = TRUE])
    BY DEF DeleteTwin
  <2> HIDE DEF left
  <2>3. /\ [loc[p] EXCEPT !.todo = left] \in Locals
        /\ [loc[p] EXCEPT !.todo = left, !.failed = TRUE] \in Locals
    BY <2>1, LocalsOf DEF Locals
  <2> QED BY <2>2, <2>3, LocType
<1>3. twin' \in [Nodes -> {"none", "tagged", "legacy"}]
  BY DEF DeleteTwin, TypeOK
<1> QED BY <1>1, <1>2, <1>3 DEF DeleteTwin, TypeOK

LEMMA NodeType ==
    ASSUME TypeOK, NEW p \in Deleters, NEW n \in Nodes, DeleteNode(p, n)
    PROVE  TypeOK'
<1> USE DEF content, bounds
<1>1. faults' \in 0..MaxFaults
  BY FaultType DEF DeleteNode
<1>2. loc' \in [Deleters -> Locals]
  <2> DEFINE left == loc[p].todo \ {n}
  <2>1. left \in SUBSET Nodes
    BY LocalsOf
  <2>2. \/ SetLoc(p, [loc[p] EXCEPT !.todo = left])
        \/ SetLoc(p, [loc[p] EXCEPT !.todo = left, !.failed = TRUE])
    BY DEF DeleteNode
  <2> HIDE DEF left
  <2>3. /\ [loc[p] EXCEPT !.todo = left] \in Locals
        /\ [loc[p] EXCEPT !.todo = left, !.failed = TRUE] \in Locals
    BY <2>1, LocalsOf DEF Locals
  <2> QED BY <2>2, <2>3, LocType
<1>3. graph' \subseteq Nodes
  BY DEF DeleteNode, TypeOK
<1> QED BY <1>1, <1>2, <1>3 DEF DeleteNode, TypeOK

LEMMA DocsType ==
    ASSUME TypeOK, NEW p \in Deleters, DeleteDocNodes(p) \/ DeleteSources(p)
    PROVE  TypeOK'
<1> USE DEF content, bounds
<1>1. faults' \in 0..MaxFaults
  BY FaultType DEF DeleteDocNodes, DeleteSources, Raise
<1>2. pc' \in [Deleters -> Labels] /\ loc' \in [Deleters -> Locals]
      /\ lock' \in Deleters \cup {Nobody}
  BY FinishType, PcType, LabelsOf DEF DeleteDocNodes, DeleteSources, Raise, TypeOK
<1>3. twin' \in [Nodes -> {"none", "tagged", "legacy"}] /\ sources' \subseteq Sources
  BY DEF DeleteDocNodes, DeleteSources, TypeOK
<1> QED BY <1>1, <1>2, <1>3 DEF DeleteDocNodes, DeleteSources, TypeOK

LEMMA VectorsType ==
    ASSUME TypeOK, NEW p \in Deleters, DeleteVectors(p)
    PROVE  TypeOK'
<1> USE DEF content, bounds
<1>1. faults' \in 0..MaxFaults
  BY FaultType DEF DeleteVectors
<1>2. \E failed \in BOOLEAN : SetLoc(p, [loc[p] EXCEPT !.failed = failed])
  BY DEF DeleteVectors
<1>3. \A failed \in BOOLEAN : [loc[p] EXCEPT !.failed = failed] \in Locals
  BY LocalsOf DEF Locals
<1>4. loc' \in [Deleters -> Locals]
  BY <1>2, <1>3, LocType
<1>5. pc' \in [Deleters -> Labels]
  BY PcType, LabelsOf DEF DeleteVectors
<1>6. vecs' \subseteq Vectors
  BY DEF DeleteVectors, TypeOK
<1> QED BY <1>1, <1>4, <1>5, <1>6 DEF DeleteVectors, TypeOK

LEMMA WorkingType ==
    ASSUME TypeOK, NEW p \in Deleters, Working(p)
    PROVE  TypeOK'
<1>0. loc[p].failed \in BOOLEAN /\ (~loc[p].failed) \in BOOLEAN
  BY LocalsOf DEF Locals
<1>1. CASE Check(p)
  BY <1>1, CheckType
<1>2. CASE ReadRows(p) \/ ReadDocs(p) \/ ProbeVectors(p)
  BY <1>2, ReadType
<1>3. CASE EnterTwins(p) \/ EnterDocs(p) \/ EnterNodes(p) \/ EnterVectors(p)
  BY <1>3, EnterType, LabelsOf DEF EnterTwins, EnterDocs, EnterNodes, EnterVectors
<1>4. CASE CommitTwins(p) \/ CommitDocs(p) \/ CommitNodes(p) \/ CommitVectors(p)
  BY <1>0, <1>4, CommitType, LabelsOf
  DEF CommitTwins, CommitDocs, CommitNodes, CommitVectors, Axes
<1>5. ASSUME NEW n \in Nodes, DeleteTwin(p, n) \/ DeleteNode(p, n)
      PROVE TypeOK'
  BY <1>5, TwinType, NodeType
<1>6. CASE DeleteDocNodes(p) \/ DeleteSources(p)
  BY <1>6, DocsType
<1>7. CASE DeleteVectors(p)
  BY <1>7, VectorsType
<1>8. CASE Return(p)
  BY <1>8, FinishType DEF Return, TypeOK, content, bounds
<1> QED BY <1>1, <1>2, <1>3, <1>4, <1>5, <1>6, <1>7, <1>8 DEF Working

LEMMA CrashType ==
    ASSUME TypeOK, NEW p \in Deleters, Crash(p)
    PROVE  TypeOK'
BY PcType, LabelsOf, LocType, FreshType, LimitsAssumption DEF Crash, TypeOK, content

LEMMA WritersType ==
    ASSUME TypeOK,
           \/ \E n \in Nodes : WriteNode(n)
           \/ \E n \in Nodes : WriteTwin(n)
           \/ \E c \in Sources : WriteSource(c)
           \/ \E v \in Vectors : WriteVector(v)
    PROVE  TypeOK'
BY LimitsAssumption DEF Write, bounds, WriteNode, TypeOK, WriteTwin, WriteSource, WriteVector

LEMMA WorldType ==
    ASSUME TypeOK,
           VectorsGoDown \/ VectorsComeBack \/ Unregister \/ Register \/ Tear \/ ClearJournal
    PROVE  TypeOK'
<1> USE LimitsAssumption DEF content, bounds
<1>1. CASE VectorsGoDown
  <2>1. outages' \in 0..MaxOutages
    BY <1>1 DEF VectorsGoDown, TypeOK
  <2> QED BY <1>1, <2>1 DEF VectorsGoDown, TypeOK
<1>2. CASE VectorsComeBack
  BY <1>2 DEF VectorsComeBack, TypeOK
<1>3. CASE Unregister
  BY <1>3 DEF Unregister, TypeOK, NoRow, NoSnapshot
<1>4. CASE Register
  BY <1>4 DEF Register, TypeOK
<1>5. CASE Tear
  BY <1>5 DEF Tear, TypeOK, Torn, Journals, NoSnapshot
<1>6. CASE ClearJournal
  BY <1>6 DEF ClearJournal, TypeOK, NoJournal, Journals, NoSnapshot
<1> QED BY <1>1, <1>2, <1>3, <1>4, <1>5, <1>6

-----------------------------------------------------------------------------
(* What one deleter does, as far as the others and the content see it.     *)

\* No document becomes untagged again, and only the lock holder writes the journal.
Alone(p) ==
    /\ \A q \in Deleters \ {p} : pc'[q] = pc[q] /\ loc'[q] = loc[q]
    /\ \A n \in Nodes : twin'[n] = "legacy" => twin[n] = "legacy"
    /\ journal' = journal \/ lock = p
    /\ \/ lock' = lock
       \/ lock \in {p, Nobody} /\ lock' \in {p, Nobody}

\* Nothing that a node half deleted would need a record for.
Harmless ==
    /\ journal.state # "none" => journal'.state # "none"
    /\ clears' = clears
    /\ HalfDeleted' \subseteq HalfDeleted \/ journal'.state # "none"

LEMMA OthersInOrder ==
    ASSUME IInv, NEW p \in Deleters, Alone(p), NEW q \in Deleters, q # p
    PROVE  InOrder(q)'
<1>1. InOrder(q) /\ pc'[q] = pc[q] /\ loc'[q] = loc[q]
  BY DEF IInv, Alone
<1>2. loc[q].rows \subseteq Nodes /\ loc[q].todo \subseteq Nodes
  BY LocalsOf DEF IInv
<1>3. CASE ~Inside(q)
  BY <1>1, <1>3 DEF InOrder, Inside, Running, TwinsFirst, Reading, Deleting
<1>4. CASE Inside(q)
  <2>1. lock = q /\ lock' = q /\ journal' = journal
    BY <1>1, <1>4, DeletersAssumption DEF InOrder, Alone
  <2>2. Running(q)' => Licensed(q)'
    BY <1>1, <2>1 DEF InOrder, Running, Licensed
  <2>3. TwinsFirst(q)'
    BY <1>1, <1>2, <2>1 DEF InOrder, TwinsFirst, Alone, Pending
  <2> QED BY <2>1, <2>2, <2>3 DEF InOrder
<1> QED BY <1>3, <1>4

LEMMA DeleterStep ==
    ASSUME IInv, TypeOK', NEW p \in Deleters, Alone(p), InOrder(p)', NoLostTwin', Harmless
    PROVE  IInv'
BY OthersInOrder DEF Harmless, HalfDeletedIsRecorded, IInv

\* Steps that neither touch graph rows and documents nor remove the journal.
LEMMA HarmlessStep ==
    ASSUME IInv, UNCHANGED <<graph, twin, owed, clears>>,
           journal.state # "none" => journal'.state # "none"
    PROVE  NoLostTwin' /\ Harmless
BY DEF IInv, NoLostTwin, Harmless, HalfDeleted

LEMMA FinishInOrder ==
    ASSUME TypeOK, NEW p \in Deleters, Finish(p)
    PROVE  InOrder(p)'
BY DEF Finish, Goto, SetLoc, TypeOK, InOrder, Inside, Running, TwinsFirst, Reading, Deleting

\* A call that is inside holds the lock; beyond the check it is licensed.
LEMMA Holder ==
    ASSUME IInv, NEW p \in Deleters, Inside(p)
    PROVE  /\ lock = p
           /\ Running(p) => Licensed(p)
BY DEF IInv, InOrder

\* The steps of an insider leave the others alone.
LEMMA InsiderAlone ==
    ASSUME IInv, NEW p \in Deleters, Inside(p), NEW l, NEW r,
           \/ Finish(p)
           \/ /\ pc' = pc \/ Goto(p, l)
              /\ loc' = loc \/ SetLoc(p, r)
              /\ UNCHANGED lock,
           \A n \in Nodes : twin'[n] = "legacy" => twin[n] = "legacy"
    PROVE  Alone(p)
BY Holder DEF Alone, Finish, Goto, SetLoc, IInv, TypeOK

-----------------------------------------------------------------------------
(* IInv is kept by every step.                                             *)

LEMMA EntrySafe ==
    ASSUME IInv, NEW p \in Deleters, NEW resume \in BOOLEAN,
           Start(p, resume) \/ TakeLock(p) \/ GiveUp(p)
    PROVE  IInv'
<1>0. TypeOK /\ TypeOK'
  BY EntryType DEF IInv
<1>1. NoLostTwin' /\ Harmless
  BY HarmlessStep DEF Start, TakeLock, GiveUp, content, bounds
<1>2. Alone(p)
  BY <1>0 DEF Alone, Start, TakeLock, GiveUp, Goto, SetLoc, TypeOK, content
<1>3. InOrder(p)'
  BY <1>0 DEF Start, TakeLock, GiveUp, Goto, SetLoc, TypeOK, InOrder, Inside, Running,
              TwinsFirst, Reading, Deleting
<1> QED BY <1>0, <1>1, <1>2, <1>3, DeleterStep

LEMMA CheckSafe ==
    ASSUME IInv, NEW p \in Deleters, Check(p)
    PROVE  IInv'
<1>0. TypeOK /\ TypeOK' /\ Inside(p) /\ lock = p
  BY CheckType, Holder DEF IInv, Check, Inside
<1>1. UNCHANGED <<graph, twin, owed, clears>>
  BY DEF Check, content, bounds
<1>2. journal.state # "none" => journal'.state # "none"
  BY DEF Check, Open, Opened
<1>3. NoLostTwin' /\ Harmless
  BY <1>1, <1>2, HarmlessStep
<1>4. CASE Finish(p)
  BY <1>0, <1>1, <1>4, InsiderAlone, <1>3, FinishInOrder, DeleterStep
<1>5. CASE ~Finish(p)
  <2>1. /\ MayProceed(p)
        /\ journal' = Opened(p)
        /\ UNCHANGED lock
        /\ Goto(p, "rows")
        /\ SetLoc(p, [loc[p] EXCEPT !.created = row.created,
                                    !.began = (journal.state = "none")])
    BY <1>5 DEF Check, Open, Raise
  <2>2. Alone(p)
    BY <1>0, <1>1, <2>1, InsiderAlone
  <2>3. loc[p] \in Locals
    BY <1>0, LocalsOf
  <2>4. /\ pc'[p] = "rows"
        /\ loc'[p].created = row.created
        /\ loc'[p].began = (journal.state = "none")
        /\ loc'[p].resume = loc[p].resume
    BY <1>0, <2>1, <2>3 DEF Goto, SetLoc, TypeOK, Locals
  <2>5. Licensed(p)'
    BY <2>1, <2>4 DEF MayProceed, Opened, SameIdentity, Licensed
  <2>6. InOrder(p)'
    BY <1>0, <2>1, <2>4, <2>5 DEF InOrder, TwinsFirst
  <2> QED BY <1>0, <1>3, <2>2, <2>6, DeleterStep
<1> QED BY <1>4, <1>5

\* The license of a call that stays inside, with a journal that stays or gets a
\* new mark, is the one it had.
LEMMA LicenseStays ==
    ASSUME IInv, NEW p \in Deleters, Running(p),
           journal' = journal \/ \E axis \in Axes, ok \in BOOLEAN : journal' = Record(axis, ok),
           loc'[p].created = loc[p].created,
           loc'[p].began = loc[p].began,
           loc'[p].resume = loc[p].resume
    PROVE  Licensed(p)' /\ journal.state = "kept" /\ journal'.state = "kept"
BY DEF IInv, InOrder, TypeOK, Record, Journals, Licensed

LEMMA ReadSafe ==
    ASSUME IInv, NEW p \in Deleters, ReadRows(p) \/ ReadDocs(p) \/ ProbeVectors(p)
    PROVE  IInv'
<1>0. TypeOK /\ TypeOK' /\ Inside(p) /\ Running(p) /\ lock = p
  BY ReadType, Holder DEF IInv, ReadRows, ReadDocs, ProbeVectors, Inside, Running, Reading
<1>1. UNCHANGED <<graph, twin, owed, clears, journal>>
  BY DEF ReadRows, ReadDocs, ProbeVectors, content, bounds
<1>2. NoLostTwin' /\ Harmless
  BY <1>1, HarmlessStep
<1>3. CASE Finish(p)
  BY <1>0, <1>1, <1>3, InsiderAlone, <1>2, FinishInOrder, DeleterStep
<1>4. CASE ~Finish(p)
  <2>1. PICK l \in {"docsLive", "vecLive", "twins"}, r \in Locals :
          /\ UNCHANGED lock
          /\ Goto(p, l)
          /\ SetLoc(p, r)
          /\ r.created = loc[p].created
          /\ r.began = loc[p].began
          /\ r.resume = loc[p].resume
    <3>1. loc[p] \in Locals /\ loc'[p] \in Locals
      BY <1>0, LocalsOf DEF TypeOK
    <3>2. CASE ReadRows(p)
      BY <1>0, <1>4, <3>1, <3>2 DEF ReadRows, Raise, SetLoc, TypeOK, Locals
    <3>3. CASE ReadDocs(p)
      BY <1>0, <1>4, <3>1, <3>3 DEF ReadDocs, Raise, SetLoc, TypeOK, Locals
    <3>4. CASE ProbeVectors(p)
      <4>1. PICK avail \in {"yes", "no", "unknown"}, drift \in BOOLEAN :
              SetLoc(p, [loc[p] EXCEPT !.avail = avail, !.drift = drift])
        BY <3>4 DEF ProbeVectors
      <4> DEFINE found == [loc[p] EXCEPT !.avail = avail, !.drift = drift]
      <4>2. /\ found \in Locals
            /\ found.created = loc[p].created
            /\ found.began = loc[p].began
            /\ found.resume = loc[p].resume
        BY <3>1 DEF Locals
      <4>3. UNCHANGED lock /\ Goto(p, "twins") /\ SetLoc(p, found)
        BY <3>4, <4>1 DEF ProbeVectors
      <4> HIDE DEF found
      <4> QED BY <4>2, <4>3
    <3> QED BY <3>2, <3>3, <3>4
  <2>2. Alone(p)
    BY <1>0, <1>1, <2>1, InsiderAlone
  <2>3. pc'[p] = l /\ loc'[p] = r
    BY <1>0, <2>1 DEF Goto, SetLoc, TypeOK
  <2>4. Licensed(p)'
    BY <1>0, <1>1, <2>1, <2>3, LicenseStays
  <2>5. InOrder(p)'
    BY <1>0, <2>1, <2>3, <2>4 DEF InOrder, TwinsFirst
  <2> QED BY <1>0, <1>2, <2>2, <2>5, DeleterStep
<1> QED BY <1>3, <1>4

\* What a call reaches when it enters an axis.
LEMMA EnterSafe ==
    ASSUME IInv, NEW p \in Deleters, NEW here \in Deleting, NEW due,
           NEW body \in Labels, NEW skip \in Labels,
           Enter(p, here, due, body, skip),
           body = "nodeLoop" /\ due => \A n \in loc[p].rows : twin[n] # "legacy",
           body \notin {"docs", "docNodes", "docSources", "docsCommit", "nodes"}
             \/ \A n \in loc[p].rows : ~Pending("twins") => twin[n] # "legacy",
           skip \notin {"twinLoop", "nodeLoop"},
           skip \in {"docs", "docNodes", "docSources", "docsCommit", "nodes"} /\ ~due =>
             \A n \in loc[p].rows : ~Pending("twins") => twin[n] # "legacy"
    PROVE  IInv'
<1>0. TypeOK /\ TypeOK' /\ Inside(p) /\ Running(p) /\ lock = p
  BY EnterType, Holder DEF IInv, Enter, Inside, Running, Deleting
<1>1. UNCHANGED <<graph, twin, owed, clears, journal, lock>>
  BY DEF Enter, content, bounds
<1>2. NoLostTwin' /\ Harmless
  BY <1>1, HarmlessStep
<1>3. Alone(p)
  BY <1>0, <1>1, InsiderAlone DEF Enter
<1>4. loc[p] \in Locals
  BY <1>0, LocalsOf
<1>5. /\ pc'[p] = IF due THEN body ELSE skip
      /\ loc'[p].rows = loc[p].rows
      /\ loc'[p].todo = loc[p].rows
      /\ loc'[p].created = loc[p].created
      /\ loc'[p].began = loc[p].began
      /\ loc'[p].resume = loc[p].resume
  BY <1>0, <1>4 DEF Enter, Goto, SetLoc, TypeOK, Locals
<1>6. Licensed(p)'
  BY <1>0, <1>1, <1>5, LicenseStays
<1>7. TwinsFirst(p)'
  BY <1>1, <1>5 DEF TwinsFirst, Pending
<1>8. InOrder(p)'
  BY <1>0, <1>1, <1>6, <1>7 DEF InOrder
<1> QED BY <1>0, <1>2, <1>3, <1>8, DeleterStep

LEMMA EnterAxis ==
    ASSUME IInv, NEW p \in Deleters,
           EnterTwins(p) \/ EnterDocs(p) \/ EnterNodes(p) \/ EnterVectors(p)
    PROVE  IInv'
<1>0. /\ \A label \in {"twins", "docs", "nodes", "vectors"} : label \in Deleting
      /\ TwinsFirst(p)
  BY DEF Deleting, IInv, InOrder
<1>1. CASE EnterTwins(p)
  <2>1. ~TwinsDue(p) => loc[p].rows = {}
    BY DEF TwinsDue
  <2>2. ~TwinsDue(p) => \A n \in loc[p].rows : ~Pending("twins") => twin[n] # "legacy"
    BY <2>1
  <2>3. Enter(p, "twins", TwinsDue(p), "twinLoop", "docs")
    BY <1>1 DEF EnterTwins
  <2>4. "twins" \in Deleting /\ "twinLoop" \in Labels /\ "docs" \in Labels
    BY <1>0, LabelsOf
  <2> HIDE DEF TwinsDue
  <2> QED BY <2>2, <2>3, <2>4, EnterSafe
<1>2. CASE EnterDocs(p)
  <2>1. \A n \in loc[p].rows : ~Pending("twins") => twin[n] # "legacy"
    BY <1>0, <1>2 DEF EnterDocs, Enter, TwinsFirst
  <2>2. Enter(p, "docs", DocsDue(p), "docNodes", "nodes")
    BY <1>2 DEF EnterDocs
  <2>3. "docs" \in Deleting /\ "docNodes" \in Labels /\ "nodes" \in Labels
    BY <1>0, LabelsOf
  <2> QED BY <2>1, <2>2, <2>3, EnterSafe
<1>3. CASE EnterNodes(p)
  <2>1. \A n \in loc[p].rows : ~Pending("twins") => twin[n] # "legacy"
    BY <1>0, <1>3 DEF EnterNodes, Enter, TwinsFirst
  <2>2. NodesDue(p) => \A n \in loc[p].rows : twin[n] # "legacy"
    BY <2>1 DEF NodesDue
  <2>3. Enter(p, "nodes", NodesDue(p), "nodeLoop", "vectors")
    BY <1>3 DEF EnterNodes
  <2>4. "nodes" \in Deleting /\ "nodeLoop" \in Labels /\ "vectors" \in Labels
    BY <1>0, LabelsOf
  <2> QED BY <2>1, <2>2, <2>3, <2>4, EnterSafe
<1>4. CASE EnterVectors(p)
  <2>1. Enter(p, "vectors", VectorsDue(p), "vecDelete", "end")
    BY <1>4 DEF EnterVectors
  <2>2. "vectors" \in Deleting /\ "vecDelete" \in Labels /\ "end" \in Labels
    BY <1>0, LabelsOf
  <2> QED BY <2>1, <2>2, EnterSafe
<1> QED BY <1>1, <1>2, <1>3, <1>4

\* An axis is recorded.  Only twins bears on the order, and it is recorded as
\* done only when no row that was read has an untagged document.
LEMMA CommitSafe ==
    ASSUME IInv, NEW p \in Deleters, Running(p), NEW axis \in Axes, NEW ok \in BOOLEAN,
           NEW next \in {"docs", "nodes", "vectors", "end"},
           CommitAxis(p, axis, ok, next),
           axis = "twins" =>
             /\ next = "docs"
             /\ ok => \A n \in loc[p].rows : twin[n] # "legacy",
           axis # "twins" /\ next \in {"docs", "nodes"} =>
             \A n \in loc[p].rows : ~Pending("twins") => twin[n] # "legacy"
    PROVE  IInv'
<1>0. TypeOK /\ TypeOK' /\ Inside(p) /\ lock = p
  BY CommitType, LabelsOf, Holder DEF IInv, Inside, Running, Reading, Deleting
<1>1. UNCHANGED <<graph, twin, owed, clears>>
  BY DEF CommitAxis, content, bounds
<1>2. journal' = journal \/ journal' = Record(axis, ok)
  BY DEF CommitAxis
<1>3. journal'.state = journal.state
  BY <1>0, <1>2 DEF Record, TypeOK, Journals
<1>4. NoLostTwin' /\ Harmless
  BY <1>1, <1>3, HarmlessStep
<1>5. CASE Finish(p)
  BY <1>0, <1>1, <1>5, InsiderAlone, <1>4, FinishInOrder, DeleterStep
<1>6. CASE ~Finish(p)
  <2>1. /\ journal' = Record(axis, ok)
        /\ Goto(p, next)
        /\ UNCHANGED <<lock, loc>>
    BY <1>6 DEF CommitAxis, Raise
  <2>2. Alone(p)
    BY <1>0, <1>1, <2>1, InsiderAlone
  <2>3. pc'[p] = next
    BY <1>0, <2>1 DEF Goto, TypeOK
  <2>4. Licensed(p)'
    BY <1>2, <2>1, LicenseStays
  <2>5. ~Pending("twins")' =>
          IF axis = "twins" THEN ok ELSE ~Pending("twins")
    BY <1>0, <2>1 DEF Pending, Record, TypeOK, Journals
  <2>6. TwinsFirst(p)'
    BY <1>1, <2>1, <2>3, <2>5 DEF TwinsFirst
  <2>7. InOrder(p)'
    BY <1>0, <2>1, <2>4, <2>6 DEF InOrder
  <2> QED BY <1>0, <1>4, <2>2, <2>7, DeleterStep
<1> QED BY <1>5, <1>6

LEMMA CommitAny ==
    ASSUME IInv, NEW p \in Deleters,
           CommitTwins(p) \/ CommitDocs(p) \/ CommitNodes(p) \/ CommitVectors(p)
    PROVE  IInv'
<1>0. TwinsFirst(p) /\ (~loc[p].failed) \in BOOLEAN
  BY LocalsOf DEF IInv, InOrder, Locals
<1>1. CASE CommitTwins(p)
  BY <1>0, <1>1, CommitSafe DEF CommitTwins, TwinsFirst, Running, Deleting, Axes
<1>2. CASE CommitDocs(p)
  BY <1>0, <1>2, CommitSafe DEF CommitDocs, TwinsFirst, Running, Deleting, Axes
<1>3. CASE CommitNodes(p)
  BY <1>3, <1>0, CommitSafe DEF CommitNodes, Running, Deleting, Axes
<1>4. CASE CommitVectors(p)
  BY <1>4, <1>0, CommitSafe DEF CommitVectors, Running, Deleting, Axes
<1> QED BY <1>1, <1>2, <1>3, <1>4

\* A step of a running call that takes documents, and may not make one untagged.
LEMMA TakesDocuments ==
    ASSUME IInv, NEW p \in Deleters, Running(p),
           \A n \in Nodes : twin'[n] \in {twin[n], "none"},
           UNCHANGED <<graph, owed, journal, bounds>>
    PROVE  /\ NoLostTwin'
           /\ Harmless
           /\ \A n \in Nodes : twin'[n] = "legacy" => twin[n] = "legacy"
BY DEF IInv, InOrder, Licensed, NoLostTwin, Harmless, bounds

LEMMA TwinSafe ==
    ASSUME IInv, NEW p \in Deleters, NEW n \in Nodes, DeleteTwin(p, n)
    PROVE  IInv'
<1>0. TypeOK /\ TypeOK' /\ Inside(p) /\ Running(p) /\ lock = p /\ TwinsFirst(p)
  BY TwinType, Holder DEF IInv, InOrder, DeleteTwin, Inside, Running, Deleting
<1>1. UNCHANGED <<graph, owed, journal, bounds, lock, pc>> /\ pc[p] = "twinLoop"
  BY DEF DeleteTwin
<1>2. \A m \in Nodes : twin'[m] \in {twin[m], "none"}
  BY <1>0 DEF DeleteTwin, TypeOK
<1>3. NoLostTwin' /\ Harmless
  BY <1>0, <1>1, <1>2, TakesDocuments
<1>4. loc[p] \in Locals /\ loc[p].rows \subseteq Nodes
  BY <1>0, LocalsOf
<1>5. /\ loc'[p].rows = loc[p].rows
      /\ loc'[p].todo = loc[p].todo \ {n}
      /\ loc'[p].created = loc[p].created
      /\ loc'[p].began = loc[p].began
      /\ loc'[p].resume = loc[p].resume
      /\ ~loc'[p].failed => ~loc[p].failed /\ twin'[n] = "none"
  <2> DEFINE left == loc[p].todo \ {n}
  <2>1. \/ loc'[p] = [loc[p] EXCEPT !.todo = left] /\ twin'[n] = "none"
        \/ loc'[p] = [loc[p] EXCEPT !.todo = left, !.failed = TRUE]
    BY <1>0 DEF DeleteTwin, SetLoc, TypeOK
  <2> HIDE DEF left
  <2>2. CASE loc'[p] = [loc[p] EXCEPT !.todo = left] /\ twin'[n] = "none"
    BY <1>4, <2>2 DEF Locals, left
  <2>3. CASE loc'[p] = [loc[p] EXCEPT !.todo = left, !.failed = TRUE]
    BY <1>4, <2>3 DEF Locals, left
  <2> QED BY <2>1, <2>2, <2>3
<1>6. Alone(p)
  BY <1>0, <1>1, <1>2 DEF DeleteTwin, SetLoc, TypeOK, Alone
<1>7. Licensed(p)'
  BY <1>0, <1>1, <1>5, LicenseStays
<1>8. TwinsFirst(p)'
  BY <1>0, <1>1, <1>2, <1>4, <1>5 DEF TwinsFirst
<1>9. InOrder(p)'
  BY <1>0, <1>1, <1>7, <1>8 DEF InOrder
<1> QED BY <1>0, <1>3, <1>6, <1>9, DeleterStep

LEMMA NodeSafe ==
    ASSUME IInv, NEW p \in Deleters, NEW n \in Nodes, DeleteNode(p, n)
    PROVE  IInv'
<1>0. TypeOK /\ TypeOK' /\ Inside(p) /\ Running(p) /\ lock = p /\ TwinsFirst(p)
  BY NodeType, Holder DEF IInv, InOrder, DeleteNode, Inside, Running, Deleting
<1>1. UNCHANGED <<twin, owed, journal, bounds, lock, pc>> /\ pc[p] = "nodeLoop"
  BY DEF DeleteNode
<1>2. twin[n] # "legacy"
  BY <1>0 DEF DeleteNode, TwinsFirst
<1>3. graph \ {n} \subseteq graph' /\ graph' \subseteq graph
  BY DEF DeleteNode
<1>4. NoLostTwin' /\ Harmless
  BY <1>1, <1>2, <1>3 DEF IInv, NoLostTwin, Harmless, HalfDeleted, bounds
<1>5. loc[p] \in Locals
  BY <1>0, LocalsOf
<1>6. /\ loc'[p].todo = loc[p].todo \ {n}
      /\ loc'[p].created = loc[p].created
      /\ loc'[p].began = loc[p].began
      /\ loc'[p].resume = loc[p].resume
  <2> DEFINE left == loc[p].todo \ {n}
  <2>1. \/ loc'[p] = [loc[p] EXCEPT !.todo = left]
        \/ loc'[p] = [loc[p] EXCEPT !.todo = left, !.failed = TRUE]
    BY <1>0 DEF DeleteNode, SetLoc, TypeOK
  <2> HIDE DEF left
  <2>2. CASE loc'[p] = [loc[p] EXCEPT !.todo = left]
    BY <1>5, <2>2 DEF Locals, left
  <2>3. CASE loc'[p] = [loc[p] EXCEPT !.todo = left, !.failed = TRUE]
    BY <1>5, <2>3 DEF Locals, left
  <2> QED BY <2>1, <2>2, <2>3
<1>7. Alone(p)
  BY <1>0, <1>1 DEF DeleteNode, SetLoc, TypeOK, Alone
<1>8. Licensed(p)'
  BY <1>0, <1>1, <1>6, LicenseStays
<1>9. InOrder(p)'
  BY <1>0, <1>1, <1>6, <1>8 DEF InOrder, TwinsFirst
<1> QED BY <1>0, <1>4, <1>7, <1>9, DeleterStep

LEMMA DocsSafe ==
    ASSUME IInv, NEW p \in Deleters, DeleteDocNodes(p) \/ DeleteSources(p)
    PROVE  IInv'
<1>0. TypeOK /\ TypeOK' /\ Inside(p) /\ Running(p) /\ lock = p /\ TwinsFirst(p)
  BY DocsType, Holder DEF IInv, InOrder, DeleteDocNodes, DeleteSources, Inside, Running, Deleting
<1>1. UNCHANGED <<graph, owed, journal, bounds>>
  BY DEF DeleteDocNodes, DeleteSources
<1>2. \A m \in Nodes : twin'[m] \in {twin[m], "none"}
  BY <1>0 DEF DeleteDocNodes, DeleteSources, TypeOK
<1>3. /\ NoLostTwin' /\ Harmless
      /\ \A m \in Nodes : twin'[m] = "legacy" => twin[m] = "legacy"
  BY <1>0, <1>1, <1>2, TakesDocuments
<1>4. CASE Finish(p)
  BY <1>0, <1>3, <1>4, InsiderAlone, FinishInOrder, DeleterStep
<1>5. CASE ~Finish(p)
  <2>1. PICK l \in {"docSources", "docsCommit"} : Goto(p, l) /\ UNCHANGED <<lock, loc>>
    BY <1>5 DEF DeleteDocNodes, DeleteSources, Raise
  <2>2. Alone(p)
    BY <1>0, <1>3, <2>1, InsiderAlone
  <2>3. pc'[p] = l
    BY <1>0, <2>1 DEF Goto, TypeOK
  <2>4. Licensed(p)'
    BY <1>0, <1>1, <2>1, LicenseStays
  <2>5. pc[p] \in {"docNodes", "docSources"} /\ loc[p].rows \subseteq Nodes
    BY <1>0, LocalsOf DEF DeleteDocNodes, DeleteSources
  <2>6. TwinsFirst(p)'
    BY <1>0, <1>1, <1>3, <2>1, <2>3, <2>5 DEF TwinsFirst, Pending
  <2>7. InOrder(p)'
    BY <1>0, <2>1, <2>4, <2>6 DEF InOrder
  <2> QED BY <1>0, <1>3, <2>2, <2>7, DeleterStep
<1> QED BY <1>4, <1>5

LEMMA LastSafe ==
    ASSUME IInv, NEW p \in Deleters, DeleteVectors(p) \/ Return(p)
    PROVE  IInv'
<1>0. TypeOK /\ TypeOK' /\ Inside(p) /\ Running(p) /\ lock = p
  BY WorkingType, Holder DEF Working, IInv, DeleteVectors, Return, Inside, Running, Deleting
<1>1. UNCHANGED <<graph, twin, owed, clears, journal>>
  BY DEF DeleteVectors, Return, content, bounds
<1>2. NoLostTwin' /\ Harmless
  BY <1>1, HarmlessStep
<1>3. CASE Return(p)
  BY <1>3, <1>0, <1>1, InsiderAlone, <1>2, FinishInOrder, DeleterStep DEF Return
<1>4. CASE DeleteVectors(p)
  <2>1. PICK failed \in BOOLEAN : SetLoc(p, [loc[p] EXCEPT !.failed = failed])
    BY <1>4 DEF DeleteVectors
  <2>2. Goto(p, "vecCommit") /\ UNCHANGED lock
    BY <1>4 DEF DeleteVectors
  <2>3. Alone(p)
    BY <1>0, <1>1, <2>1, <2>2, InsiderAlone
  <2>4. loc[p] \in Locals
    BY <1>0, LocalsOf
  <2>5. /\ pc'[p] = "vecCommit"
        /\ loc'[p].created = loc[p].created
        /\ loc'[p].began = loc[p].began
        /\ loc'[p].resume = loc[p].resume
    BY <1>0, <2>1, <2>2, <2>4 DEF Goto, SetLoc, TypeOK, Locals
  <2>6. Licensed(p)'
    BY <1>0, <1>1, <2>5, LicenseStays
  <2>7. InOrder(p)'
    BY <1>0, <2>2, <2>5, <2>6 DEF InOrder, TwinsFirst
  <2> QED BY <1>0, <1>2, <2>3, <2>7, DeleterStep
<1> QED BY <1>3, <1>4

LEMMA CrashSafe ==
    ASSUME IInv, NEW p \in Deleters, Crash(p)
    PROVE  IInv'
<1>0. TypeOK /\ TypeOK'
  BY CrashType DEF IInv
<1>1. UNCHANGED <<graph, twin, owed, clears, journal>>
  BY DEF Crash, content
<1>2. NoLostTwin' /\ Harmless
  BY <1>1, HarmlessStep
<1>3. Alone(p)
  BY <1>0, <1>1 DEF Alone, Crash, Goto, SetLoc, TypeOK
<1>4. InOrder(p)'
  BY <1>0 DEF Crash, Goto, SetLoc, TypeOK, InOrder, Inside, Running, TwinsFirst,
              Reading, Deleting
<1> QED BY <1>0, <1>2, <1>3, <1>4, DeleterStep

\* The others leave the deleters alone, and write the journal only when no call
\* is inside.
LEMMA OthersStep ==
    ASSUME IInv, TypeOK', UNCHANGED <<pc, loc, lock>>,
           \A n \in Nodes : twin'[n] = "legacy" => twin[n] = "legacy",
           journal' = journal \/ lock = Nobody,
           NoLostTwin', HalfDeletedIsRecorded'
    PROVE  IInv'
<1>1. ASSUME NEW q \in Deleters PROVE InOrder(q)'
  <2>1. InOrder(q) /\ loc[q].rows \subseteq Nodes /\ loc[q].todo \subseteq Nodes
    BY LocalsOf DEF IInv
  <2>2. CASE ~Inside(q)
    BY <2>1, <2>2 DEF InOrder, Inside, Running, TwinsFirst, Reading, Deleting
  <2>3. CASE Inside(q)
    BY <2>1, <2>3, DeletersAssumption DEF InOrder, Inside, Running, Licensed, TwinsFirst, Pending
  <2> QED BY <2>2, <2>3
<1> QED BY <1>1 DEF IInv

LEMMA OthersSafe ==
    ASSUME IInv, OthersNext
    PROVE  IInv'
<1>0. TypeOK /\ NoLostTwin /\ HalfDeletedIsRecorded
  BY DEF IInv
<1>1. ASSUME NEW n \in Nodes, WriteNode(n) PROVE IInv'
  <2>1. TypeOK'
    BY <1>0, <1>1, WritersType
  <2>2. /\ UNCHANGED <<pc, loc, lock, journal, twin, clears>>
        /\ graph' = graph \cup {n}
        /\ owed' = owed \cup {n}
    BY <1>1 DEF WriteNode, Write, bounds
  <2>3. NoLostTwin' /\ HalfDeletedIsRecorded'
    BY <1>0, <2>2 DEF NoLostTwin, HalfDeletedIsRecorded, HalfDeleted
  <2> QED BY <2>1, <2>2, <2>3, OthersStep
<1>2. ASSUME NEW n \in Nodes, WriteTwin(n) PROVE IInv'
  <2>1. TypeOK'
    BY <1>0, <1>2, WritersType
  <2>2. /\ UNCHANGED <<pc, loc, lock, journal, graph, clears>>
        /\ owed' = owed \ {n}
        /\ \A m \in Nodes : twin'[m] = IF m = n THEN "tagged" ELSE twin[m]
        /\ graph \subseteq Nodes
    BY <1>0, <1>2 DEF WriteTwin, bounds, TypeOK
  <2>3. NoLostTwin' /\ HalfDeletedIsRecorded'
    BY <1>0, <2>2 DEF NoLostTwin, HalfDeletedIsRecorded, HalfDeleted
  <2> QED BY <2>1, <2>2, <2>3, OthersStep
<1>3. CASE \/ \E c \in Sources : WriteSource(c)
           \/ \E v \in Vectors : WriteVector(v)
  <2>1. TypeOK'
    BY <1>0, <1>3, WritersType
  <2>2. UNCHANGED <<pc, loc, lock, journal, graph, twin, owed, clears>>
    BY <1>3 DEF WriteSource, WriteVector, Write, bounds
  <2>3. NoLostTwin' /\ HalfDeletedIsRecorded'
    BY <1>0, <2>2 DEF NoLostTwin, HalfDeletedIsRecorded, HalfDeleted
  <2> QED BY <2>1, <2>2, <2>3, OthersStep
<1>4. CASE VectorsGoDown \/ VectorsComeBack \/ Unregister \/ Register \/ Tear
  <2>1. TypeOK'
    BY <1>0, <1>4, WorldType
  <2>2. /\ UNCHANGED <<pc, loc, lock, graph, twin, owed, clears>>
        /\ journal' = journal \/ (lock = Nobody /\ journal'.state = "torn")
    BY <1>4 DEF VectorsGoDown, VectorsComeBack, Unregister, Register, Tear, Torn,
                content, bounds
  <2>3. NoLostTwin' /\ HalfDeletedIsRecorded'
    BY <1>0, <2>2 DEF NoLostTwin, HalfDeletedIsRecorded, HalfDeleted
  <2> QED BY <2>1, <2>2, <2>3, OthersStep
<1>5. CASE ClearJournal
  <2>1. TypeOK'
    BY <1>0, <1>5, WorldType
  <2>2. /\ UNCHANGED <<pc, loc, lock, graph, twin, owed>>
        /\ lock = Nobody
        /\ clears' = clears + 1
    BY <1>5 DEF ClearJournal, content
  <2>3. clears' # 0
    BY <1>0, <2>2, LimitsAssumption DEF TypeOK
  <2>4. NoLostTwin' /\ HalfDeletedIsRecorded'
    BY <1>0, <2>2, <2>3 DEF NoLostTwin, HalfDeletedIsRecorded
  <2> QED BY <2>1, <2>2, <2>4, OthersStep
<1> QED BY <1>1, <1>2, <1>3, <1>4, <1>5 DEF OthersNext

-----------------------------------------------------------------------------
(* The theorems.                                                           *)

LEMMA InitInv == Init => IInv
<1> SUFFICES ASSUME Init PROVE IInv
  OBVIOUS
<1>1. TypeOK
  BY ContentAssumption, LimitsAssumption, FreshType, LabelsOf DEF Init, Journals, NoJournal,
     NoSnapshot, TypeOK
<1>2. \A p \in Deleters : InOrder(p)
  BY DEF Init, InOrder, Inside, Running, TwinsFirst, Reading, Deleting
<1>3. NoLostTwin /\ HalfDeletedIsRecorded
  BY DEF Init, NoLostTwin, HalfDeletedIsRecorded, HalfDeleted
<1> QED BY <1>1, <1>2, <1>3 DEF IInv

LEMMA NextInv == IInv /\ [Next]_vars => IInv'
<1> SUFFICES ASSUME IInv, [Next]_vars PROVE IInv'
  OBVIOUS
<1>1. ASSUME NEW p \in Deleters, DeleterNext(p) PROVE IInv'
  <2>1. CASE TakeLock(p) \/ GiveUp(p) \/ \E resume \in BOOLEAN : Start(p, resume)
    BY <2>1, EntrySafe
  <2>2. CASE Working(p)
    BY <2>2, CheckSafe, ReadSafe, EnterAxis, CommitAny, TwinSafe, NodeSafe, DocsSafe, LastSafe
    DEF Working
  <2>3. CASE Crash(p)
    BY <2>3, CrashSafe
  <2> QED BY <1>1, <2>1, <2>2, <2>3 DEF DeleterNext
<1>2. CASE OthersNext
  BY <1>2, OthersSafe
<1>3. CASE UNCHANGED vars
  BY <1>3 DEF vars, content, bounds, IInv, TypeOK, InOrder, Inside, Running, Licensed,
              TwinsFirst, Pending, NoLostTwin, HalfDeletedIsRecorded, HalfDeleted
<1> QED BY <1>1, <1>2, <1>3 DEF Next

\* Content that goes away goes in the hands of a running call, whose licence is
\* part of the invariant.
LEMMA DeletionStep ==
    ASSUME IInv, [Next]_vars, ~(Content \subseteq Content')
    PROVE  \E p \in Deleters : Running(p)
<1>1. CASE OthersNext
  <2>1. graph \subseteq graph' /\ sources \subseteq sources' /\ vecs \subseteq vecs'
    BY <1>1 DEF OthersNext, WriteNode, WriteTwin, WriteSource, WriteVector, VectorsGoDown,
                VectorsComeBack, Unregister, Register, Tear, ClearJournal, Write, content
  <2>2. \A n \in Nodes : twin[n] # "none" => twin'[n] # "none"
    BY <1>1 DEF OthersNext, WriteNode, WriteTwin, WriteSource, WriteVector, VectorsGoDown,
                VectorsComeBack, Unregister, Register, Tear, ClearJournal, Write, content,
                IInv, TypeOK
  <2> QED BY <2>1, <2>2 DEF Content
<1>2. CASE UNCHANGED content
  BY <1>2 DEF Content, content
<1>3. ASSUME NEW p \in Deleters, Working(p), ~UNCHANGED content PROVE Running(p)
  BY <1>3 DEF Working, Check, ReadRows, ReadDocs, ProbeVectors, EnterTwins, EnterDocs,
              EnterNodes, EnterVectors, Enter, CommitTwins, CommitDocs, CommitNodes,
              CommitVectors, CommitAxis, DeleteTwin, DeleteDocNodes, DeleteSources,
              DeleteNode, DeleteVectors, Return, Running, Deleting
<1>4. ASSUME NEW p \in Deleters, DeleterNext(p), ~UNCHANGED content PROVE Running(p)
  BY <1>3, <1>4 DEF DeleterNext, Start, TakeLock, GiveUp, Crash
<1>5. CASE UNCHANGED vars
  BY <1>5, <1>2 DEF vars, content
<1> QED BY <1>1, <1>2, <1>4, <1>5 DEF Next

\* Type correctness: row, content, journal, lock and every local variable stay
\* in their domains, and every deleter at a point of delete_pack.
THEOREM TypeCorrect == Spec => []TypeOK
<1>1. IInv => TypeOK
  BY DEF IInv
<1> QED BY InitInv, NextInv, <1>1, PTL DEF Spec

\* No call of delete_pack, however it fails or dies, deletes a graph row and
\* leaves the untagged document that only that row led to.
THEOREM NoTwinIsLost == Spec => []NoLostTwin
<1>1. IInv => NoLostTwin
  BY DEF IInv
<1> QED BY InitInv, NextInv, <1>1, PTL DEF Spec

\* A node that a run left half deleted has a journal for the next run to meet,
\* as long as nobody clears journals by hand.
THEOREM EveryRestIsRecorded == Spec => []HalfDeletedIsRecorded
<1>1. IInv => HalfDeletedIsRecorded
  BY DEF IInv
<1> QED BY InitInv, NextInv, <1>1, PTL DEF Spec

\* Nothing is deleted but by the holder of the pack's lock file, under a journal
\* of its own or one it was told to resume, for the registration it was
\* authorized for.
THEOREM DeletionsAreLicensed == Spec => DeletionIsLicensed
<1>1. ASSUME IInv, [Next]_vars, ~(Content \subseteq Content')
      PROVE  \E p \in Deleters :
                /\ lock = p
                /\ journal.state = "kept"
                /\ loc[p].began \/ loc[p].resume
                /\ journal.created \in {NoSnapshot, loc[p].created}
  BY <1>1, DeletionStep DEF IInv, InOrder, Inside, Running, Reading, Deleting, Licensed
<1>2. IInv /\ [Next]_vars =>
        [~(Content \subseteq Content') =>
           \E p \in Deleters :
              /\ lock = p
              /\ journal.state = "kept"
              /\ loc[p].began \/ loc[p].resume
              /\ journal.created \in {NoSnapshot, loc[p].created}]_vars
  BY <1>1
<1> QED BY InitInv, NextInv, <1>2, PTL DEF Spec, DeletionIsLicensed

-----------------------------------------------------------------------------
(* What a finished call leaves of what it found.                           *)

\* Of the content the call found, and of the untagged documents, nothing comes back.
Shrinks ==
    /\ GraphLeft' \subseteq GraphLeft
    /\ TaggedLeft' \subseteq TaggedLeft
    /\ SourcesLeft' \subseteq SourcesLeft
    /\ VectorsLeft' \subseteq VectorsLeft
    /\ LegacyDocs' \subseteq LegacyDocs

LEMMA DeletingShrinks ==
    ASSUME old' = old, graph' \subseteq graph, sources' \subseteq sources, vecs' \subseteq vecs,
           \A n \in Nodes : twin'[n] \in {twin[n], "none"}
    PROVE  Shrinks
BY DEF Shrinks, GraphLeft, TaggedLeft, Tagged, SourcesLeft, VectorsLeft, LegacyDocs

\* What a writer adds is no longer content the call found.
LEMMA OthersShrink ==
    ASSUME IInv, OthersNext
    PROVE  Shrinks /\ UNCHANGED <<pc, loc, shaped>>
<1> USE DEF Shrinks, GraphLeft, TaggedLeft, Tagged, SourcesLeft, VectorsLeft, LegacyDocs,
            Write, content, bounds
<1>0. TypeOK
  BY DEF IInv
<1>1. ASSUME NEW n \in Nodes, WriteNode(n) PROVE Shrinks /\ UNCHANGED <<pc, loc, shaped>>
  BY <1>1 DEF WriteNode
<1>2. ASSUME NEW n \in Nodes, WriteTwin(n) PROVE Shrinks /\ UNCHANGED <<pc, loc, shaped>>
  BY <1>0, <1>2 DEF WriteTwin, TypeOK
<1>3. ASSUME NEW c \in Sources, WriteSource(c) PROVE Shrinks /\ UNCHANGED <<pc, loc, shaped>>
  BY <1>3 DEF WriteSource
<1>4. ASSUME NEW v \in Vectors, WriteVector(v) PROVE Shrinks /\ UNCHANGED <<pc, loc, shaped>>
  BY <1>4 DEF WriteVector
<1>5. CASE VectorsGoDown \/ VectorsComeBack \/ Unregister \/ Register \/ Tear \/ ClearJournal
  BY <1>5 DEF VectorsGoDown, VectorsComeBack, Unregister, Register, Tear, ClearJournal
<1> QED BY <1>1, <1>2, <1>3, <1>4, <1>5 DEF OthersNext

USE DEF Swept

LEMMA FreshSwept ==
    ASSUME NEW p \in Deleters, pc'[p] \in {"idle", "wait", "check", "rows"}
    PROVE  Swept(p)'
BY DEF RowsSeen, DocsSeen, VectorsSeen, TwinsDone, DocsDone, NodesDone, VectorsDone,
       Running, Reading, Deleting, Last

LEMMA StaySwept ==
    ASSUME NEW p \in Deleters, Swept(p), UNCHANGED <<pc[p], loc[p], journal, shaped>>, Shrinks
    PROVE  Swept(p)'
BY DEF RowsSeen, DocsSeen, VectorsSeen, TwinsDone, DocsDone, NodesDone, VectorsDone,
       Running, Pending, Shrinks

LEMMA FinishSwept ==
    ASSUME TypeOK, NEW p \in Deleters, Finish(p)
    PROVE  Swept(p)'
BY FreshSwept DEF Finish, Goto, TypeOK

\* A call moves nobody else.
LEMMA OthersStay ==
    ASSUME TypeOK, NEW p \in Deleters, DeleterNext(p), NEW q \in Deleters, q # p
    PROVE  pc'[q] = pc[q] /\ loc'[q] = loc[q]
<1> USE DEF Goto, SetLoc, Finish, Raise, TypeOK
<1>1. CASE \/ \E resume \in BOOLEAN : Start(p, resume)
           \/ TakeLock(p) \/ GiveUp(p) \/ Crash(p) \/ Check(p)
  BY <1>1 DEF Start, TakeLock, GiveUp, Crash, Check, Open
<1>2. CASE ReadRows(p) \/ ReadDocs(p) \/ ProbeVectors(p)
  BY <1>2 DEF ReadRows, ReadDocs, ProbeVectors
<1>3. CASE EnterTwins(p) \/ EnterDocs(p) \/ EnterNodes(p) \/ EnterVectors(p)
  BY <1>3 DEF EnterTwins, EnterDocs, EnterNodes, EnterVectors, Enter
<1>4. CASE CommitTwins(p) \/ CommitDocs(p) \/ CommitNodes(p) \/ CommitVectors(p)
  BY <1>4 DEF CommitTwins, CommitDocs, CommitNodes, CommitVectors, CommitAxis
<1>5. CASE \E n \in Nodes : DeleteTwin(p, n) \/ DeleteNode(p, n)
  BY <1>5 DEF DeleteTwin, DeleteNode
<1>6. CASE DeleteDocNodes(p) \/ DeleteSources(p) \/ DeleteVectors(p) \/ Return(p)
  BY <1>6 DEF DeleteDocNodes, DeleteSources, DeleteVectors, Return
<1> QED BY <1>1, <1>2, <1>3, <1>4, <1>5, <1>6 DEF DeleterNext, Working

\* While one call runs, the others only start, wait, give up or die outside.
LEMMA OthersSwept ==
    ASSUME SweepInv, NEW p \in Deleters, DeleterNext(p), NEW q \in Deleters, q # p
    PROVE  Swept(q)'
<1>0. TypeOK /\ Swept(q) /\ InOrder(q) /\ InOrder(p) /\ pc'[q] = pc[q] /\ loc'[q] = loc[q]
  BY OthersStay DEF SweepInv, IInv
<1>1. CASE ~Running(q)
  BY <1>0, <1>1, FreshSwept DEF Running, TypeOK, Labels
<1>2. CASE Running(q)
  <2>1. lock = q /\ ~Inside(p)
    BY <1>0, <1>2 DEF InOrder, Inside, Running, Reading, Deleting
  <2>2. ~Working(p)
    BY <2>1 DEF Inside, Working, Check, ReadRows, ReadDocs, ProbeVectors, EnterTwins,
       EnterDocs, EnterNodes, EnterVectors, Enter, CommitTwins, CommitDocs, CommitNodes,
       CommitVectors, DeleteTwin, DeleteNode, DeleteDocNodes, DeleteSources, DeleteVectors,
       Return
  <2>3. UNCHANGED <<graph, twin, sources, vecs, old, journal, shaped>>
    BY <2>2 DEF DeleterNext, Start, TakeLock, GiveUp, Crash, content
  <2> QED BY <1>0, <2>3, StaySwept, DeletingShrinks
<1> QED BY <1>1, <1>2

\* What the reads of a call established still stands after a step that shrinks
\* what is left, keeps what was read and clears no mark.
LEMMA SeenStays ==
    ASSUME NEW p \in Deleters, Swept(p), Shrinks, pc[p] \in Deleting, pc'[p] \in Deleting,
           pc[p] \in {"vecDelete", "vecCommit", "end"} => pc'[p] \in {"vecDelete", "vecCommit", "end"},
           loc'[p].rows = loc[p].rows,
           loc'[p].docsLive = loc[p].docsLive,
           loc'[p].drift = loc[p].drift,
           shaped' = shaped,
           pc[p] # "vecCommit" => Pending("vectors")' = Pending("vectors")
    PROVE  RowsSeen(p)' /\ DocsSeen(p)' /\ VectorsSeen(p)'
BY DEF RowsSeen, Running, Shrinks, Deleting, DocsSeen, VectorsSeen

\* The same for the axes that are behind the call.
LEMMA TwinsStay ==
    ASSUME NEW p \in Deleters, Swept(p), Shrinks,
           pc[p] \in Deleting \ {"twins", "twinLoop"},
           Pending("twins")' = Pending("twins")
    PROVE  TwinsDone(p)'
BY DEF TwinsDone, Shrinks

LEMMA DocsStay ==
    ASSUME NEW p \in Deleters, Swept(p), Shrinks,
           pc[p] \in {"nodes", "nodeLoop"} \cup Last, pc'[p] \in {"nodes", "nodeLoop"} \cup Last,
           Pending("docs")' = Pending("docs")
    PROVE  DocsDone(p)'
BY DEF DocsDone, Shrinks, Last

LEMMA NodesStay ==
    ASSUME NEW p \in Deleters, Swept(p), Shrinks, pc[p] \in Last, pc'[p] \in Last,
           Pending("twins")' = Pending("twins"), Pending("nodes")' = Pending("nodes")
    PROVE  NodesDone(p)'
BY DEF NodesDone, Shrinks, Last

LEMMA ReadsSwept ==
    ASSUME SweepInv, NEW p \in Deleters, ReadRows(p) \/ ReadDocs(p) \/ ProbeVectors(p)
    PROVE  Swept(p)'
<1>0. TypeOK /\ NoLostTwin /\ Swept(p) /\ loc[p] \in Locals
  BY LocalsOf DEF SweepInv, IInv
<1>1. CASE Finish(p)
  BY <1>0, <1>1, FinishSwept
<1>2. CASE ReadRows(p) /\ ~Finish(p)
  <2>1. pc'[p] = "docsLive" /\ loc'[p].rows = graph /\ graph' = graph /\ twin' = twin
    BY <1>0, <1>2 DEF ReadRows, Raise, Goto, SetLoc, TypeOK, Locals, content
  <2>2. GraphLeft' \subseteq graph /\ LegacyDocs' \subseteq graph
    BY <1>0, <2>1 DEF GraphLeft, LegacyDocs, NoLostTwin
  <2> QED BY <2>1, <2>2 DEF RowsSeen, DocsSeen, VectorsSeen, TwinsDone, DocsDone, NodesDone,
             VectorsDone, Deleting, Last
<1>3. CASE ReadDocs(p) /\ ~Finish(p)
  <2>1. /\ pc[p] = "docsLive" /\ pc'[p] = "vecLive"
        /\ UNCHANGED <<graph, twin, sources, vecs, old>>
        /\ SetLoc(p, [loc[p] EXCEPT !.docsLive = (sources # {} \/ Tagged # {})])
    BY <1>0, <1>3 DEF ReadDocs, Raise, Goto, TypeOK, content
  <2>2. loc'[p].rows = loc[p].rows /\ loc'[p].docsLive = (sources # {} \/ Tagged # {})
    BY <1>0, <2>1 DEF SetLoc, TypeOK, Locals
  <2>3. Shrinks
    BY <2>1, DeletingShrinks
  <2>4. ~loc'[p].docsLive => TaggedLeft' = {} /\ SourcesLeft' = {}
    BY <2>1, <2>2 DEF TaggedLeft, Tagged, SourcesLeft
  <2>5. RowsSeen(p)'
    BY <1>0, <2>1, <2>2, <2>3 DEF RowsSeen, Running, Reading, Shrinks
  <2> QED BY <2>1, <2>4, <2>5 DEF DocsSeen, VectorsSeen, TwinsDone, DocsDone, NodesDone,
             VectorsDone, Deleting, Last
<1>4. CASE ProbeVectors(p) /\ ~Finish(p)
  <2>1. /\ pc[p] = "vecLive" /\ pc'[p] = "twins"
        /\ UNCHANGED <<graph, twin, sources, vecs, old, journal, shaped>>
    BY <1>0, <1>4 DEF ProbeVectors, Goto, TypeOK, content
  <2>2. PICK avail \in {"yes", "no", "unknown"}, drift \in BOOLEAN :
          /\ SetLoc(p, [loc[p] EXCEPT !.avail = avail, !.drift = drift])
          /\ shaped /\ ~drift => Pending("vectors") \/ vecs = {}
    BY <1>4 DEF ProbeVectors
  <2>3. /\ loc'[p].rows = loc[p].rows /\ loc'[p].docsLive = loc[p].docsLive
        /\ loc'[p].drift = drift
    BY <1>0, <2>2 DEF SetLoc, TypeOK, Locals
  <2>4. Shrinks
    BY <2>1, DeletingShrinks
  <2>5. RowsSeen(p)' /\ DocsSeen(p)'
    BY <1>0, <2>1, <2>3, <2>4 DEF RowsSeen, DocsSeen, Running, Reading, Shrinks
  <2>6. VectorsSeen(p)'
    BY <2>1, <2>2, <2>3 DEF VectorsSeen, VectorsLeft, Pending
  <2> QED BY <2>1, <2>5, <2>6 DEF TwinsDone, DocsDone, NodesDone, VectorsDone, Last
<1> QED BY <1>1, <1>2, <1>3, <1>4

\* What entering an axis does to the locals.
LEMMA EnterLocals ==
    ASSUME TypeOK, NEW p \in Deleters, NEW here, NEW due, NEW body, NEW skip,
           Enter(p, here, due, body, skip)
    PROVE  /\ due => pc'[p] = body
           /\ loc'[p].rows = loc[p].rows /\ loc'[p].docsLive = loc[p].docsLive
           /\ loc'[p].drift = loc[p].drift
           /\ loc'[p].todo = loc[p].rows /\ loc'[p].failed = FALSE
           /\ journal' = journal /\ shaped' = shaped /\ LegacyDocs' = LegacyDocs
           /\ Shrinks
BY LocalsOf, DeletingShrinks DEF Enter, content, Goto, SetLoc, TypeOK, Locals, LegacyDocs

LEMMA EnterSwept ==
    ASSUME SweepInv, NEW p \in Deleters,
           EnterTwins(p) \/ EnterDocs(p) \/ EnterNodes(p) \/ EnterVectors(p)
    PROVE  Swept(p)'
<1>0. TypeOK /\ Swept(p)
  BY DEF SweepInv, IInv
<1> USE DEF Pending
<1>1. CASE EnterTwins(p)
  <2>1. Enter(p, "twins", TwinsDue(p), "twinLoop", "docs") /\ pc[p] = "twins"
    BY <1>1 DEF EnterTwins, Enter
  <2>2. ~TwinsDue(p) => ~Pending("twins") /\ loc[p].rows = {}
    BY DEF TwinsDue
  <2>3. LegacyDocs' = LegacyDocs
    BY <1>0, <2>1, EnterLocals
  <2>4. pc'[p] = IF TwinsDue(p) THEN "twinLoop" ELSE "docs"
    BY <1>0, <2>1, EnterLocals DEF Enter, Goto, TypeOK
  <2>5. RowsSeen(p)' /\ DocsSeen(p)' /\ VectorsSeen(p)'
    BY <1>0, <2>1, <2>3, <2>4, EnterLocals, SeenStays DEF Deleting
  <2>6. TwinsDone(p)'
    BY <2>3, <2>4, <1>0, <2>1, <2>2 DEF TwinsDone, RowsSeen, Running, Deleting
  <2> QED BY <2>3, <2>4, <2>5, <2>6 DEF DocsDone, NodesDone, VectorsDone, Last
<1>2. CASE EnterDocs(p)
  <2>1. Enter(p, "docs", DocsDue(p), "docNodes", "nodes") /\ pc[p] = "docs"
    BY <1>2 DEF EnterDocs, Enter
  <2>2. ~DocsDue(p) => ~loc[p].docsLive
    BY DEF DocsDue
  <2>3. journal' = journal /\ Shrinks
    BY <1>0, <2>1, EnterLocals
  <2>4. pc'[p] = IF DocsDue(p) THEN "docNodes" ELSE "nodes"
    BY <1>0, <2>1, EnterLocals DEF Enter, Goto, TypeOK
  <2>5. RowsSeen(p)' /\ DocsSeen(p)' /\ VectorsSeen(p)'
    BY <1>0, <2>1, <2>3, <2>4, EnterLocals, SeenStays DEF Deleting
  <2>6. TwinsDone(p)'
    BY <1>0, <2>1, <2>3, <2>4, TwinsStay DEF Deleting
  <2>7. DocsDone(p)'
    <3>1. CASE DocsDue(p)
      BY <2>3, <2>4, <3>1 DEF DocsDone, Last
    <3>2. CASE ~DocsDue(p)
      BY <1>0, <2>1, <2>2, <2>3, <2>4, <3>2 DEF DocsDone, DocsSeen, Shrinks, Deleting
    <3> QED BY <3>1, <3>2
  <2> QED BY <2>3, <2>4, <2>5, <2>6, <2>7 DEF NodesDone, VectorsDone, Last
<1>3. CASE EnterNodes(p)
  <2>1. Enter(p, "nodes", NodesDue(p), "nodeLoop", "vectors") /\ pc[p] = "nodes"
    BY <1>3 DEF EnterNodes, Enter
  <2>2. ~NodesDue(p) => Pending("twins") \/ loc[p].rows = {}
    BY DEF NodesDue
  <2>3. journal' = journal /\ Shrinks /\ loc'[p].todo = loc[p].rows
    BY <1>0, <2>1, EnterLocals
  <2>4. pc'[p] = IF NodesDue(p) THEN "nodeLoop" ELSE "vectors"
    BY <1>0, <2>1, EnterLocals DEF Enter, Goto, TypeOK
  <2>5. RowsSeen(p)' /\ DocsSeen(p)' /\ VectorsSeen(p)'
    BY <1>0, <2>1, <2>3, <2>4, EnterLocals, SeenStays DEF Deleting
  <2>6. TwinsDone(p)' /\ DocsDone(p)'
    BY <1>0, <2>1, <2>3, <2>4, TwinsStay, DocsStay DEF Deleting, Last
  <2>7. GraphLeft' \subseteq loc[p].rows
    BY <1>0, <2>1, <2>3, <2>4 DEF RowsSeen, Running, Deleting, Shrinks
  <2>8. NodesDone(p)'
    BY <2>3, <2>4, <2>7, <2>2 DEF NodesDone, Last
  <2> QED BY <2>3, <2>4, <2>5, <2>6, <2>8 DEF VectorsDone
<1>4. CASE EnterVectors(p)
  <2>1. Enter(p, "vectors", VectorsDue(p), "vecDelete", "end") /\ pc[p] = "vectors"
    BY <1>4 DEF EnterVectors, Enter
  <2>2. ~VectorsDue(p) => ~Pending("vectors") /\ ~loc[p].drift
    BY DEF VectorsDue
  <2>3. journal' = journal /\ Shrinks /\ shaped' = shaped
    BY <1>0, <2>1, EnterLocals
  <2>4. pc'[p] = IF VectorsDue(p) THEN "vecDelete" ELSE "end"
    BY <1>0, <2>1, EnterLocals DEF Enter, Goto, TypeOK
  <2>5. RowsSeen(p)' /\ DocsSeen(p)' /\ VectorsSeen(p)'
    BY <1>0, <2>1, <2>3, <2>4, EnterLocals, SeenStays DEF Deleting
  <2>6. TwinsDone(p)' /\ DocsDone(p)' /\ NodesDone(p)'
    BY <1>0, <2>1, <2>3, <2>4, TwinsStay, DocsStay, NodesStay DEF Deleting, Last
  <2>7. VectorsDone(p)'
    BY <2>3, <2>4, <1>0, <2>1, <2>2 DEF VectorsDone, VectorsSeen, Shrinks, Deleting
  <2> QED BY <2>5, <2>6, <2>7
<1> QED BY <1>1, <1>2, <1>3, <1>4

\* What recording an axis does, when the call goes on.
LEMMA CommitMarks ==
    ASSUME TypeOK, NEW p \in Deleters, NEW axis \in Axes, NEW ok \in BOOLEAN, NEW next,
           CommitAxis(p, axis, ok, next), ~Finish(p)
    PROVE  /\ pc'[p] = next
           /\ UNCHANGED <<graph, twin, sources, vecs, old, shaped, loc>>
           /\ Shrinks
           /\ ~Pending(axis)' => ok
           /\ \A other \in Axes \ {axis} : Pending(other)' = Pending(other)
BY DeletingShrinks DEF CommitAxis, Raise, content, Record, Pending, TypeOK, Journals, Goto

LEMMA CommitSwept ==
    ASSUME SweepInv, NEW p \in Deleters,
           CommitTwins(p) \/ CommitDocs(p) \/ CommitNodes(p) \/ CommitVectors(p)
    PROVE  Swept(p)'
<1>0. /\ TypeOK /\ Swept(p) /\ TwinsFirst(p) /\ (~loc[p].failed) \in BOOLEAN
      /\ loc[p].rows \subseteq Nodes
  BY LocalsOf DEF SweepInv, IInv, InOrder, Locals
<1>1. CASE Finish(p)
  BY <1>0, <1>1, FinishSwept
<1>2. CASE CommitTwins(p) /\ ~Finish(p)
  <2>1. /\ CommitAxis(p, "twins", ~loc[p].failed, "docs") /\ "twins" \in Axes
        /\ pc[p] = "twinLoop" /\ loc[p].todo = {}
    BY <1>2 DEF CommitTwins, Axes
  <2>2. /\ pc'[p] = "docs" /\ UNCHANGED <<shaped, loc>> /\ Shrinks
        /\ ~Pending("twins")' => ~loc[p].failed
        /\ Pending("vectors")' = Pending("vectors")
    BY <1>0, <1>2, <2>1, CommitMarks DEF Axes
  <2>3. RowsSeen(p)' /\ DocsSeen(p)' /\ VectorsSeen(p)'
    BY <1>0, <2>1, <2>2, SeenStays DEF Deleting
  <2>4. ~Pending("twins")' => LegacyDocs' = {}
    BY <1>0, <2>1, <2>2 DEF TwinsFirst, Shrinks, RowsSeen, Running, Deleting, LegacyDocs
  <2> QED BY <2>2, <2>3, <2>4 DEF TwinsDone, DocsDone, NodesDone, VectorsDone, Last
<1>3. CASE CommitDocs(p) /\ ~Finish(p)
  <2>1. CommitAxis(p, "docs", TRUE, "nodes") /\ "docs" \in Axes /\ pc[p] = "docsCommit"
    BY <1>3 DEF CommitDocs, Axes
  <2>2. /\ pc'[p] = "nodes" /\ UNCHANGED <<shaped, loc>> /\ Shrinks
        /\ Pending("vectors")' = Pending("vectors") /\ Pending("twins")' = Pending("twins")
    BY <1>0, <1>3, <2>1, CommitMarks DEF Axes
  <2>3. RowsSeen(p)' /\ DocsSeen(p)' /\ VectorsSeen(p)'
    BY <1>0, <2>1, <2>2, SeenStays DEF Deleting
  <2>4. TwinsDone(p)'
    BY <1>0, <2>1, <2>2, TwinsStay DEF Deleting
  <2>5. TaggedLeft' = {} /\ SourcesLeft' = {}
    BY <1>0, <2>1, <2>2 DEF DocsDone, Shrinks
  <2> QED BY <2>2, <2>3, <2>4, <2>5 DEF DocsDone, NodesDone, VectorsDone, Last
<1>4. CASE CommitNodes(p) /\ ~Finish(p)
  <2>1. /\ CommitAxis(p, "nodes", ~loc[p].failed, "vectors") /\ "nodes" \in Axes
        /\ pc[p] = "nodeLoop" /\ loc[p].todo = {}
    BY <1>4 DEF CommitNodes, Axes
  <2>2. /\ pc'[p] = "vectors" /\ UNCHANGED <<shaped, loc>> /\ Shrinks
        /\ ~Pending("nodes")' => ~loc[p].failed
        /\ Pending("vectors")' = Pending("vectors") /\ Pending("twins")' = Pending("twins")
        /\ Pending("docs")' = Pending("docs")
    BY <1>0, <1>4, <2>1, CommitMarks DEF Axes
  <2>3. RowsSeen(p)' /\ DocsSeen(p)' /\ VectorsSeen(p)'
    BY <1>0, <2>1, <2>2, SeenStays DEF Deleting
  <2>4. TwinsDone(p)' /\ DocsDone(p)'
    BY <1>0, <2>1, <2>2, TwinsStay, DocsStay DEF Deleting, Last
  <2>5. ~Pending("nodes")' => GraphLeft' = {}
    BY <1>0, <2>1, <2>2 DEF NodesDone, Shrinks
  <2> QED BY <2>2, <2>3, <2>4, <2>5 DEF NodesDone, VectorsDone
<1>5. CASE CommitVectors(p) /\ ~Finish(p)
  <2>1. /\ CommitAxis(p, "vectors", ~loc[p].failed, "end") /\ "vectors" \in Axes
        /\ pc[p] = "vecCommit"
    BY <1>5 DEF CommitVectors, Axes
  <2>2. /\ pc'[p] = "end" /\ UNCHANGED <<shaped, loc>> /\ Shrinks
        /\ ~Pending("vectors")' => ~loc[p].failed
        /\ Pending("nodes")' = Pending("nodes") /\ Pending("twins")' = Pending("twins")
        /\ Pending("docs")' = Pending("docs")
    BY <1>0, <1>5, <2>1, CommitMarks DEF Axes
  <2>3. RowsSeen(p)' /\ DocsSeen(p)' /\ VectorsSeen(p)'
    BY <1>0, <2>1, <2>2, SeenStays DEF Deleting
  <2>4. TwinsDone(p)' /\ DocsDone(p)' /\ NodesDone(p)'
    BY <1>0, <2>1, <2>2, TwinsStay, DocsStay, NodesStay DEF Deleting, Last
  <2>5. VectorsDone(p)'
    BY <1>0, <2>1, <2>2 DEF VectorsDone, Shrinks
  <2> QED BY <2>3, <2>4, <2>5
<1> QED BY <1>1, <1>2, <1>3, <1>4, <1>5

\* One row of an axis: the locals other than todo and failed stay.
LEMMA RowStep ==
    ASSUME TypeOK, NEW p \in Deleters, NEW n,
           \/ SetLoc(p, [loc[p] EXCEPT !.todo = @ \ {n}])
           \/ SetLoc(p, [loc[p] EXCEPT !.todo = @ \ {n}, !.failed = TRUE])
    PROVE  /\ loc'[p].rows = loc[p].rows /\ loc'[p].docsLive = loc[p].docsLive
           /\ loc'[p].drift = loc[p].drift
           /\ loc'[p].todo = loc[p].todo \ {n}
           /\ ~loc'[p].failed => ~loc[p].failed
<1> DEFINE left == loc[p].todo \ {n}
<1>1. loc[p] \in Locals
  BY LocalsOf
<1>2. \/ SetLoc(p, [loc[p] EXCEPT !.todo = left])
      \/ SetLoc(p, [loc[p] EXCEPT !.todo = left, !.failed = TRUE])
  OBVIOUS
<1> HIDE DEF left
<1>3. /\ loc'[p].rows = loc[p].rows /\ loc'[p].docsLive = loc[p].docsLive
      /\ loc'[p].drift = loc[p].drift
      /\ loc'[p].todo = left
      /\ ~loc'[p].failed => ~loc[p].failed
  <2>1. CASE SetLoc(p, [loc[p] EXCEPT !.todo = left])
    BY <2>1, <1>1 DEF SetLoc, TypeOK, Locals
  <2>2. CASE SetLoc(p, [loc[p] EXCEPT !.todo = left, !.failed = TRUE])
    BY <2>2, <1>1 DEF SetLoc, TypeOK, Locals
  <2> QED BY <1>2, <2>1, <2>2
<1> QED BY <1>3 DEF left

LEMMA RowsSwept ==
    ASSUME SweepInv, NEW p \in Deleters, NEW n \in Nodes, DeleteTwin(p, n) \/ DeleteNode(p, n)
    PROVE  Swept(p)'
<1>0. TypeOK /\ Swept(p)
  BY DEF SweepInv, IInv
<1>1. /\ loc'[p].rows = loc[p].rows /\ loc'[p].docsLive = loc[p].docsLive
      /\ loc'[p].drift = loc[p].drift /\ loc'[p].todo = loc[p].todo \ {n}
  BY <1>0, RowStep DEF DeleteTwin, DeleteNode
<1>2. pc' = pc /\ UNCHANGED <<journal, shaped, old, sources, vecs>>
      /\ pc[p] \in {"twinLoop", "nodeLoop"}
  BY DEF DeleteTwin, DeleteNode
<1>3. Shrinks
  BY <1>0, DeletingShrinks DEF DeleteTwin, DeleteNode, TypeOK
<1>4. RowsSeen(p)' /\ DocsSeen(p)' /\ VectorsSeen(p)'
  BY <1>0, <1>1, <1>2, <1>3, SeenStays DEF Deleting, Pending
<1>5. CASE DeleteTwin(p, n)
  BY <1>2, <1>5, <1>4 DEF DeleteTwin, TwinsDone, DocsDone, NodesDone, VectorsDone, Last
<1>6. CASE DeleteNode(p, n)
  <2>1. pc[p] = "nodeLoop"
    BY <1>6 DEF DeleteNode
  <2>2. TwinsDone(p)' /\ DocsDone(p)'
    BY <1>0, <1>2, <1>3, <2>1, TwinsStay, DocsStay DEF Deleting, Last, Pending
  <2>3. ~loc'[p].failed => ~loc[p].failed /\ n \notin graph'
    <3>1. CASE graph' = graph \ {n}
      BY <1>0, <1>6, <3>1, RowStep DEF DeleteNode
    <3>2. CASE graph' # graph \ {n}
      <4>1. SetLoc(p, [loc[p] EXCEPT !.todo = @ \ {n}, !.failed = TRUE])
        BY <1>6, <3>2 DEF DeleteNode
      <4>2. loc[p] \in Locals
        BY <1>0, LocalsOf
      <4>3. loc'[p].failed
        BY <1>0, <4>1, <4>2 DEF SetLoc, TypeOK, Locals
      <4> QED BY <4>3
    <3> QED BY <3>1, <3>2
  <2>4. ~loc'[p].failed => GraphLeft' \subseteq loc'[p].todo
    BY <1>0, <1>1, <1>3, <2>1, <2>3 DEF NodesDone, Shrinks, GraphLeft
  <2>5. NodesDone(p)' /\ VectorsDone(p)'
    BY <1>2, <2>1, <2>4 DEF NodesDone, VectorsDone, Last
  <2> QED BY <1>4, <2>2, <2>5
<1> QED BY <1>5, <1>6

LEMMA DocsSwept ==
    ASSUME SweepInv, NEW p \in Deleters, DeleteDocNodes(p) \/ DeleteSources(p)
    PROVE  Swept(p)'
<1>0. TypeOK /\ Swept(p)
  BY DEF SweepInv, IInv
<1>1. CASE Finish(p)
  BY <1>0, <1>1, FinishSwept
<1>2. CASE ~Finish(p)
  <2>1. UNCHANGED <<loc, journal, shaped, graph, vecs, old>>
    BY <1>2 DEF DeleteDocNodes, DeleteSources, Raise
  <2>2. Shrinks
    BY <1>0, <2>1, DeletingShrinks DEF DeleteDocNodes, DeleteSources, TypeOK
  <2>3. /\ pc[p] \in {"docNodes", "docSources"}
        /\ pc'[p] = IF pc[p] = "docNodes" THEN "docSources" ELSE "docsCommit"
    BY <1>0, <1>2 DEF DeleteDocNodes, DeleteSources, Raise, Goto, TypeOK
  <2>4. RowsSeen(p)' /\ DocsSeen(p)' /\ VectorsSeen(p)'
    BY <1>0, <2>1, <2>2, <2>3, SeenStays DEF Deleting, Pending
  <2>5. TwinsDone(p)'
    BY <1>0, <2>1, <2>2, <2>3, TwinsStay DEF Deleting, Pending
  <2>6. DocsDone(p)'
    <3>1. CASE DeleteDocNodes(p)
      BY <1>2, <2>3, <3>1 DEF DeleteDocNodes, Raise, TaggedLeft, Tagged, DocsDone, Last
    <3>2. CASE DeleteSources(p)
      <4>1. sources' = {} /\ pc'[p] = "docsCommit" /\ pc[p] = "docSources"
        BY <1>2, <2>3, <3>2 DEF DeleteSources, Raise
      <4>2. TaggedLeft' = {} /\ SourcesLeft' = {}
        BY <1>0, <2>2, <4>1 DEF DocsDone, Shrinks, SourcesLeft
      <4> QED BY <4>1, <4>2 DEF DocsDone, Last
    <3> QED BY <3>1, <3>2
  <2> QED BY <2>3, <2>4, <2>5, <2>6 DEF NodesDone, VectorsDone, Last
<1> QED BY <1>1, <1>2

\* The vectors are gone when the call takes them for deleted.
LEMMA VectorsSwept ==
    ASSUME SweepInv, NEW p \in Deleters, DeleteVectors(p)
    PROVE  Swept(p)'
<1>0. TypeOK /\ Swept(p) /\ loc[p] \in Locals
  BY LocalsOf DEF SweepInv, IInv
<1>1. UNCHANGED <<journal, shaped, graph, twin, sources, old>> /\ vecs' \subseteq vecs
  BY DEF DeleteVectors
<1>2. Shrinks
  BY <1>1, DeletingShrinks
<1>3. pc[p] = "vecDelete" /\ pc'[p] = "vecCommit"
  BY <1>0 DEF DeleteVectors, Goto, TypeOK
<1>4. PICK failed \in BOOLEAN :
        /\ SetLoc(p, [loc[p] EXCEPT !.failed = failed])
        /\ ~failed /\ shaped => vecs' = {}
  BY DEF DeleteVectors
<1>5. /\ loc'[p].rows = loc[p].rows /\ loc'[p].docsLive = loc[p].docsLive
      /\ loc'[p].drift = loc[p].drift /\ loc'[p].failed = failed
  BY <1>0, <1>4 DEF SetLoc, TypeOK, Locals
<1>6. RowsSeen(p)' /\ DocsSeen(p)' /\ VectorsSeen(p)'
  BY <1>0, <1>1, <1>2, <1>3, <1>5, SeenStays DEF Deleting, Pending
<1>7. TwinsDone(p)' /\ DocsDone(p)' /\ NodesDone(p)'
  BY <1>0, <1>1, <1>2, <1>3, TwinsStay, DocsStay, NodesStay DEF Deleting, Last, Pending
<1>8. VectorsDone(p)'
  BY <1>1, <1>3, <1>4, <1>5 DEF VectorsDone, VectorsLeft
<1> QED BY <1>6, <1>7, <1>8

LEMMA NextSweep == SweepInv /\ [Next]_vars => SweepInv'
<1> SUFFICES ASSUME SweepInv, [Next]_vars PROVE SweepInv'
  OBVIOUS
<1>0. TypeOK /\ IInv /\ IInv' /\ \A p \in Deleters : Swept(p) /\ InOrder(p)
  BY NextInv DEF SweepInv, IInv
<1>1. ASSUME NEW p \in Deleters, DeleterNext(p) PROVE Swept(p)'
  <2>1. CASE TakeLock(p) \/ GiveUp(p) \/ Crash(p) \/ \E resume \in BOOLEAN : Start(p, resume)
    BY <1>0, <2>1, FreshSwept DEF TakeLock, GiveUp, Crash, Start, Goto, TypeOK
  <2>2. CASE Check(p) \/ Return(p)
    <3>1. pc'[p] \in {"idle", "rows"}
      BY <1>0, <2>2 DEF Check, Open, Raise, Return, Finish, Goto, TypeOK
    <3> QED BY <3>1, FreshSwept
  <2> QED BY <1>1, <2>1, <2>2, ReadsSwept, EnterSwept, CommitSwept, RowsSwept, DocsSwept,
             VectorsSwept DEF DeleterNext, Working
<1>2. ASSUME OthersNext, NEW p \in Deleters PROVE Swept(p)'
  <2>1. Shrinks /\ UNCHANGED <<pc, loc, shaped>>
    BY <1>0, <1>2, OthersShrink
  <2>2. CASE ~Running(p)
    BY <1>0, <2>2, <2>1, FreshSwept DEF Running, TypeOK, Labels
  <2>3. CASE Running(p)
    <3>1. lock = p /\ p # Nobody
      BY <1>0, <2>3, DeletersAssumption DEF InOrder, Inside, Running, Reading, Deleting
    <3>2. journal' = journal
      BY <1>2, <3>1 DEF OthersNext, WriteNode, WriteTwin, WriteSource, WriteVector, Write,
         VectorsGoDown, VectorsComeBack, Unregister, Register, Tear, ClearJournal
    <3> QED BY <1>0, <2>1, <3>2, StaySwept
  <2> QED BY <2>2, <2>3
<1>3. ASSUME UNCHANGED vars, NEW p \in Deleters PROVE Swept(p)'
  BY <1>3, DeletingShrinks, <1>0, StaySwept DEF vars
<1>4. ASSUME NEW q \in Deleters PROVE Swept(q)'
  BY <1>1, <1>2, <1>3, OthersSwept DEF Next
<1> QED BY <1>0, <1>4 DEF SweepInv

\* A call that ends with every axis marked done has deleted everything that was
\* there when it began and was not written again, whatever else failed, and
\* whatever the journal it resumed had marked (delete_pack).
THEOREM CompletedCallsLeaveNothing == Spec => []CompleteMeansGone
<1>1. Init => SweepInv
  <2> SUFFICES ASSUME Init, NEW p \in Deleters PROVE Swept(p)
    BY InitInv DEF SweepInv
  <2>1. pc[p] = "idle"
    BY DEF Init
  <2> QED BY <2>1 DEF RowsSeen, DocsSeen, VectorsSeen, TwinsDone, DocsDone, NodesDone,
             VectorsDone, Running, Reading, Deleting, Last
<1>2. SweepInv => CompleteMeansGone
  <2> SUFFICES ASSUME SweepInv, NEW p \in Deleters, pc[p] = "end", journal.done = Axes,
                      NEW item \in old \cap Content
               PROVE  item[1] = "vector" /\ ~shaped
    BY DEF CompleteMeansGone
  <2>1. \A axis \in {"twins", "docs", "nodes", "vectors"} : ~Pending(axis)
    BY DEF Pending, Axes
  <2>2. /\ TaggedLeft = {} /\ SourcesLeft = {} /\ GraphLeft = {} /\ LegacyDocs = {}
        /\ shaped => VectorsLeft = {}
    BY <2>1 DEF SweepInv, TwinsDone, DocsDone, NodesDone, VectorsDone, Last, Deleting
  <2>3. \A n \in Nodes : twin[n] # "none" => twin[n] \in {"tagged", "legacy"}
    BY DEF SweepInv, IInv, TypeOK
  <2>4. \A n \in Nodes : twin[n] # "none" => <<"twin", n>> \notin old
    BY <2>2, <2>3 DEF TaggedLeft, Tagged, LegacyDocs
  <2>5. item \in Content /\ item \in old
    OBVIOUS
  <2>6. CASE item \in {"graph"} \X graph
    BY <2>2, <2>5, <2>6 DEF GraphLeft
  <2>7. CASE item \in {"twin"} \X {n \in Nodes : twin[n] # "none"}
    BY <2>4, <2>5, <2>7
  <2>8. CASE item \in {"source"} \X sources
    BY <2>2, <2>5, <2>8 DEF SourcesLeft
  <2>9. CASE item \in {"vector"} \X vecs
    BY <2>2, <2>5, <2>9 DEF VectorsLeft
  <2> QED BY <2>5, <2>6, <2>7, <2>8, <2>9 DEF Content
<1> QED BY <1>1, <1>2, NextSweep, PTL DEF Spec
=============================================================================
