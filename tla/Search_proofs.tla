----------------------------- MODULE Search_proofs -----------------------------
(***************************************************************************)
(* Proofs about the components a search goes through: VectorSlots, for any *)
(* number of writers, readers, slots and packs, any batches and faults, on *)
(* the three backends; PrunedSearch, for any documents, terms and scores;  *)
(* NodeIndex, for any keys, processes and settings; PackSelection, for any *)
(* packs, words, rows and files; VectorSearch, for any rows, distances,    *)
(* threads and questions; and all of them together, as MCSearch composes   *)
(* them.                                                                   *)
(***************************************************************************)
EXTENDS MCSearch, TLAPS, FiniteSetTheorems, SequenceTheorems, WellFoundedInduction

-----------------------------------------------------------------------------
(* The slots of the vector store: the inductive invariant.                 *)

Undoable == {"merge", "remove", "add", "undo", "replay"}

SlotTypes ==
    /\ vectorKind \in VectorKinds
    /\ slots \in [SlotIds -> VectorRecords \cup {NoVector}]
    /\ settled \in [SlotIds -> VectorRecords \cup {NoVector}]
    /\ batch \in [VectorWriters -> VectorCalls]
    /\ vpc \in [VectorWriters -> Undoable \cup {"idle", "check", "write", "done"}]
    /\ nextItem \in [VectorWriters -> Nat \ {0}]
    /\ DOMAIN staged = VectorWriters /\ DOMAIN snapshot = VectorWriters
    /\ collectionLock \in VectorWriters \cup {NoVectorWriter}
    /\ asked \in [VectorReaders -> SlotIds]
    /\ DOMAIN sawGone = VectorReaders
    /\ answer \in [VectorReaders -> {"reading", "missed", "found", "absent"}]

\* What a call that has begun has been checked for.
Checked(w) ==
    /\ vpc[w] \in {"check"} \cup Undoable => batch[w].op = "upsert"
    /\ batch[w].op = "upsert" /\ vpc[w] \notin {"idle", "done"} => ~ConflictInBatch(batch[w])
    /\ batch[w].op = "import" /\ vpc[w] = "write" =>
          /\ ~TwiceInBatch(batch[w])
          /\ \A i \in DOMAIN batch[w].items :
                batch[w].items[i].owner = batch[w].pack /\ RetiredKey \notin batch[w].items[i].keys

\* The lock of the collection is chroma's, and its holder is in a write.
LockIsTheWriters ==
    \A w \in VectorWriters :
        /\ vpc[w] \in Undoable => collectionLock = w
        /\ collectionLock = w =>
              vectorKind = "chroma" /\ (vpc[w] \in Undoable \/ (vpc[w] = "write" /\ batch[w].op = "import"))
        /\ vectorKind = "chroma" /\ collectionLock # w /\ vpc[w] # "done" => nextItem[w] = 1

\* What each phase of an upsert under the lock has done to the slots.
UpsertPhase(w) ==
    /\ ~TwiceInBatch(batch[w])
    /\ \A i \in DOMAIN batch[w].items : MayWrite(settled[batch[w].items[i].id], batch[w].items[i].owner)
    /\ DOMAIN snapshot[w] = Ids(batch[w])
    /\ \A id \in Ids(batch[w]) :
          /\ snapshot[w][id] = settled[id]
          /\ vpc[w] = "merge" => slots[id] = settled[id]
          /\ vpc[w] \in {"remove", "add"} /\ id \in MergedIds(w) =>
                slots[id] = Merge(settled[id], Replacement(w)[id])
          /\ vpc[w] = "remove" /\ id \notin MergedIds(w) => slots[id] = settled[id]
          /\ vpc[w] = "add" /\ id \notin MergedIds(w) => slots[id] = NoVector
          /\ vpc[w] = "replay" => slots[id] = NoVector

\* What an import under the lock has done: its slots were empty.
ImportPhase(w) ==
    \A i \in DOMAIN batch[w].items :
        /\ settled[batch[w].items[i].id] = NoVector
        /\ slots[batch[w].items[i].id] =
              IF i < nextItem[w] THEN Vector(w, batch[w].items[i]) ELSE NoVector

HolderIsKnown ==
    \A w \in VectorWriters : collectionLock = w =>
        /\ \A id \in SlotIds \ Ids(batch[w]) : slots[id] = settled[id]
        /\ vpc[w] \in Undoable => UpsertPhase(w)
        /\ vpc[w] = "write" => ImportPhase(w)

\* A slot in the store belongs to whom the settled one belongs.
Follows(new, old) ==
    IsVector(old) /\ old.owner # Unowned /\ IsVector(new) => new.owner = old.owner
SlotsFollow == \A id \in SlotIds : Follows(slots[id], settled[id])

\* What an import left.
Ours(v, w) ==
    batch[w].op = "import" /\ IsVector(v) /\ v.by = w =>
        v.owner = batch[w].pack /\ RetiredKey \notin v.keys
AllOurs == \A w \in VectorWriters, id \in SlotIds : Ours(slots[id], w) /\ Ours(settled[id], w)

\* The rows of an open transaction of pgvector: locked, and judged.
StagedRow(w, id) ==
    /\ vectorKind = "pg" /\ vpc[w] = "write"
    /\ id \in Ids(batch[w]) /\ staged[w][id] \in VectorRecords
    /\ staged[w][id].by = w
    /\ MayWrite(slots[id], staged[w][id].owner)
    /\ \E i \in DOMAIN batch[w].items :
          batch[w].items[i].id = id /\ batch[w].items[i].owner = staged[w][id].owner
                                    /\ batch[w].items[i].keys = staged[w][id].keys
StagedIsJudged ==
    \A w \in VectorWriters : \A id \in DOMAIN staged[w] :
        StagedRow(w, id) /\ \A v \in VectorWriters \ {w} : id \notin DOMAIN staged[v]

\* A reader under way has noticed that its slot is empty.
ReadersNotice ==
    \A r \in VectorReaders :
        answer[r] \in {"reading", "missed"} /\ ~IsVector(settled[asked[r]]) => sawGone[r]

VectorIInv ==
    /\ SlotTypes
    /\ \A w \in VectorWriters : Checked(w)
    /\ LockIsTheWriters /\ HolderIsKnown /\ SlotsFollow /\ AllOurs /\ StagedIsJudged
    /\ ReadersNotice /\ SlotsAreSettled /\ AbsentMeansGone

-----------------------------------------------------------------------------
(* Least numbers, which the library's well-founded sets give. *)
LEMMA LessIsRelated == \A x, y \in Nat : x < y => <<x, y>> \in OpToRel(<, Nat)
BY DEF OpToRel

LEMMA LeastNumber ==
    ASSUME NEW T \in SUBSET Nat, T # {}
    PROVE  \E x \in T : \A y \in T : x <= y
<1> DEFINE R == OpToRel(<, Nat)
<1>1. IsWellFoundedOn(R, Nat)
  BY NatLessThanWellFounded
<1>2. \A x, y \in Nat : x < y => <<x, y>> \in R
  BY LessIsRelated
<1> HIDE DEF R
<1>3. PICK x \in T : \A y \in T : ~(<<y, x>> \in R)
  BY <1>1, WFMin
<1>4. ASSUME NEW y \in T PROVE x <= y
  <2>1. x \in Nat /\ y \in Nat
    OBVIOUS
  <2>2. ~(y < x)
    BY <1>2, <1>3, <2>1
  <2> QED BY <2>1, <2>2
<1> QED BY <1>4

-----------------------------------------------------------------------------
(* The records of a call. *)
LEMMA ItemsAreTyped ==
    ASSUME NEW b \in VectorCalls
    PROVE  /\ DOMAIN b.items = 1 .. Len(b.items) /\ Len(b.items) \in Nat
           /\ \A i \in DOMAIN b.items :
                 /\ i \in Nat /\ b.items[i] \in VectorItems /\ b.items[i].id \in SlotIds
                 /\ b.items[i].owner \in VectorPacks \cup {Unowned}
                 /\ b.items[i].keys \in SUBSET VectorKeys
<1>1. b.items \in Seq(VectorItems)
  BY DEF VectorCalls
<1> DEFINE q == b.items
<1>2. q \in Seq(VectorItems)
  BY <1>1
<1> HIDE DEF q
<1>3. DOMAIN q = 1 .. Len(q) /\ Len(q) \in Nat
  BY <1>2
<1>4. \A i \in DOMAIN q : i \in Nat /\ q[i] \in VectorItems
  BY <1>2, <1>3
<1>5. \A i \in DOMAIN q : q[i].id \in SlotIds /\ q[i].owner \in VectorPacks \cup {Unowned}
                          /\ q[i].keys \in SUBSET VectorKeys
  BY <1>4 DEF VectorItems
<1> QED BY <1>3, <1>4, <1>5 DEF q

\* The record that counts for an id is one of the call's.
LEMMA LastIsOfTheCall ==
    ASSUME NEW b \in VectorCalls, NEW id \in Ids(b)
    PROVE  \E i \in DOMAIN b.items : Last(b, id) = b.items[i] /\ b.items[i].id = id
<1> DEFINE D == DOMAIN b.items
           N == Len(b.items)
           Named(i) == b.items[i].id = id
           T == {n \in Nat : \E i \in D : Named(i) /\ n = N - i}
<1>1. D = 1 .. N /\ N \in Nat
  BY ItemsAreTyped
<1>2. PICK k \in D : Named(k)
  BY DEF Ids
<1> HIDE DEF D, N, Named
<1>3. N - k \in T
  BY <1>1, <1>2
<1>4. PICK m \in T : \A n \in T : m <= n
  <2>1. T \in SUBSET Nat /\ T # {}
    BY <1>3
  <2> HIDE DEF T
  <2> QED BY <2>1, LeastNumber
<1>5. PICK i \in D : Named(i) /\ m = N - i
  BY <1>4
<1>6. ASSUME NEW j \in D, Named(j) PROVE j <= i
  <2>1. N - j \in T
    BY <1>1, <1>6
  <2>2. m <= N - j
    BY <2>1, <1>4
  <2> QED BY <2>2, <1>5, <1>1
<1>7. \E x \in D : Named(x) /\ \A j \in D : Named(j) => j <= x
  BY <1>5, <1>6
<1>8. \E x \in DOMAIN b.items : b.items[x].id = id /\ \A j \in DOMAIN b.items : b.items[j].id = id => j <= x
  BY <1>7 DEF D, Named
<1> QED BY <1>8 DEF Last

LEMMA IdsAreSlots ==
    ASSUME NEW b \in VectorCalls PROVE Ids(b) \subseteq SlotIds
BY ItemsAreTyped DEF Ids

\* What a call writes into a slot: a record of its own.
LEMMA ReplacementIsTheItems ==
    ASSUME SlotTypes, NEW w \in VectorWriters
    PROVE  /\ DOMAIN Replacement(w) = Ids(batch[w])
           /\ \A id \in Ids(batch[w]) :
                 /\ Replacement(w)[id] \in VectorRecords /\ Replacement(w)[id].by = w
                 /\ \E i \in DOMAIN batch[w].items :
                       /\ batch[w].items[i].id = id /\ Replacement(w)[id].owner = batch[w].items[i].owner
                       /\ Replacement(w)[id].keys = batch[w].items[i].keys
<1>1. batch[w] \in VectorCalls
  BY DEF SlotTypes
<1>2. ASSUME NEW id \in Ids(batch[w])
      PROVE /\ Replacement(w)[id] \in VectorRecords /\ Replacement(w)[id].by = w
            /\ \E i \in DOMAIN batch[w].items :
                  /\ batch[w].items[i].id = id /\ Replacement(w)[id].owner = batch[w].items[i].owner
                  /\ Replacement(w)[id].keys = batch[w].items[i].keys
  BY <1>1, LastIsOfTheCall, ItemsAreTyped DEF Replacement, Vector, VectorRecords
<1> QED BY <1>2 DEF Replacement

LEMMA StampedIsACall ==
    ASSUME NEW b \in VectorCalls
    PROVE  /\ Stamped(b) \in VectorCalls /\ Stamped(b).op = b.op /\ Stamped(b).pack = b.pack
           /\ DOMAIN Stamped(b).items = DOMAIN b.items
           /\ \A i \in DOMAIN b.items :
                 /\ Stamped(b).items[i].id = b.items[i].id /\ Stamped(b).items[i].owner = b.pack
                 /\ RetiredKey \notin Stamped(b).items[i].keys
<1> DEFINE made(i) == [b.items[i] EXCEPT !.owner = b.pack, !.keys = @ \ {RetiredKey}]
           f == [i \in DOMAIN b.items |-> made(i)]
<1>1. DOMAIN b.items = 1 .. Len(b.items) /\ Len(b.items) \in Nat
  BY ItemsAreTyped
<1>2. b.op \in {"upsert", "add", "import", "delete"} /\ b.pack \in VectorPacks
  BY DEF VectorCalls
<1>3. \A i \in DOMAIN b.items : /\ made(i) \in VectorItems /\ made(i).id = b.items[i].id
                                /\ made(i).owner = b.pack /\ RetiredKey \notin made(i).keys
  BY ItemsAreTyped, <1>2 DEF VectorItems
<1>4. f \in Seq(VectorItems)
  <2> HIDE DEF made
  <2> QED BY <1>1, <1>3
<1>5. /\ Stamped(b).items = f /\ Stamped(b).op = b.op /\ Stamped(b).pack = b.pack
      /\ Stamped(b) = [b EXCEPT !.items = f]
  BY DEF Stamped, VectorCalls
<1>6. [b EXCEPT !.items = f] \in VectorCalls
  <2> HIDE DEF f
  <2> QED BY <1>4 DEF VectorCalls
<1>7. Stamped(b) \in VectorCalls
  BY <1>5, <1>6
<1>8. DOMAIN f = DOMAIN b.items /\ \A i \in DOMAIN b.items : f[i] = made(i)
  OBVIOUS
<1> HIDE DEF f, made
<1> QED BY <1>3, <1>5, <1>7, <1>8

-----------------------------------------------------------------------------
(* Writing into the store, and settling. *)
LEMMA StoreIsTyped ==
    ASSUME SlotTypes, NEW new, \A id \in DOMAIN new : new[id] \in VectorRecords \cup {NoVector},
           Store(new)
    PROVE  /\ slots' \in [SlotIds -> VectorRecords \cup {NoVector}]
           /\ \A id \in SlotIds : slots'[id] = IF id \in DOMAIN new THEN new[id] ELSE slots[id]
BY DEF Store, SlotTypes

LEMMA SettleIsTyped ==
    ASSUME SlotTypes, NEW new, \A id \in DOMAIN new : new[id] \in VectorRecords \cup {NoVector},
           Settle(new)
    PROVE  /\ settled' \in [SlotIds -> VectorRecords \cup {NoVector}]
           /\ \A id \in SlotIds : settled'[id] = IF id \in DOMAIN new THEN new[id] ELSE settled[id]
           /\ DOMAIN sawGone' = VectorReaders
           /\ \A r \in VectorReaders :
                 sawGone'[r] = (sawGone[r] \/ (answer[r] \in {"reading", "missed"} /\ ~IsVector(settled'[asked[r]])))
BY DEF Settle, Notice, SlotTypes

\* Readers keep what they know when a call settles.
LEMMA SettlingIsNoticed ==
    ASSUME VectorIInv, NEW new, \A id \in DOMAIN new : new[id] \in VectorRecords \cup {NoVector},
           Settle(new), UNCHANGED <<asked, answer>>
    PROVE  ReadersNotice' /\ AbsentMeansGone'
BY SettleIsTyped DEF VectorIInv, ReadersNotice, AbsentMeansGone

LEMMA VectorStartsWell == VectorInit => VectorIInv
<1> SUFFICES ASSUME VectorInit PROVE VectorIInv
  OBVIOUS
<1> USE VectorAssumption
<1>1. SlotTypes
  BY DEF VectorInit, SlotTypes
<1>2. \A w \in VectorWriters : Checked(w)
  BY DEF VectorInit, Checked, Undoable
<1>3. LockIsTheWriters
  BY DEF VectorInit, LockIsTheWriters, Undoable
<1>4. HolderIsKnown /\ SlotsFollow
  BY DEF VectorInit, HolderIsKnown, SlotsFollow, Follows
<1>5. AllOurs
  BY DEF VectorInit, IsVector, AllOurs, Ours
<1>6. StagedIsJudged
  BY DEF VectorInit, StagedIsJudged
<1>7. ReadersNotice /\ SlotsAreSettled /\ AbsentMeansGone
  BY DEF VectorInit, ReadersNotice, SlotsAreSettled, AbsentMeansGone
<1> QED BY <1>1, <1>2, <1>3, <1>4, <1>5, <1>6, <1>7 DEF VectorIInv

-----------------------------------------------------------------------------
(* Who is not in the way of whom. *)

\* The SQL backends have no lock of the collection.
LEMMA SqlIsUnlocked ==
    ASSUME VectorIInv, vectorKind # "chroma"
    PROVE  collectionLock = NoVectorWriter /\ slots = settled
BY VectorAssumption DEF VectorIInv, SlotTypes, LockIsTheWriters, SlotsAreSettled

\* Only pgvector's writers have rows of their own.
LEMMA OnlyPgStages ==
    ASSUME VectorIInv, vectorKind # "pg", NEW v \in VectorWriters
    PROVE  DOMAIN staged[v] = {}
BY DEF VectorIInv, StagedIsJudged, StagedRow

\* A writer in a write has the lock, if its backend has one.
LEMMA HolderIsChroma ==
    ASSUME VectorIInv, NEW w \in VectorWriters, vpc[w] \in Undoable
    PROVE  collectionLock = w /\ vectorKind = "chroma" /\ batch[w].op = "upsert" /\ UpsertPhase(w)
BY DEF VectorIInv, LockIsTheWriters, Checked, HolderIsKnown

\* A step that leaves the store and the lock alone, by one who has no lock.
LEMMA HolderIsSpared ==
    ASSUME VectorIInv, NEW w \in VectorWriters, collectionLock # w,
           UNCHANGED <<collectionLock, slots, settled, snapshot>>,
           \A v \in VectorWriters \ {w} : batch'[v] = batch[v] /\ vpc'[v] = vpc[v] /\ nextItem'[v] = nextItem[v]
    PROVE  HolderIsKnown'
<1> SUFFICES ASSUME NEW v \in VectorWriters, collectionLock' = v
             PROVE  (/\ \A id \in SlotIds \ Ids(batch[v]) : slots[id] = settled[id]
                     /\ vpc[v] \in Undoable => UpsertPhase(v)
                     /\ vpc[v] = "write" => ImportPhase(v))'
  BY DEF HolderIsKnown
<1>1. v # w /\ collectionLock = v
  OBVIOUS
<1>2. batch'[v] = batch[v] /\ vpc'[v] = vpc[v] /\ nextItem'[v] = nextItem[v]
  BY <1>1
<1>3. /\ \A id \in SlotIds \ Ids(batch[v]) : slots[id] = settled[id]
      /\ vpc[v] \in Undoable => UpsertPhase(v)
      /\ vpc[v] = "write" => ImportPhase(v)
  BY <1>1 DEF VectorIInv, HolderIsKnown
<1>4. Ids(batch[v])' = Ids(batch[v])
  BY <1>2 DEF Ids
<1>5. UpsertPhase(v) => UpsertPhase(v)'
  BY <1>2, <1>4 DEF MergedIds, Replacement, TwiceInBatch, UpsertPhase
<1>6. ImportPhase(v) => ImportPhase(v)'
  BY <1>2 DEF ImportPhase
<1> QED BY <1>2, <1>3, <1>4, <1>5, <1>6

\* A call of one step writes and settles at once.
LEMMA WritingOut ==
    ASSUME VectorIInv, collectionLock = NoVectorWriter, NEW new,
           \A id \in DOMAIN new : new[id] \in VectorRecords \cup {NoVector},
           \A id \in DOMAIN new, v \in VectorWriters : Ours(new[id], v),
           Store(new), Settle(new), UNCHANGED <<collectionLock, asked, answer, batch>>
    PROVE  /\ slots' \in [SlotIds -> VectorRecords \cup {NoVector}]
           /\ settled' \in [SlotIds -> VectorRecords \cup {NoVector}]
           /\ DOMAIN sawGone' = VectorReaders
           /\ slots' = settled'
           /\ HolderIsKnown' /\ SlotsFollow' /\ AllOurs' /\ ReadersNotice' /\ AbsentMeansGone' /\ SlotsAreSettled'
<1>1. SlotTypes /\ slots = settled
  BY DEF VectorIInv, SlotsAreSettled
<1>2. /\ slots' \in [SlotIds -> VectorRecords \cup {NoVector}]
      /\ \A id \in SlotIds : slots'[id] = IF id \in DOMAIN new THEN new[id] ELSE slots[id]
  BY <1>1, StoreIsTyped
<1>3. /\ settled' \in [SlotIds -> VectorRecords \cup {NoVector}]
      /\ \A id \in SlotIds : settled'[id] = IF id \in DOMAIN new THEN new[id] ELSE settled[id]
      /\ DOMAIN sawGone' = VectorReaders
  BY <1>1, SettleIsTyped
<1>4. slots' = settled'
  BY <1>1, <1>2, <1>3
<1>5. HolderIsKnown'
  BY VectorAssumption DEF HolderIsKnown
<1>6. SlotsFollow' /\ SlotsAreSettled'
  BY <1>4 DEF SlotsFollow, Follows, SlotsAreSettled
<1>7. AllOurs'
  BY <1>2, <1>4 DEF VectorIInv, AllOurs, Ours
<1> QED BY <1>2, <1>3, <1>4, <1>5, <1>6, <1>7, SettlingIsNoticed

\* What is left to see of such a step.
LEMMA SettledCall ==
    ASSUME VectorIInv, NEW w \in VectorWriters, collectionLock = NoVectorWriter, NEW new,
           \A id \in DOMAIN new : new[id] \in VectorRecords \cup {NoVector},
           \A id \in DOMAIN new, v \in VectorWriters : Ours(new[id], v),
           Store(new), Settle(new), EndBatch(w, "ok"),
           UNCHANGED <<vectorKind, batch, nextItem, snapshot, collectionLock, asked, answer>>,
           DOMAIN staged' = VectorWriters, StagedIsJudged'
    PROVE  VectorIInv'
BY WritingOut, VectorAssumption DEF VectorIInv, SlotTypes, EndBatch, Checked, Undoable,
   LockIsTheWriters

\* A call that ends without having touched anything.
LEMMA QuietEnd ==
    ASSUME VectorIInv, NEW w \in VectorWriters, NEW r, EndBatch(w, r), collectionLock # w,
           UNCHANGED <<vectorKind, slots, settled, batch, nextItem, snapshot, collectionLock, asked,
                       sawGone, answer>>,
           staged' = staged \/ staged' = [staged EXCEPT ![w] = <<>>],
           DOMAIN staged'[w] = {}
    PROVE  VectorIInv'
<1>1. SlotTypes'
  BY DEF VectorIInv, SlotTypes, EndBatch
<1>2. (\A v \in VectorWriters : Checked(v))'
  BY DEF VectorIInv, SlotTypes, Checked, EndBatch, Undoable
<1>3. LockIsTheWriters'
  BY DEF VectorIInv, SlotTypes, LockIsTheWriters, EndBatch, Undoable
<1>4. HolderIsKnown'
  BY HolderIsSpared DEF VectorIInv, SlotTypes, EndBatch
<1>5. \A v \in VectorWriters \ {w} : staged'[v] = staged[v] /\ vpc'[v] = vpc[v]
  BY DEF VectorIInv, SlotTypes, EndBatch
<1>6. StagedIsJudged'
  BY <1>5 DEF VectorIInv, StagedIsJudged, StagedRow, Ids
<1>7. SlotsFollow' /\ AllOurs' /\ ReadersNotice' /\ SlotsAreSettled' /\ AbsentMeansGone'
  BY DEF VectorIInv, SlotsFollow, Follows, AllOurs, Ours, ReadersNotice, SlotsAreSettled, AbsentMeansGone
<1> QED BY <1>1, <1>2, <1>3, <1>4, <1>6, <1>7 DEF VectorIInv

-----------------------------------------------------------------------------
(* The steps of the calls. *)

LEMMA StartKeeps ==
    ASSUME VectorIInv, NEW w \in VectorWriters, Start(w) PROVE VectorIInv'
<1>1. vpc[w] = "idle" /\ collectionLock # w /\ DOMAIN staged[w] = {}
  BY DEF Start, VectorIInv, LockIsTheWriters, StagedIsJudged, StagedRow, Undoable
<1>2. UNCHANGED <<vectorKind, slots, settled, nextItem, staged, snapshot, collectionLock,
                  asked, sawGone, answer>>
  BY DEF Start
<1>3. CASE EndBatch(w, "refused") /\ UNCHANGED batch
  BY <1>1, <1>2, <1>3, QuietEnd
<1>4. CASE EndBatch(w, "failed") /\ UNCHANGED batch
  BY <1>1, <1>2, <1>4, QuietEnd
<1>5. CASE /\ ~RefusedAtOnce(batch[w])
           /\ vpc' = [vpc EXCEPT ![w] = IF batch[w].op = "upsert" THEN "check" ELSE "write"]
           /\ batch' = [batch EXCEPT ![w] = IF @.op = "import" THEN Stamped(@) ELSE @]
  <2> DEFINE now == IF batch[w].op = "import" THEN Stamped(batch[w]) ELSE batch[w]
  <2>1. /\ batch' = [batch EXCEPT ![w] = now] /\ batch[w] \in VectorCalls
        /\ batch \in [VectorWriters -> VectorCalls]
    BY <1>5 DEF VectorIInv, SlotTypes
  <2>2. /\ now \in VectorCalls /\ now.op = batch[w].op /\ now.pack = batch[w].pack
        /\ DOMAIN now.items = DOMAIN batch[w].items
        /\ \A i \in DOMAIN batch[w].items :
              /\ now.items[i].id = batch[w].items[i].id
              /\ now.op # "import" => now.items[i] = batch[w].items[i]
              /\ now.op = "import" => now.items[i].owner = now.pack /\ RetiredKey \notin now.items[i].keys
    BY <2>1, StampedIsACall
  <2> HIDE DEF now
  <2>3. /\ batch' \in [VectorWriters -> VectorCalls] /\ batch'[w] = now
        /\ \A v \in VectorWriters \ {w} : batch'[v] = batch[v] /\ vpc'[v] = vpc[v]
        /\ vpc'[w] = IF batch[w].op = "upsert" THEN "check" ELSE "write"
        /\ vpc' \in [VectorWriters -> Undoable \cup {"idle", "check", "write", "done"}]
    BY <2>1, <2>2, <1>5 DEF VectorIInv, SlotTypes
  <2>4. \A v \in VectorWriters : batch'[v].op = batch[v].op /\ batch'[v].pack = batch[v].pack
    BY <2>2, <2>3
  <2>5. SlotTypes'
    BY <1>2, <2>3 DEF VectorIInv, SlotTypes
  <2>6. ASSUME NEW v \in VectorWriters PROVE Checked(v)'
    <3>1. CASE v # w
      BY <2>3, <3>1 DEF VectorIInv, Checked, ConflictInBatch, TwiceInBatch
    <3>2. CASE v = w /\ now.op = "upsert"
      BY <1>5, <2>2, <3>2, <2>3 DEF RefusedAtOnce, ConflictInBatch, Checked
    <3>3. CASE v = w /\ now.op = "import"
      BY <1>5, <2>2, <3>3, <2>3 DEF RefusedAtOnce, TwiceInBatch, Checked, Undoable
    <3>4. CASE v = w /\ now.op \notin {"upsert", "import"}
      BY <2>2, <2>3, <3>4 DEF Checked, Undoable
    <3> QED BY <3>1, <3>2, <3>3, <3>4
  <2>7. LockIsTheWriters'
    BY <1>1, <1>2, <2>3 DEF VectorIInv, LockIsTheWriters, Undoable
  <2>8. HolderIsKnown'
    BY <1>1, <1>2, <2>3, HolderIsSpared
  <2>9. AllOurs'
    BY <1>2, <2>4 DEF VectorIInv, AllOurs, Ours
  <2>10. StagedIsJudged'
    BY <1>1, <1>2, <2>3 DEF VectorIInv, StagedIsJudged, StagedRow, Ids
  <2>11. SlotsFollow' /\ ReadersNotice' /\ SlotsAreSettled' /\ AbsentMeansGone'
    BY <1>2 DEF VectorIInv, SlotsFollow, Follows, ReadersNotice, SlotsAreSettled, AbsentMeansGone
  <2> QED BY <2>5, <2>6, <2>7, <2>8, <2>9, <2>10, <2>11 DEF VectorIInv
<1> QED BY <1>3, <1>4, <1>5 DEF Start

LEMMA LookAtSlotsKeeps ==
    ASSUME VectorIInv, NEW w \in VectorWriters, LookAtSlots(w) PROVE VectorIInv'
<1>1. collectionLock = NoVectorWriter /\ DOMAIN staged[w] = {} /\ vpc[w] = "check"
  BY SqlIsUnlocked DEF LookAtSlots, VectorIInv, StagedIsJudged, StagedRow
<1>2. UNCHANGED <<vectorKind, slots, settled, batch, nextItem, staged, snapshot, collectionLock,
                  asked, sawGone, answer>>
  BY DEF LookAtSlots
<1>3. CASE EndBatch(w, "refused")
  BY <1>1, <1>2, <1>3, QuietEnd, VectorAssumption
<1>4. CASE vpc' = [vpc EXCEPT ![w] = "write"]
  <2>1. SlotTypes'
    BY <1>2, <1>4 DEF VectorIInv, SlotTypes
  <2>2. (\A v \in VectorWriters : Checked(v))'
    BY <1>1, <1>2, <1>4 DEF VectorIInv, SlotTypes, Checked, Undoable
  <2>3. LockIsTheWriters' /\ HolderIsKnown'
    BY <1>1, <1>2, <1>4, VectorAssumption DEF VectorIInv, SlotTypes, LockIsTheWriters, HolderIsKnown, Undoable,
       LookAtSlots
  <2>4. StagedIsJudged'
    BY <1>1, <1>2, <1>4 DEF VectorIInv, SlotTypes, StagedIsJudged, StagedRow, Ids
  <2>5. SlotsFollow' /\ AllOurs' /\ ReadersNotice' /\ SlotsAreSettled' /\ AbsentMeansGone'
    BY <1>2 DEF VectorIInv, SlotsFollow, Follows, AllOurs, Ours, ReadersNotice, SlotsAreSettled, AbsentMeansGone
  <2> QED BY <2>1, <2>2, <2>3, <2>4, <2>5 DEF VectorIInv
<1> QED BY <1>3, <1>4 DEF LookAtSlots

\* The records of a call that an import would leave are its pack's.
LEMMA OursToWrite ==
    ASSUME VectorIInv, NEW w \in VectorWriters, vpc[w] = "write" \/ batch[w].op # "import",
           NEW id \in Ids(batch[w]), NEW v \in VectorWriters
    PROVE  Ours(Replacement(w)[id], v)
BY ReplacementIsTheItems DEF VectorIInv, Checked, Ours

LEMMA SqliteWriteKeeps ==
    ASSUME VectorIInv, NEW w \in VectorWriters, SqliteWrite(w) PROVE VectorIInv'
<1>1. /\ collectionLock = NoVectorWriter /\ \A v \in VectorWriters : DOMAIN staged[v] = {}
      /\ collectionLock # w /\ vpc[w] = "write"
  BY SqlIsUnlocked, OnlyPgStages, VectorAssumption DEF SqliteWrite
<1>2. UNCHANGED <<vectorKind, batch, nextItem, staged, snapshot, collectionLock, asked, answer>>
  BY DEF SqliteWrite
<1>3. CASE EndBatch(w, "failed") /\ UNCHANGED <<slots, settled, sawGone>>
  BY <1>1, <1>2, <1>3, QuietEnd
<1>4. CASE EndBatch(w, "ok") /\ Store(Replacement(w)) /\ Settle(Replacement(w))
  BY ReplacementIsTheItems, <1>1, OursToWrite, <1>2, <1>4, SettledCall DEF VectorIInv, SlotTypes,
     StagedIsJudged
<1> QED BY <1>3, <1>4 DEF SqliteWrite

LEMMA GoneIsNothing ==
    ASSUME NEW ids
    PROVE  /\ DOMAIN Gone(ids) = ids
           /\ \A id \in DOMAIN Gone(ids) : Gone(ids)[id] = NoVector
           /\ \A id \in DOMAIN Gone(ids) : Gone(ids)[id] \in VectorRecords \cup {NoVector}
           /\ \A id \in DOMAIN Gone(ids), v \in VectorWriters : Ours(Gone(ids)[id], v)
BY DEF Gone, Ours, IsVector

LEMMA SqlDeleteKeeps ==
    ASSUME VectorIInv, NEW w \in VectorWriters, SqlDelete(w) PROVE VectorIInv'
<1>1. /\ collectionLock = NoVectorWriter /\ vpc[w] = "write" /\ batch[w].op = "delete" /\ slots = settled
      /\ \A v \in VectorWriters : DOMAIN staged[v] \cap Ids(batch[w]) = {}
  BY SqlIsUnlocked DEF SqlDelete
<1>2. UNCHANGED <<vectorKind, batch, nextItem, staged, snapshot, collectionLock, asked, answer>>
  BY DEF SqlDelete
<1>3. EndBatch(w, "ok") /\ Store(Gone(Ids(batch[w]))) /\ Settle(Gone(Ids(batch[w])))
  BY DEF SqlDelete
<1>4. DOMAIN staged[w] = {}
  BY <1>1 DEF VectorIInv, StagedIsJudged, StagedRow
<1>5. \A v \in VectorWriters : \A id \in DOMAIN staged[v] : id \in SlotIds /\ slots'[id] = slots[id]
  BY <1>1, IdsAreSlots, <1>3, GoneIsNothing DEF VectorIInv, StagedIsJudged, StagedRow, SlotTypes,
     Store
<1>6. DOMAIN staged' = VectorWriters /\ StagedIsJudged'
  BY <1>2, <1>3, <1>4, <1>5 DEF VectorIInv, SlotTypes, StagedIsJudged, StagedRow, EndBatch, Ids, MayWrite, IsVector
<1> QED BY <1>1, <1>2, <1>3, <1>6, GoneIsNothing, SettledCall

LEMMA PgStatementKeeps ==
    ASSUME VectorIInv, NEW w \in VectorWriters, PgStatement(w) PROVE VectorIInv'
<1>1. /\ vpc[w] = "write" /\ vectorKind = "pg" /\ batch[w].op # "delete"
      /\ nextItem[w] <= Len(batch[w].items) /\ ~Waits(w)
      /\ UNCHANGED <<vectorKind, slots, settled, batch, snapshot, collectionLock, asked, sawGone, answer>>
  BY DEF PgStatement
<1>2. collectionLock = NoVectorWriter /\ slots = settled /\ collectionLock # w
  BY <1>1, SqlIsUnlocked, VectorAssumption
<1>n. PICK n \in Nat : n = nextItem[w]
  BY DEF VectorIInv, SlotTypes
<1>i. PICK item : item = batch[w].items[n]
  OBVIOUS
<1> DEFINE id == item.id
           o == item.owner
           mine == Vector(w, item)
<1>3. /\ n \in DOMAIN batch[w].items /\ batch[w] \in VectorCalls /\ id \in SlotIds /\ id \in Ids(batch[w])
      /\ o \in VectorPacks \cup {Unowned} /\ mine \in VectorRecords /\ mine.by = w /\ mine.owner = o
      /\ mine.keys = item.keys
  BY <1>1, <1>n, ItemsAreTyped, <1>i DEF VectorIInv, SlotTypes, Vector, VectorRecords, Ids
<1>4. CASE EndBatch(w, "failed") /\ staged' = [staged EXCEPT ![w] = <<>>] /\ UNCHANGED nextItem
  <2>1. DOMAIN staged'[w] = {}
    BY <1>4 DEF VectorIInv, SlotTypes
  <2> QED BY <1>1, <1>2, <1>4, <2>1, QuietEnd
<1>5. CASE /\ IF batch[w].op = "upsert" THEN StatementTakes(RowSeen(w, id), o) ELSE ~IsVector(RowSeen(w, id))
           /\ staged' = [staged EXCEPT ![w] = [x \in DOMAIN @ \cup {id} |-> IF x = id THEN mine ELSE @[x]]]
           /\ nextItem' = [nextItem EXCEPT ![w] = @ + 1] /\ UNCHANGED <<vpc, result>>
  <2>1. /\ DOMAIN staged'[w] = DOMAIN staged[w] \cup {id} /\ staged'[w][id] = mine
        /\ \A x \in DOMAIN staged[w] \ {id} : staged'[w][x] = staged[w][x]
        /\ \A v \in VectorWriters \ {w} : staged'[v] = staged[v]
        /\ DOMAIN staged' = VectorWriters
    <3> HIDE DEF id, mine
    <3> QED BY <1>5 DEF VectorIInv, SlotTypes
  <2>2. MayWrite(slots[id], mine.owner)
    <3> HIDE DEF id, mine, o
    <3>1. CASE id \in DOMAIN staged[w]
      <4>1. staged[w][id] \in VectorRecords /\ MayWrite(slots[id], staged[w][id].owner) /\ IsVector(staged[w][id])
        BY <3>1, VectorAssumption DEF VectorIInv, StagedIsJudged, StagedRow, IsVector
      <4>2. RowSeen(w, id) = staged[w][id]
        BY <3>1 DEF RowSeen
      <4> QED BY <4>1, <4>2, <1>3, <1>5 DEF StatementTakes, MayWrite
    <3>2. CASE id \notin DOMAIN staged[w]
      BY <3>2, <1>3, <1>5 DEF StatementTakes, MayWrite, RowSeen
    <3> QED BY <3>1, <3>2
  <2>3. StagedRow(w, id)'
    <3>1. UNCHANGED <<vectorKind, vpc, batch, slots>> /\ staged'[w][id] = mine
      BY <1>1, <1>5, <2>1
    <3>2. n \in DOMAIN batch[w].items /\ batch[w].items[n].id = id /\ batch[w].items[n].owner = o
          /\ batch[w].items[n].keys = item.keys
      BY <1>i, <1>3
    <3>3. /\ vectorKind = "pg" /\ vpc[w] = "write" /\ id \in Ids(batch[w]) /\ mine \in VectorRecords /\ mine.by = w
          /\ mine.owner = o /\ mine.keys = item.keys
      BY <1>1, <1>3
    <3> HIDE DEF id, mine, o
    <3>4. \E i \in DOMAIN batch[w].items : /\ batch[w].items[i].id = id /\ batch[w].items[i].owner = mine.owner
                                          /\ batch[w].items[i].keys = mine.keys
      BY ONLY <3>2, <3>3
    <3>5. id \in Ids(batch[w])'
      BY <3>1, <3>3 DEF Ids
    <3> QED BY ONLY <2>2, <3>1, <3>3, <3>4, <3>5 DEF StagedRow
  <2>4. ASSUME NEW v \in VectorWriters, NEW x \in DOMAIN staged'[v], ~(v = w /\ x = id) PROVE StagedRow(v, x)'
    BY <2>1, <2>4, <1>1, <1>5 DEF VectorIInv, StagedIsJudged, StagedRow, Ids
  <2>5. \A v \in VectorWriters : \A x \in DOMAIN staged'[v] : \A u \in VectorWriters \ {v} : x \notin DOMAIN staged'[u]
    <3>1. \A v \in VectorWriters \ {w} : id \notin DOMAIN staged[v]
      BY <1>1, <1>n, <1>i DEF Waits
    <3> HIDE DEF id, mine
    <3> QED BY <2>1, <3>1 DEF VectorIInv, StagedIsJudged
  <2>6. StagedIsJudged'
    BY <2>3, <2>4, <2>5 DEF StagedIsJudged
  <2>7. SlotTypes'
    BY <1>1, <1>5, <2>1 DEF VectorIInv, SlotTypes
  <2>8. /\ (\A v \in VectorWriters : Checked(v))' /\ LockIsTheWriters' /\ HolderIsKnown' /\ SlotsFollow' /\ AllOurs'
        /\ ReadersNotice' /\ SlotsAreSettled' /\ AbsentMeansGone'
    BY <1>1, <1>2, <1>5, VectorAssumption DEF VectorIInv, Checked, LockIsTheWriters, HolderIsKnown, SlotsFollow, Follows,
       AllOurs, Ours, ReadersNotice, SlotsAreSettled, AbsentMeansGone
  <2> QED BY <2>6, <2>7, <2>8 DEF VectorIInv
<1> QED BY <1>n, <1>i, <1>4, <1>5 DEF PgStatement

LEMMA PgCommitKeeps ==
    ASSUME VectorIInv, NEW w \in VectorWriters, PgCommit(w) PROVE VectorIInv'
<1>1. /\ vpc[w] = "write" /\ vectorKind = "pg"
      /\ UNCHANGED <<vectorKind, batch, nextItem, snapshot, collectionLock, asked, answer>>
      /\ EndBatch(w, "ok") /\ Store(staged[w]) /\ Settle(staged[w])
      /\ staged' = [staged EXCEPT ![w] = <<>>]
  BY DEF PgCommit
<1>2. collectionLock = NoVectorWriter
  BY <1>1, SqlIsUnlocked
<1>3. \A id \in DOMAIN staged[w] : StagedRow(w, id)
  BY DEF VectorIInv, StagedIsJudged
<1>4. \A id \in DOMAIN staged[w] : staged[w][id] \in VectorRecords \cup {NoVector}
  BY <1>3 DEF StagedRow
<1>5. \A id \in DOMAIN staged[w], v \in VectorWriters : Ours(staged[w][id], v)
  BY <1>1, <1>3 DEF StagedRow, Ours, VectorIInv, Checked
<1>6. /\ DOMAIN staged' = VectorWriters /\ DOMAIN staged'[w] = {}
      /\ \A v \in VectorWriters \ {w} : staged'[v] = staged[v] /\ vpc'[v] = vpc[v]
  BY <1>1 DEF VectorIInv, SlotTypes, EndBatch
<1>7. \A v \in VectorWriters \ {w} : \A id \in DOMAIN staged[v] : id \in SlotIds /\ slots'[id] = slots[id]
  BY IdsAreSlots, <1>1 DEF VectorIInv, StagedIsJudged, StagedRow, SlotTypes, Store
<1>8. StagedIsJudged'
  BY <1>1, <1>6, <1>7 DEF VectorIInv, StagedIsJudged, StagedRow, Ids, MayWrite, IsVector
<1> QED BY <1>1, <1>2, <1>4, <1>5, <1>6, <1>8, SettledCall

LEMMA PgDeadlockKeeps ==
    ASSUME VectorIInv, NEW w \in VectorWriters, PgDeadlock(w) PROVE VectorIInv'
<1>1. /\ vectorKind = "pg" /\ staged' = [staged EXCEPT ![w] = <<>>] /\ EndBatch(w, "failed")
      /\ UNCHANGED <<vectorKind, slots, settled, batch, nextItem, snapshot, collectionLock, asked,
                     sawGone, answer>>
  BY DEF PgDeadlock
<1>2. collectionLock # w /\ DOMAIN staged'[w] = {}
  BY <1>1, SqlIsUnlocked, VectorAssumption DEF VectorIInv, SlotTypes
<1> QED BY <1>1, <1>2, QuietEnd

-----------------------------------------------------------------------------
(* The steps of chroma, whose batches take several. *)

\* What a writer puts at an id: its record, merged with the one it replaces where it merges.
PromiseKept(w, id) ==
    Promise(w)[id] = IF id \in MergedIds(w) THEN Merge(settled[id], Replacement(w)[id])
                     ELSE Replacement(w)[id]

\* What an upsert may make of a slot under the lock.
LEMMA UpsertFacts ==
    ASSUME VectorIInv, NEW w \in VectorWriters, UpsertPhase(w), NEW id \in Ids(batch[w])
    PROVE  /\ id \in SlotIds
           /\ Replacement(w)[id] \in VectorRecords /\ Replacement(w)[id].by = w
           /\ Replacement(w)[id].uri = FALSE
           /\ MayWrite(settled[id], Replacement(w)[id].owner)
           /\ Merge(settled[id], Replacement(w)[id]) \in VectorRecords
           /\ Merge(settled[id], Replacement(w)[id]).by = w
           /\ Merge(settled[id], Replacement(w)[id]).owner = Replacement(w)[id].owner
           /\ PromiseKept(w, id)
<1>1. SlotTypes /\ batch[w] \in VectorCalls /\ id \in SlotIds /\ snapshot[w][id] = settled[id]
  BY IdsAreSlots DEF VectorIInv, SlotTypes, UpsertPhase
<1>2. Replacement(w)[id] \in VectorRecords /\ Replacement(w)[id].by = w
  BY <1>1, ReplacementIsTheItems
<1>3. MayWrite(settled[id], Replacement(w)[id].owner)
  BY <1>1, ReplacementIsTheItems DEF UpsertPhase
<1>4. Replacement(w)[id].uri = FALSE /\ Replacement(w)[id].keys = Last(batch[w], id).keys
  BY DEF Replacement, Vector
<1>5. PICK new \in VectorRecords : new = Replacement(w)[id]
  BY <1>2
<1>6. PICK old \in VectorRecords \cup {NoVector} : old = settled[id]
  BY <1>1 DEF SlotTypes
<1>7. /\ Merge(old, new) \in VectorRecords /\ Merge(old, new).by = new.by /\ Merge(old, new).owner = new.owner
  BY DEF Merge, IsVector, VectorRecords
<1>8. Promise(w)[id] = IF IsVector(old) /\ old.uri THEN Merge(old, new) ELSE new
  BY <1>1, <1>5, <1>6 DEF Promise
<1>9. id \in MergedIds(w) <=> (IsVector(old) => old.uri \/ old.keys \subseteq new.keys)
  BY <1>1, <1>4, <1>5, <1>6 DEF MergedIds, IsAtomic
<1>10. IsVector(old) /\ ~old.uri /\ old.keys \subseteq new.keys => Merge(old, new) = new
  BY <1>4, <1>5 DEF Merge, VectorRecords, IsVector
<1>11. ~IsVector(old) => Merge(old, new) = new
  BY DEF Merge
<1>12. Promise(w)[id] = IF id \in MergedIds(w) THEN Merge(old, new) ELSE new
  BY <1>8, <1>9, <1>10, <1>11
<1> QED BY <1>1, <1>2, <1>3, <1>4, <1>5, <1>6, <1>7, <1>12 DEF PromiseKept

LEMMA PromisedIs ==
    ASSUME VectorIInv, NEW w \in VectorWriters, UpsertPhase(w), NEW id \in Ids(batch[w])
    PROVE  /\ id \in SlotIds
           /\ id \in MergedIds(w) => Promise(w)[id] = Merge(settled[id], Replacement(w)[id])
           /\ id \notin MergedIds(w) => Promise(w)[id] = Replacement(w)[id]
<1>1. id \in SlotIds /\ PromiseKept(w, id)
  BY UpsertFacts
<1> QED BY ONLY <1>1 DEF PromiseKept

LEMMA PromisedRecord ==
    ASSUME VectorIInv, NEW w \in VectorWriters, UpsertPhase(w), NEW id \in Ids(batch[w])
    PROVE  Promise(w)[id] \in VectorRecords /\ Promise(w)[id].by = w
<1>1. /\ Replacement(w)[id] \in VectorRecords /\ Replacement(w)[id].by = w
      /\ Merge(settled[id], Replacement(w)[id]) \in VectorRecords
      /\ Merge(settled[id], Replacement(w)[id]).by = w
  BY UpsertFacts
<1>2. /\ id \in MergedIds(w) => Promise(w)[id] = Merge(settled[id], Replacement(w)[id])
      /\ id \notin MergedIds(w) => Promise(w)[id] = Replacement(w)[id]
  BY PromisedIs
<1> QED BY ONLY <1>1, <1>2

\* A step of the holder that leaves the slots of others alone.
LEMMA HolderWrites ==
    ASSUME VectorIInv, NEW w \in VectorWriters, vpc[w] \in Undoable,
           NEW p \in Undoable, vpc' = [vpc EXCEPT ![w] = p],
           slots' \in [SlotIds -> VectorRecords \cup {NoVector}],
           \A id \in SlotIds \ Ids(batch[w]) : slots'[id] = slots[id],
           \A id \in Ids(batch[w]) : Follows(slots'[id], settled[id]) /\ \A v \in VectorWriters : Ours(slots'[id], v),
           UNCHANGED <<vectorKind, settled, batch, nextItem, staged, snapshot, collectionLock, asked,
                       sawGone, answer>>,
           UpsertPhase(w)'
    PROVE  VectorIInv'
<1>1. collectionLock = w /\ vectorKind = "chroma"
  BY HolderIsChroma
<1>2. SlotTypes'
  BY DEF VectorIInv, SlotTypes
<1>3. (\A v \in VectorWriters : Checked(v))'
  BY DEF VectorIInv, SlotTypes, Checked, Undoable
<1>4. LockIsTheWriters'
  BY <1>1 DEF VectorIInv, SlotTypes, LockIsTheWriters, Undoable
<1>5. HolderIsKnown'
  BY <1>1 DEF VectorIInv, HolderIsKnown, SlotTypes, Undoable, Ids
<1>6. SlotsFollow'
  BY DEF VectorIInv, SlotsFollow, Follows
<1>7. AllOurs'
  BY DEF VectorIInv, AllOurs, Ours
<1>8. StagedIsJudged'
  BY <1>1, OnlyPgStages DEF VectorIInv, StagedIsJudged
<1>9. ReadersNotice' /\ AbsentMeansGone'
  BY DEF VectorIInv, ReadersNotice, AbsentMeansGone
<1>10. SlotsAreSettled'
  BY <1>1, VectorAssumption DEF SlotsAreSettled
<1> QED BY <1>2, <1>3, <1>4, <1>5, <1>6, <1>7, <1>8, <1>9, <1>10 DEF VectorIInv

\* The holder gives the lock back: the store is as the call settled it.
LEMMA HolderEnds ==
    ASSUME VectorIInv, NEW w \in VectorWriters, collectionLock = w, NEW r, EndBatch(w, r), Unlock(w),
           slots' \in [SlotIds -> VectorRecords \cup {NoVector}], settled' = slots',
           \A id \in SlotIds, v \in VectorWriters : Ours(slots'[id], v),
           DOMAIN sawGone' = VectorReaders, ReadersNotice', AbsentMeansGone',
           UNCHANGED <<vectorKind, batch, nextItem, staged, asked, answer>>
    PROVE  VectorIInv'
<1>1. vectorKind = "chroma" /\ collectionLock' = NoVectorWriter
  BY DEF VectorIInv, LockIsTheWriters, Unlock
<1>2. SlotTypes'
  BY DEF VectorIInv, SlotTypes, EndBatch, Unlock
<1>3. (\A v \in VectorWriters : Checked(v))'
  BY DEF VectorIInv, SlotTypes, Checked, EndBatch, Undoable
<1>4. LockIsTheWriters'
  BY <1>1, VectorAssumption DEF VectorIInv, SlotTypes, LockIsTheWriters, EndBatch, Undoable
<1>5. HolderIsKnown'
  BY <1>1, VectorAssumption DEF HolderIsKnown
<1>6. SlotsFollow' /\ SlotsAreSettled'
  BY DEF SlotsFollow, Follows, SlotsAreSettled
<1>7. AllOurs'
  BY DEF AllOurs, Ours
<1>8. StagedIsJudged'
  BY <1>1, OnlyPgStages DEF VectorIInv, StagedIsJudged
<1> QED BY <1>2, <1>3, <1>4, <1>5, <1>6, <1>7, <1>8 DEF VectorIInv

\* The way back failed: what is there counts.
LEMMA GivingUp ==
    ASSUME VectorIInv, NEW w \in VectorWriters, collectionLock = w, GiveUpUndo(w),
           UNCHANGED <<vectorKind, batch, nextItem, staged, asked, answer>>
    PROVE  VectorIInv'
BY SettleIsTyped, SettlingIsNoticed, HolderEnds DEF GiveUpUndo, VectorIInv, SlotTypes, AllOurs

\* A call of the chroma store failed: it goes back.
LEMMA Failing ==
    ASSUME VectorIInv, NEW w \in VectorWriters, vpc[w] \in Undoable, Fails(w), slots' = slots,
           UNCHANGED <<vectorKind, settled, batch, nextItem, staged, snapshot, collectionLock, asked,
                       sawGone, answer>>
    PROVE  VectorIInv'
<1>1. vpc' = [vpc EXCEPT ![w] = "undo"] /\ "undo" \in Undoable /\ vpc'[w] = "undo"
  BY DEF Fails, Undoable, VectorIInv, SlotTypes
<1>2. slots' \in [SlotIds -> VectorRecords \cup {NoVector}] /\ Ids(batch[w]) \subseteq SlotIds
  BY IdsAreSlots DEF VectorIInv, SlotTypes
<1>3. \A id \in Ids(batch[w]) : Follows(slots'[id], settled[id]) /\ \A v \in VectorWriters : Ours(slots'[id], v)
  BY <1>2 DEF VectorIInv, SlotsFollow, AllOurs
<1>4. UpsertPhase(w)'
  BY <1>1, HolderIsChroma DEF UpsertPhase, TwiceInBatch, MayWrite, IsVector, Ids
<1> QED BY <1>1, <1>2, <1>3, <1>4, HolderWrites

LEMMA ChromaBeginKeeps ==
    ASSUME VectorIInv, NEW w \in VectorWriters, ChromaBegin(w) PROVE VectorIInv'
<1>1. /\ vpc[w] = "check" /\ vectorKind = "chroma" /\ collectionLock = NoVectorWriter /\ collectionLock # w
      /\ slots = settled /\ DOMAIN staged[w] = {}
      /\ UNCHANGED <<vectorKind, slots, settled, batch, nextItem, staged, asked, sawGone, answer>>
  BY VectorAssumption, OnlyPgStages DEF ChromaBegin, VectorIInv, SlotsAreSettled
<1>2. CASE EndBatch(w, "refused") /\ UNCHANGED <<collectionLock, snapshot>>
  BY <1>1, <1>2, QuietEnd
<1>3. CASE /\ ~TwiceInBatch(batch[w]) /\ ~ForeignSlot(batch[w])
           /\ vpc' = [vpc EXCEPT ![w] = "merge"] /\ collectionLock' = w
           /\ snapshot' = [snapshot EXCEPT ![w] = [id \in Ids(batch[w]) |-> slots[id]]]
  <2>1. /\ vpc'[w] = "merge" /\ \A v \in VectorWriters \ {w} : vpc'[v] = vpc[v]
        /\ DOMAIN snapshot'[w] = Ids(batch[w]) /\ \A id \in Ids(batch[w]) : snapshot'[w][id] = settled[id]
        /\ DOMAIN snapshot' = VectorWriters
        /\ Ids(batch[w])' = Ids(batch[w])
    BY <1>1, <1>3 DEF VectorIInv, SlotTypes, Ids
  <2>2. SlotTypes'
    BY <1>1, <1>3, <2>1 DEF VectorIInv, SlotTypes, Undoable
  <2>3. (\A v \in VectorWriters : Checked(v))'
    BY <1>1, <2>1 DEF VectorIInv, Checked, Undoable
  <2>4. LockIsTheWriters'
    BY <1>1, <1>3, <2>1, VectorAssumption DEF VectorIInv, LockIsTheWriters, Undoable
  <2>5. UpsertPhase(w)'
    BY <1>1, <1>3, <2>1 DEF UpsertPhase, TwiceInBatch, ForeignSlot, MayWrite, IsVector
  <2>6. HolderIsKnown'
    BY <1>1, <1>3, <2>1, <2>5 DEF HolderIsKnown
  <2>7. StagedIsJudged'
    BY <1>1, OnlyPgStages DEF VectorIInv, StagedIsJudged
  <2>8. SlotsFollow' /\ AllOurs' /\ ReadersNotice' /\ SlotsAreSettled' /\ AbsentMeansGone'
    BY <1>1 DEF VectorIInv, SlotsFollow, Follows, AllOurs, Ours, ReadersNotice, SlotsAreSettled, AbsentMeansGone
  <2> QED BY <2>2, <2>3, <2>4, <2>6, <2>7, <2>8 DEF VectorIInv
<1> QED BY <1>2, <1>3 DEF ChromaBegin

\* The end of an upsert that went through.
LEMMA UpsertEnds ==
    ASSUME VectorIInv, NEW w \in VectorWriters, vpc[w] \in Undoable,
           slots' \in [SlotIds -> VectorRecords \cup {NoVector}],
           \A id \in SlotIds \ Ids(batch[w]) : slots'[id] = slots[id],
           \A id \in Ids(batch[w]) : slots'[id] = Promise(w)[id],
           EndBatch(w, "ok"), Settle(Promise(w)), Unlock(w),
           UNCHANGED <<vectorKind, batch, nextItem, staged, asked, answer>>
    PROVE  VectorIInv'
<1>1. /\ collectionLock = w /\ batch[w].op = "upsert" /\ UpsertPhase(w)
      /\ \A id \in SlotIds \ Ids(batch[w]) : slots[id] = settled[id]
  BY HolderIsChroma DEF VectorIInv, HolderIsKnown
<1>2. DOMAIN Promise(w) = Ids(batch[w])
  BY DEF Promise
<1>3. \A id \in Ids(batch[w]) : Promise(w)[id] \in VectorRecords /\ Promise(w)[id].by = w
  BY <1>1, PromisedRecord
<1>4. /\ settled' \in [SlotIds -> VectorRecords \cup {NoVector}]
      /\ \A id \in SlotIds : settled'[id] = IF id \in Ids(batch[w]) THEN Promise(w)[id] ELSE settled[id]
      /\ DOMAIN sawGone' = VectorReaders
  BY <1>2, <1>3, SettleIsTyped DEF VectorIInv
<1>5. settled' = slots'
  BY <1>1, <1>4
<1>6. ReadersNotice' /\ AbsentMeansGone'
  BY <1>2, <1>3, SettlingIsNoticed
<1>7. \A id \in SlotIds, v \in VectorWriters : Ours(slots'[id], v)
  BY <1>1, <1>3 DEF Ours, VectorIInv, AllOurs
<1> QED BY <1>1, <1>4, <1>5, <1>6, <1>7, HolderEnds

LEMMA ChromaMergeKeeps ==
    ASSUME VectorIInv, NEW w \in VectorWriters, ChromaMerge(w) PROVE VectorIInv'
<1>1. /\ vpc[w] = "merge" /\ vpc[w] \in Undoable
      /\ UNCHANGED <<vectorKind, batch, nextItem, staged, asked, answer>>
  BY DEF ChromaMerge, Undoable
<1>2. collectionLock = w /\ batch[w].op = "upsert" /\ UpsertPhase(w) /\ Ids(batch[w]) \subseteq SlotIds
  BY <1>1, HolderIsChroma, IdsAreSlots DEF VectorIInv, SlotTypes
<1>3. CASE Fails(w) /\ UNCHANGED <<slots, settled, sawGone, collectionLock, snapshot>>
  BY <1>1, <1>3, Failing
<1>4. CASE Store(MergeOf(w, MergedIds(w)))
  <2> DEFINE new == MergeOf(w, MergedIds(w))
  <2>1. /\ DOMAIN new = MergedIds(w) /\ MergedIds(w) \subseteq Ids(batch[w])
        /\ \A id \in MergedIds(w) : new[id] = Merge(settled[id], Replacement(w)[id])
    BY <1>1, <1>2 DEF MergeOf, MergedIds, UpsertPhase
  <2>2. \A id \in MergedIds(w) : new[id] \in VectorRecords /\ new[id].by = w /\ new[id].owner = Replacement(w)[id].owner
    <3> SUFFICES ASSUME NEW id \in MergedIds(w)
                 PROVE  new[id] \in VectorRecords /\ new[id].by = w /\ new[id].owner = Replacement(w)[id].owner
      OBVIOUS
    <3>1. id \in Ids(batch[w]) /\ new[id] = Merge(settled[id], Replacement(w)[id])
      BY <2>1
    <3>2. /\ Merge(settled[id], Replacement(w)[id]) \in VectorRecords
          /\ Merge(settled[id], Replacement(w)[id]).by = w
          /\ Merge(settled[id], Replacement(w)[id]).owner = Replacement(w)[id].owner
      BY <1>2, <3>1, UpsertFacts
    <3> QED BY <3>1, <3>2
  <2> HIDE DEF new
  <2>3. /\ slots' \in [SlotIds -> VectorRecords \cup {NoVector}]
        /\ \A id \in SlotIds : slots'[id] = IF id \in MergedIds(w) THEN new[id] ELSE slots[id]
    BY <1>4, <2>1, <2>2, StoreIsTyped DEF VectorIInv, new
  <2>4. CASE MergedIds(w) = Ids(batch[w]) /\ EndBatch(w, "ok") /\ Settle(Promise(w)) /\ Unlock(w)
    BY <1>2, <2>4, <2>1, <2>3, PromisedIs, <1>1, UpsertEnds
  <2>5. CASE /\ vpc' = [vpc EXCEPT ![w] = "remove"]
             /\ UNCHANGED <<settled, sawGone, collectionLock, snapshot>>
    <3>1. \A id \in Ids(batch[w]) : Follows(slots'[id], settled[id]) /\ \A v \in VectorWriters : Ours(slots'[id], v)
      <4>1. ASSUME NEW id \in MergedIds(w) PROVE Follows(slots'[id], settled[id]) /\ \A v \in VectorWriters : Ours(slots'[id], v)
        <5>1. MayWrite(settled[id], Replacement(w)[id].owner)
          BY <1>2, <2>1, UpsertFacts
        <5> QED BY <1>2, <2>1, <2>2, <2>3, <5>1 DEF Follows, Ours, MayWrite
      <4>2. ASSUME NEW id \in Ids(batch[w]) \ MergedIds(w)
            PROVE  Follows(slots'[id], settled[id]) /\ \A v \in VectorWriters : Ours(slots'[id], v)
        BY <1>2, <2>3 DEF VectorIInv, SlotsFollow, AllOurs
      <4> QED BY <4>1, <4>2
    <3>2. vpc'[w] = "remove" /\ "remove" \in Undoable
      BY <2>5 DEF VectorIInv, SlotTypes, Undoable
    <3>3. UpsertPhase(w)'
      <4>1. Ids(batch[w])' = Ids(batch[w])
        BY <1>1 DEF Ids
      <4>2. MergedIds(w)' = MergedIds(w)
        BY <1>1, <2>5, <4>1 DEF MergedIds
      <4>3. Replacement(w)' = Replacement(w)
        BY <1>1, <4>1 DEF Replacement
      <4>4. TwiceInBatch(batch[w])' = TwiceInBatch(batch[w])
        BY <1>1 DEF TwiceInBatch
      <4>5. \A id \in Ids(batch[w]) \ MergedIds(w) : slots'[id] = settled[id]
        BY <1>1, <1>2, <2>3 DEF UpsertPhase
      <4>6. \A id \in MergedIds(w) : slots'[id] = Merge(settled[id], Replacement(w)[id])
        BY <1>2, <2>1, <2>3
      <4> QED BY <1>1, <1>2, <2>5, <3>2, <4>1, <4>2, <4>3, <4>4, <4>5, <4>6 DEF UpsertPhase
    <3>4. /\ \A id \in SlotIds \ Ids(batch[w]) : slots'[id] = slots[id]
          /\ slots' \in [SlotIds -> VectorRecords \cup {NoVector}]
      BY <2>1, <2>3
    <3>5. UNCHANGED <<vectorKind, settled, batch, nextItem, staged, snapshot, collectionLock, asked,
                      sawGone, answer>>
      BY <1>1, <2>5
    <3> QED BY <1>1, <2>5, <3>1, <3>2, <3>3, <3>4, <3>5, HolderWrites
  <2> QED BY <1>3, <1>4, <2>4, <2>5 DEF ChromaMerge
<1> QED BY <1>3, <1>4 DEF ChromaMerge

LEMMA ChromaRemoveKeeps ==
    ASSUME VectorIInv, NEW w \in VectorWriters, ChromaRemove(w) PROVE VectorIInv'
<1>1. /\ vpc[w] = "remove" /\ vpc[w] \in Undoable
      /\ UNCHANGED <<vectorKind, settled, batch, nextItem, staged, snapshot, collectionLock, asked,
                     sawGone, answer>>
  BY DEF ChromaRemove, Undoable
<1>2. collectionLock = w /\ UpsertPhase(w) /\ Ids(batch[w]) \subseteq SlotIds
  BY <1>1, HolderIsChroma, IdsAreSlots DEF VectorIInv, SlotTypes
<1>3. CASE Fails(w) /\ UNCHANGED slots
  BY <1>1, <1>3, Failing
<1>4. CASE Store(Gone(Ids(batch[w]) \ MergedIds(w))) /\ vpc' = [vpc EXCEPT ![w] = "add"]
  <2> DEFINE gone == Ids(batch[w]) \ MergedIds(w)
  <2>1. /\ slots' \in [SlotIds -> VectorRecords \cup {NoVector}]
        /\ \A id \in SlotIds : slots'[id] = IF id \in gone THEN NoVector ELSE slots[id]
    BY <1>4, GoneIsNothing, StoreIsTyped DEF VectorIInv
  <2>2. ASSUME NEW id \in Ids(batch[w])
        PROVE  Follows(slots'[id], settled[id]) /\ \A v \in VectorWriters : Ours(slots'[id], v)
    BY <1>2, <2>1 DEF VectorIInv, SlotsFollow, AllOurs, Follows, Ours, IsVector
  <2>3. vpc'[w] = "add" /\ "add" \in Undoable
    BY <1>4 DEF VectorIInv, SlotTypes, Undoable
  <2>4. UpsertPhase(w)'
    <3>1. Ids(batch[w])' = Ids(batch[w])
      BY <1>1 DEF Ids
    <3>2. MergedIds(w)' = MergedIds(w)
      BY <1>1, <3>1 DEF MergedIds
    <3>3. Replacement(w)' = Replacement(w)
      BY <1>1, <3>1 DEF Replacement
    <3>4. TwiceInBatch(batch[w])' = TwiceInBatch(batch[w])
      BY <1>1 DEF TwiceInBatch
    <3>5. \A id \in Ids(batch[w]) \ MergedIds(w) : slots'[id] = NoVector
      BY <1>2, <2>1
    <3>6. \A id \in Ids(batch[w]) : id \in MergedIds(w) => slots'[id] = Merge(settled[id], Replacement(w)[id])
      BY <1>1, <1>2, <2>1 DEF UpsertPhase
    <3> QED BY <1>1, <1>2, <2>3, <3>1, <3>2, <3>3, <3>4, <3>5, <3>6 DEF UpsertPhase
  <2>5. \A id \in SlotIds \ Ids(batch[w]) : slots'[id] = slots[id]
    BY <2>1
  <2> QED BY <1>1, <1>4, <2>1, <2>2, <2>3, <2>4, <2>5, HolderWrites
<1> QED BY <1>3, <1>4 DEF ChromaRemove

LEMMA ChromaAddKeeps ==
    ASSUME VectorIInv, NEW w \in VectorWriters, ChromaAdd(w) PROVE VectorIInv'
<1>1. /\ vpc[w] = "add" /\ vpc[w] \in Undoable
      /\ UNCHANGED <<vectorKind, batch, nextItem, staged, asked, answer>>
  BY DEF ChromaAdd, Undoable
<1>2. /\ collectionLock = w /\ UpsertPhase(w) /\ Ids(batch[w]) \subseteq SlotIds
      /\ DOMAIN Replacement(w) = Ids(batch[w])
  BY <1>1, HolderIsChroma, IdsAreSlots DEF VectorIInv, SlotTypes, Replacement
<1>3. CASE Fails(w) /\ UNCHANGED <<slots, settled, sawGone, collectionLock, snapshot>>
  BY <1>1, <1>3, Failing
<1>4. CASE /\ Store([id \in Ids(batch[w]) \ MergedIds(w) |-> Replacement(w)[id]])
           /\ EndBatch(w, "ok") /\ Settle(Promise(w)) /\ Unlock(w)
  <2> DEFINE new == [id \in Ids(batch[w]) \ MergedIds(w) |-> Replacement(w)[id]]
  <2>1. /\ DOMAIN new = Ids(batch[w]) \ MergedIds(w) /\ \A id \in DOMAIN new : new[id] = Replacement(w)[id]
    OBVIOUS
  <2>2. \A id \in DOMAIN new : new[id] \in VectorRecords \cup {NoVector}
    BY <1>2, <2>1, UpsertFacts
  <2>3. SlotTypes /\ Store(new)
    BY <1>4 DEF VectorIInv
  <2> HIDE DEF new
  <2>4. /\ slots' \in [SlotIds -> VectorRecords \cup {NoVector}]
        /\ \A id \in SlotIds : slots'[id] = IF id \in DOMAIN new THEN new[id] ELSE slots[id]
    BY <2>2, <2>3, StoreIsTyped
  <2>5. ASSUME NEW id \in Ids(batch[w]) PROVE slots'[id] = Promise(w)[id]
    BY <1>2, PromisedIs, <1>1, <2>1, <2>4 DEF UpsertPhase
  <2>6. \A id \in SlotIds \ Ids(batch[w]) : slots'[id] = slots[id]
    BY <2>1, <2>4
  <2> QED BY <1>1, <1>4, <2>4, <2>5, <2>6, UpsertEnds
<1> QED BY <1>3, <1>4 DEF ChromaAdd

LEMMA ChromaUndoKeeps ==
    ASSUME VectorIInv, NEW w \in VectorWriters, ChromaUndo(w) PROVE VectorIInv'
<1>1. /\ vpc[w] = "undo" /\ vpc[w] \in Undoable
      /\ UNCHANGED <<vectorKind, batch, nextItem, staged, asked, answer>>
  BY DEF ChromaUndo, Undoable
<1>2. collectionLock = w /\ UpsertPhase(w) /\ Ids(batch[w]) \subseteq SlotIds
  BY <1>1, HolderIsChroma, IdsAreSlots DEF VectorIInv, SlotTypes
<1>3. CASE GiveUpUndo(w)
  BY <1>1, <1>2, <1>3, GivingUp
<1>4. CASE /\ Store(Gone(Cleared(w))) /\ vpc' = [vpc EXCEPT ![w] = "replay"]
           /\ UNCHANGED <<settled, sawGone, collectionLock, snapshot>>
  <2>1. /\ slots' \in [SlotIds -> VectorRecords \cup {NoVector}]
        /\ \A id \in SlotIds : slots'[id] = IF id \in Ids(batch[w]) THEN NoVector ELSE slots[id]
    BY <1>4, GoneIsNothing, StoreIsTyped DEF VectorIInv, Cleared
  <2>2. \A id \in Ids(batch[w]) : slots'[id] = NoVector
    BY <1>2, <2>1
  <2>3. \A id \in Ids(batch[w]) : Follows(slots'[id], settled[id]) /\ \A v \in VectorWriters : Ours(slots'[id], v)
    BY <2>2 DEF Follows, Ours, IsVector
  <2>4. vpc'[w] = "replay" /\ "replay" \in Undoable
    BY <1>4 DEF VectorIInv, SlotTypes, Undoable
  <2>5. UpsertPhase(w)'
    <3>1. Ids(batch[w])' = Ids(batch[w])
      BY <1>1 DEF Ids
    <3>2. TwiceInBatch(batch[w])' = TwiceInBatch(batch[w])
      BY <1>1 DEF TwiceInBatch
    <3> QED BY <1>1, <1>2, <1>4, <2>2, <2>4, <3>1, <3>2 DEF UpsertPhase, MayWrite, IsVector
  <2>6. \A id \in SlotIds \ Ids(batch[w]) : slots'[id] = slots[id]
    BY <2>1
  <2> QED BY <1>1, <1>4, <2>1, <2>3, <2>4, <2>5, <2>6, HolderWrites
<1> QED BY <1>3, <1>4 DEF ChromaUndo

\* The snapshot is put back whole: the batch might never have been.
LEMMA ChromaReplayKeeps ==
    ASSUME VectorIInv, NEW w \in VectorWriters, ChromaReplay(w) PROVE VectorIInv'
<1>1. /\ vpc[w] = "replay" /\ vpc[w] \in Undoable
      /\ UNCHANGED <<vectorKind, batch, nextItem, staged, asked, answer>>
  BY DEF ChromaReplay, Undoable
<1>2. /\ collectionLock = w /\ UpsertPhase(w) /\ Ids(batch[w]) \subseteq SlotIds
      /\ \A id \in SlotIds \ Ids(batch[w]) : slots[id] = settled[id]
  BY <1>1, HolderIsChroma, IdsAreSlots DEF VectorIInv, SlotTypes, HolderIsKnown
<1>3. CASE GiveUpUndo(w)
  BY <1>1, <1>2, <1>3, GivingUp
<1>4. CASE /\ Store([id \in {x \in Ids(batch[w]) : ~IsVector(slots[x])} |-> snapshot[w][id]])
           /\ EndBatch(w, "failed") /\ Unlock(w) /\ UNCHANGED <<settled, sawGone>>
  <2>1. \A id \in Ids(batch[w]) : slots[id] = NoVector /\ snapshot[w][id] = settled[id]
    BY <1>1, <1>2 DEF UpsertPhase
  <2>2. {x \in Ids(batch[w]) : ~IsVector(slots[x])} = Ids(batch[w])
    BY <2>1 DEF IsVector
  <2>3. \A id \in SlotIds : slots'[id] = settled[id]
    BY <1>2, <1>4, <2>1, <2>2 DEF Store
  <2>4. slots' = settled /\ settled \in [SlotIds -> VectorRecords \cup {NoVector}] /\ DOMAIN sawGone = VectorReaders
    BY <1>4, <2>3 DEF Store, VectorIInv, SlotTypes
  <2>5. ReadersNotice' /\ AbsentMeansGone'
    BY <1>1, <1>4 DEF VectorIInv, ReadersNotice, AbsentMeansGone
  <2>6. \A id \in SlotIds, v \in VectorWriters : Ours(slots'[id], v)
    BY <2>4 DEF VectorIInv, AllOurs
  <2> QED BY <1>1, <1>2, <1>4, <2>4, <2>5, <2>6, HolderEnds
<1> QED BY <1>3, <1>4 DEF ChromaReplay

LEMMA ChromaCallKeeps ==
    ASSUME VectorIInv, NEW w \in VectorWriters, ChromaCall(w) PROVE VectorIInv'
<1>1. /\ vpc[w] = "write" /\ vectorKind = "chroma" /\ collectionLock = NoVectorWriter /\ collectionLock # w
      /\ DOMAIN staged[w] = {}
      /\ UNCHANGED <<vectorKind, batch, nextItem, staged, snapshot, collectionLock, asked, answer>>
  BY VectorAssumption, OnlyPgStages DEF ChromaCall
<1>2. DOMAIN staged' = VectorWriters /\ StagedIsJudged'
  BY <1>1, OnlyPgStages DEF VectorIInv, SlotTypes, StagedIsJudged
<1>3. CASE EndBatch(w, "ok") /\ Store(Gone(Ids(batch[w]))) /\ Settle(Gone(Ids(batch[w])))
  BY <1>1, <1>2, <1>3, GoneIsNothing, SettledCall
<1>4. CASE /\ EndBatch(w, "ok")
           /\ Store([id \in {x \in Ids(batch[w]) : ~IsVector(slots[x])} |-> Replacement(w)[id]])
           /\ Settle([id \in {x \in Ids(batch[w]) : ~IsVector(slots[x])} |-> Replacement(w)[id]])
  <2> DEFINE new == [id \in {x \in Ids(batch[w]) : ~IsVector(slots[x])} |-> Replacement(w)[id]]
  <2>1. /\ DOMAIN new \subseteq Ids(batch[w]) /\ \A id \in DOMAIN new : new[id] = Replacement(w)[id]
        /\ Store(new) /\ Settle(new)
    BY <1>4
  <2> HIDE DEF new
  <2>2. \A id \in DOMAIN new : new[id] \in VectorRecords \cup {NoVector}
    BY <2>1, ReplacementIsTheItems DEF VectorIInv
  <2>3. ASSUME NEW id \in DOMAIN new, NEW v \in VectorWriters PROVE Ours(new[id], v)
    BY <1>1, <2>1, OursToWrite
  <2> QED BY <1>1, <1>2, <1>4, <2>1, <2>2, <2>3, SettledCall
<1>5. CASE EndBatch(w, "refused") /\ UNCHANGED <<slots, settled, sawGone, vectorFaults>>
  BY <1>1, <1>5, QuietEnd
<1> QED BY <1>3, <1>4, <1>5 DEF ChromaCall

LEMMA ChromaImportKeeps ==
    ASSUME VectorIInv, NEW w \in VectorWriters, ChromaImport(w) PROVE VectorIInv'
<1>1. /\ vpc[w] = "write" /\ vectorKind = "chroma" /\ batch[w].op = "import" /\ DOMAIN staged[w] = {}
      /\ UNCHANGED <<vectorKind, batch, staged, asked, answer>>
  BY OnlyPgStages DEF ChromaImport
<1>2. /\ batch[w] \in VectorCalls /\ Ids(batch[w]) \subseteq SlotIds /\ ~TwiceInBatch(batch[w])
      /\ nextItem[w] \in Nat \ {0}
      /\ \A i \in DOMAIN batch[w].items : i \in Nat \ {0}
      /\ DOMAIN batch[w].items = 1 .. Len(batch[w].items) /\ Len(batch[w].items) \in Nat
  BY <1>1, IdsAreSlots, ItemsAreTyped DEF VectorIInv, SlotTypes, Checked
<1>3. Ids(batch[w])' = Ids(batch[w]) /\ StagedIsJudged'
  BY <1>1, OnlyPgStages DEF Ids, VectorIInv, StagedIsJudged
<1>4. CASE collectionLock = NoVectorWriter /\ EndBatch(w, "refused")
           /\ UNCHANGED <<slots, settled, nextItem, sawGone, snapshot, vectorFaults, collectionLock>>
  BY <1>1, <1>4, QuietEnd, VectorAssumption
<1>5. CASE /\ collectionLock = NoVectorWriter /\ ~Occupied(batch[w]) /\ collectionLock' = w
           /\ UNCHANGED <<vpc, slots, settled, nextItem, sawGone, snapshot>>
  <2>1. nextItem[w] = 1 /\ slots = settled
    BY <1>1, <1>5, VectorAssumption DEF VectorIInv, LockIsTheWriters, SlotsAreSettled
  <2>2. ImportPhase(w)'
    BY <1>2, <1>5, <2>1, <1>1 DEF Occupied, Ids, IsVector, ImportPhase
  <2>3. SlotTypes'
    BY <1>1, <1>5 DEF VectorIInv, SlotTypes
  <2>4. LockIsTheWriters'
    BY <1>1, <1>5, VectorAssumption DEF VectorIInv, LockIsTheWriters, Undoable
  <2>5. HolderIsKnown'
    BY <1>1, <1>3, <1>5, <2>1, <2>2 DEF HolderIsKnown, Undoable
  <2>6. /\ (\A v \in VectorWriters : Checked(v))' /\ SlotsFollow' /\ AllOurs' /\ ReadersNotice'
        /\ SlotsAreSettled' /\ AbsentMeansGone'
    BY <1>1, <1>5, VectorAssumption DEF VectorIInv, Checked, TwiceInBatch, ConflictInBatch, SlotsFollow, Follows,
       AllOurs, Ours, ReadersNotice, SlotsAreSettled, AbsentMeansGone
  <2> QED BY <1>3, <2>3, <2>4, <2>5, <2>6 DEF VectorIInv
<1>6. CASE /\ collectionLock = w /\ nextItem[w] <= Len(batch[w].items)
           /\ Store([id \in {x \in {batch[w].items[nextItem[w]].id} : ~IsVector(slots[x])} |->
                       Vector(w, batch[w].items[nextItem[w]])])
           /\ nextItem' = [nextItem EXCEPT ![w] = @ + 1]
           /\ UNCHANGED <<vpc, settled, sawGone, snapshot, collectionLock>>
  <2>1. PICK n \in Nat \ {0} : n = nextItem[w]
    BY <1>2
  <2>2. PICK item : item = batch[w].items[n]
    OBVIOUS
  <2>3. n \in DOMAIN batch[w].items /\ ImportPhase(w) /\ item.id \in SlotIds /\ item.id \in Ids(batch[w])
    BY <1>1, <1>2, <1>6, <2>1, <2>2 DEF VectorIInv, HolderIsKnown, Ids
  <2>4. slots[item.id] = NoVector /\ settled[item.id] = NoVector
    BY <2>1, <2>2, <2>3 DEF ImportPhase
  <2>5. slots' = [id \in SlotIds |-> IF id = item.id THEN Vector(w, item) ELSE slots[id]]
    BY <1>6, <2>1, <2>2, <2>4 DEF Store, IsVector
  <2>6. Vector(w, item) \in VectorRecords /\ \A v \in VectorWriters : Ours(Vector(w, item), v)
    <3>1. item.owner \in VectorPacks \cup {Unowned} /\ item.keys \in SUBSET VectorKeys
      BY <1>2, <2>2, <2>3, ItemsAreTyped
    <3>2. item.owner = batch[w].pack /\ RetiredKey \notin item.keys
      BY <1>1, <2>2, <2>3 DEF VectorIInv, Checked
    <3> QED BY <3>1, <3>2 DEF Vector, VectorRecords, Ours
  <2>7. nextItem'[w] = n + 1 /\ nextItem' \in [VectorWriters -> Nat \ {0}]
        /\ \A v \in VectorWriters \ {w} : nextItem'[v] = nextItem[v]
    BY <1>6, <2>1 DEF VectorIInv, SlotTypes
  <2>8. SlotTypes'
    BY <1>1, <1>6, <2>5, <2>6, <2>7 DEF VectorIInv, SlotTypes
  <2>9. LockIsTheWriters'
    BY <1>1, <1>6, <2>7 DEF VectorIInv, LockIsTheWriters
  <2>10. ImportPhase(w)'
    <3>1. ASSUME NEW i \in DOMAIN batch[w].items
          PROVE  /\ settled[batch[w].items[i].id] = NoVector
                 /\ slots'[batch[w].items[i].id] = IF i < n + 1 THEN Vector(w, batch[w].items[i]) ELSE NoVector
      <4>1. settled[batch[w].items[i].id] = NoVector /\ batch[w].items[i].id \in SlotIds
        BY <1>2, <2>3, ItemsAreTyped DEF ImportPhase
      <4>2. CASE i = n
        BY <2>3, <2>5, <4>2, <2>1, <4>1, <2>2
      <4>3. CASE i # n
        BY <1>2, <2>2, <2>3, <4>3, <2>1, <2>5, <4>1 DEF TwiceInBatch, ImportPhase
      <4> QED BY <4>2, <4>3
    <3> QED BY <1>1, <1>6, <2>7, <3>1 DEF ImportPhase
  <2>11. HolderIsKnown'
    BY <1>6, <2>3, <2>5, <1>1, <1>3, <2>10 DEF VectorIInv, HolderIsKnown, Undoable
  <2>12. SlotsFollow'
    BY <1>6, <2>4, <2>5 DEF VectorIInv, SlotsFollow, Follows, IsVector
  <2>13. AllOurs'
    BY <1>1, <1>6, <2>5, <2>6 DEF VectorIInv, AllOurs, Ours
  <2>14. (\A v \in VectorWriters : Checked(v))' /\ ReadersNotice' /\ SlotsAreSettled' /\ AbsentMeansGone'
    BY <1>1, <1>6, VectorAssumption DEF VectorIInv, Checked, TwiceInBatch, ConflictInBatch, ReadersNotice,
       SlotsAreSettled, AbsentMeansGone
  <2> QED BY <1>3, <2>8, <2>9, <2>11, <2>12, <2>13, <2>14 DEF VectorIInv
<1>7. CASE /\ collectionLock = w /\ nextItem[w] > Len(batch[w].items)
           /\ EndBatch(w, "ok") /\ Settle(Replacement(w)) /\ Unlock(w) /\ UNCHANGED <<slots, nextItem>>
  <2>1. ImportPhase(w) /\ \A id \in SlotIds \ Ids(batch[w]) : slots[id] = settled[id]
    BY <1>1, <1>7 DEF VectorIInv, HolderIsKnown
  <2>2. /\ DOMAIN Replacement(w) = Ids(batch[w])
        /\ \A id \in DOMAIN Replacement(w) : Replacement(w)[id] \in VectorRecords \cup {NoVector}
    BY ReplacementIsTheItems DEF VectorIInv
  <2>3. \A id \in Ids(batch[w]) : slots[id] = Replacement(w)[id]
    BY <1>2, LastIsOfTheCall, <1>7, <2>1 DEF ImportPhase, Replacement
  <2>4. /\ settled' \in [SlotIds -> VectorRecords \cup {NoVector}]
        /\ \A id \in SlotIds : settled'[id] = IF id \in Ids(batch[w]) THEN Replacement(w)[id] ELSE settled[id]
        /\ DOMAIN sawGone' = VectorReaders
    BY <1>7, <2>2, SettleIsTyped DEF VectorIInv
  <2>5. slots' \in [SlotIds -> VectorRecords \cup {NoVector}] /\ settled' = slots'
    <3>1. slots' = slots /\ slots \in [SlotIds -> VectorRecords \cup {NoVector}]
      BY <1>7 DEF VectorIInv, SlotTypes
    <3>2. \A id \in SlotIds : settled'[id] = slots[id]
      BY <2>1, <2>3, <2>4
    <3> QED BY <2>4, <3>1, <3>2
  <2>6. ReadersNotice' /\ AbsentMeansGone'
    BY <1>1, <1>7, <2>2, SettlingIsNoticed
  <2>7. \A id \in SlotIds, v \in VectorWriters : Ours(slots'[id], v)
    BY <1>7 DEF VectorIInv, AllOurs
  <2>8. UNCHANGED <<vectorKind, batch, nextItem, staged, asked, answer>>
    BY <1>1, <1>7
  <2>9. collectionLock = w /\ EndBatch(w, "ok") /\ Unlock(w)
    BY <1>7
  <2> QED BY <2>4, <2>5, <2>6, <2>7, <2>8, <2>9, HolderEnds
<1>8. CASE collectionLock = w /\ GiveUpUndo(w) /\ UNCHANGED nextItem
  BY <1>1, <1>8, GivingUp
<1> QED BY <1>4, <1>5, <1>6, <1>7, <1>8 DEF ChromaImport, ImportMayBegin

LEMMA ProcessDiesKeeps == ASSUME VectorIInv, ProcessDies PROVE VectorIInv'
<1>1. /\ vectorKind = "chroma" /\ collectionLock' = NoVectorWriter /\ vpc' = [w \in VectorWriters |-> "done"]
      /\ Settle(slots) /\ snapshot' = [w \in VectorWriters |-> <<>>]
      /\ UNCHANGED <<vectorKind, slots, batch, nextItem, staged, asked, answer>>
  BY DEF ProcessDies
<1>2. \A id \in DOMAIN slots : slots[id] \in VectorRecords \cup {NoVector}
  BY DEF VectorIInv, SlotTypes
<1>3. settled' = slots' /\ slots' \in [SlotIds -> VectorRecords \cup {NoVector}] /\ DOMAIN sawGone' = VectorReaders
  BY <1>1, <1>2, SettleIsTyped DEF VectorIInv, SlotTypes
<1>4. ReadersNotice' /\ AbsentMeansGone'
  BY <1>1, <1>2, SettlingIsNoticed
<1>5. SlotTypes'
  BY <1>1, <1>3 DEF VectorIInv, SlotTypes
<1>6. (\A w \in VectorWriters : Checked(w))' /\ LockIsTheWriters' /\ HolderIsKnown'
  BY <1>1, VectorAssumption DEF VectorIInv, Checked, LockIsTheWriters, HolderIsKnown, Undoable
<1>7. SlotsFollow' /\ SlotsAreSettled' /\ AllOurs'
  BY <1>1, <1>3 DEF VectorIInv, SlotsFollow, Follows, SlotsAreSettled, AllOurs, Ours
<1>8. StagedIsJudged'
  BY <1>1, OnlyPgStages DEF VectorIInv, StagedIsJudged
<1> QED BY <1>4, <1>5, <1>6, <1>7, <1>8 DEF VectorIInv

\* A read changes what its reader knows, and nothing else.
LEMMA ReadingKeeps ==
    ASSUME VectorIInv, NEW r \in VectorReaders, NEW a \in {"missed", "found", "absent"},
           answer[r] \in {"reading", "missed"}, answer' = [answer EXCEPT ![r] = a],
           a = "absent" => slots[asked[r]] = settled[asked[r]] /\ ~IsVector(slots[asked[r]]),
           UNCHANGED <<vectorKind, slots, settled, batch, vpc, result, nextItem, staged, snapshot,
                       collectionLock, asked, sawGone, vectorFaults>>
    PROVE  VectorIInv'
<1>1. SlotTypes'
  BY DEF VectorIInv, SlotTypes
<1>2. (\A v \in VectorWriters : Checked(v))' /\ LockIsTheWriters'
  BY DEF VectorIInv, Checked, TwiceInBatch, ConflictInBatch, LockIsTheWriters
<1>3. HolderIsKnown'
  <2>1. ASSUME NEW v \in VectorWriters PROVE (UpsertPhase(v) => UpsertPhase(v)') /\ (ImportPhase(v) => ImportPhase(v)')
    <3>1. Ids(batch[v])' = Ids(batch[v]) /\ TwiceInBatch(batch[v])' = TwiceInBatch(batch[v])
      BY DEF Ids, TwiceInBatch
    <3>2. MergedIds(v)' = MergedIds(v) /\ Replacement(v)' = Replacement(v)
      BY <3>1 DEF MergedIds, Replacement
    <3> QED BY <3>1, <3>2 DEF UpsertPhase, ImportPhase
  <2> QED BY <2>1 DEF VectorIInv, HolderIsKnown, Ids
<1>4. SlotsFollow' /\ AllOurs' /\ SlotsAreSettled'
  BY DEF VectorIInv, SlotsFollow, Follows, AllOurs, Ours, SlotsAreSettled
<1>5. StagedIsJudged'
  BY DEF VectorIInv, StagedIsJudged, StagedRow, Ids, MayWrite, IsVector
<1>6. ReadersNotice' /\ AbsentMeansGone'
  BY DEF VectorIInv, SlotTypes, ReadersNotice, AbsentMeansGone, IsVector
<1> QED BY <1>1, <1>2, <1>3, <1>4, <1>5, <1>6 DEF VectorIInv

LEMMA ReadByIdKeeps ==
    ASSUME VectorIInv, NEW r \in VectorReaders, ReadById(r) PROVE VectorIInv'
<1> DEFINE a == IF IsVector(slots[asked[r]]) THEN "found" ELSE IF AsksAgain THEN "missed" ELSE "absent"
<1>1. a \in {"missed", "found", "absent"} /\ answer' = [answer EXCEPT ![r] = a] /\ answer[r] \in {"reading", "missed"}
  BY DEF ReadById
<1>2. a = "absent" => slots[asked[r]] = settled[asked[r]] /\ ~IsVector(slots[asked[r]])
  BY SqlIsUnlocked DEF AsksAgain
<1>3. UNCHANGED <<vectorKind, slots, settled, batch, vpc, result, nextItem, staged, snapshot,
                  collectionLock, asked, sawGone, vectorFaults>>
  BY DEF ReadById
<1> HIDE DEF a
<1> QED BY <1>1, <1>2, <1>3, ReadingKeeps

LEMMA ReadSlotAgainKeeps ==
    ASSUME VectorIInv, NEW r \in VectorReaders, ReadSlotAgain(r) PROVE VectorIInv'
<1> DEFINE a == IF IsVector(slots[asked[r]]) THEN "found" ELSE "absent"
<1>1. a \in {"missed", "found", "absent"} /\ answer' = [answer EXCEPT ![r] = a] /\ answer[r] \in {"reading", "missed"}
  BY DEF ReadSlotAgain
<1>2. a = "absent" => slots[asked[r]] = settled[asked[r]] /\ ~IsVector(slots[asked[r]])
  BY DEF ReadSlotAgain, VectorIInv, SlotsAreSettled
<1>3. UNCHANGED <<vectorKind, slots, settled, batch, vpc, result, nextItem, staged, snapshot,
                  collectionLock, asked, sawGone, vectorFaults>>
  BY DEF ReadSlotAgain
<1> HIDE DEF a
<1> QED BY <1>1, <1>2, <1>3, ReadingKeeps

LEMMA VectorStutters == ASSUME VectorIInv, UNCHANGED vectorVars PROVE VectorIInv'
<1>1. SlotTypes'
  BY DEF vectorVars, VectorIInv, SlotTypes
<1>2. (\A v \in VectorWriters : Checked(v))' /\ LockIsTheWriters'
  BY DEF vectorVars, VectorIInv, Checked, TwiceInBatch, ConflictInBatch, LockIsTheWriters
<1>3. HolderIsKnown'
  <2>1. ASSUME NEW v \in VectorWriters PROVE (UpsertPhase(v) => UpsertPhase(v)') /\ (ImportPhase(v) => ImportPhase(v)')
    <3>1. Ids(batch[v])' = Ids(batch[v]) /\ TwiceInBatch(batch[v])' = TwiceInBatch(batch[v])
      BY DEF vectorVars, Ids, TwiceInBatch
    <3>2. MergedIds(v)' = MergedIds(v) /\ Replacement(v)' = Replacement(v)
      BY <3>1 DEF vectorVars, MergedIds, Replacement
    <3> QED BY <3>1, <3>2 DEF vectorVars, UpsertPhase, ImportPhase
  <2> QED BY <2>1 DEF vectorVars, VectorIInv, HolderIsKnown, Ids
<1>4. SlotsFollow' /\ AllOurs' /\ SlotsAreSettled'
  BY DEF vectorVars, VectorIInv, SlotsFollow, Follows, AllOurs, Ours, SlotsAreSettled
<1>5. StagedIsJudged'
  BY DEF vectorVars, VectorIInv, StagedIsJudged, StagedRow, Ids, MayWrite, IsVector
<1>6. ReadersNotice' /\ AbsentMeansGone'
  BY DEF vectorVars, VectorIInv, ReadersNotice, AbsentMeansGone, IsVector
<1> QED BY <1>1, <1>2, <1>3, <1>4, <1>5, <1>6 DEF VectorIInv

LEMMA VectorStepKeeps == ASSUME VectorIInv, [VectorNext]_vectorVars PROVE VectorIInv'
BY StartKeeps, LookAtSlotsKeeps, SqliteWriteKeeps, SqlDeleteKeeps, PgStatementKeeps, PgCommitKeeps, PgDeadlockKeeps,
   ChromaBeginKeeps, ChromaMergeKeeps, ChromaRemoveKeeps, ChromaAddKeeps, ChromaUndoKeeps, ChromaReplayKeeps,
   ChromaCallKeeps, ChromaImportKeeps, ProcessDiesKeeps, ReadByIdKeeps, ReadSlotAgainKeeps, VectorStutters
   DEF VectorNext

LEMMA VectorInvHolds == VectorSpec => []VectorIInv
BY VectorStartsWell, VectorStepKeeps, PTL DEF VectorSpec

\* A failed batch left nothing and took nothing away, no metadata key survives
\* its last caller, a replacement is never seen as a gap, and what was imported
\* belongs to the pack it was imported into: on every backend, with any number
\* of writers, readers and slots, whichever calls fail and wherever the process
\* ends.
THEOREM StoreIsWhatCallsLeft ==
    VectorSpec => [](SlotsAreSettled /\ AbsentMeansGone /\ ImportsAreOurs)
<1>1. VectorIInv => SlotsAreSettled /\ AbsentMeansGone /\ ImportsAreOurs
  BY DEF VectorIInv, ImportsAreOurs, AllOurs, Ours
<1> QED BY VectorInvHolds, <1>1, PTL

-----------------------------------------------------------------------------
(* A slot keeps its owner. *)
OwnersStay == \A id \in SlotIds :
    IsVector(settled[id]) /\ settled[id].owner # Unowned /\ IsVector(settled'[id])
        => settled'[id].owner = settled[id].owner

\* Settling what may be written.
LEMMA SettlingLawfully ==
    ASSUME SlotTypes, NEW new, Settle(new), \A id \in DOMAIN new : Follows(new[id], settled[id]) PROVE OwnersStay
BY DEF Settle, Follows, OwnersStay, SlotTypes

LEMMA NothingSettled == ASSUME settled' = settled PROVE OwnersStay
BY DEF OwnersStay

LEMMA GivingUpKeepsOwners == ASSUME VectorIInv, Settle(slots) PROVE OwnersStay
BY SettlingLawfully DEF VectorIInv, SlotTypes, SlotsFollow

LEMMA ReplacingLawfully ==
    ASSUME VectorIInv, NEW w \in VectorWriters, NEW D \in SUBSET Ids(batch[w]),
           \A i \in DOMAIN batch[w].items :
              batch[w].items[i].id \in D => MayWrite(settled[batch[w].items[i].id], batch[w].items[i].owner),
           NEW id \in D
    PROVE  Follows(Replacement(w)[id], settled[id])
BY ReplacementIsTheItems DEF VectorIInv, Follows, MayWrite

LEMMA SqliteWriteOwners == ASSUME VectorIInv, NEW w \in VectorWriters, SqliteWrite(w) PROVE OwnersStay
<1>1. slots = settled /\ DOMAIN Replacement(w) = Ids(batch[w])
  BY SqlIsUnlocked DEF SqliteWrite, Replacement
<1>2. CASE settled' = settled
  BY <1>2, NothingSettled
<1>3. CASE /\ Settle(Replacement(w))
           /\ \/ \A i \in DOMAIN batch[w].items : MayWrite(slots[batch[w].items[i].id], batch[w].items[i].owner)
              \/ \A id \in Ids(batch[w]) : ~IsVector(slots[id])
  BY <1>1, <1>3, ReplacingLawfully, SettlingLawfully DEF MayWrite, Ids, VectorIInv
<1> QED BY <1>2, <1>3 DEF SqliteWrite, StatementTakes, Occupied

LEMMA PgCommitOwners == ASSUME VectorIInv, NEW w \in VectorWriters, PgCommit(w) PROVE OwnersStay
BY SqlIsUnlocked, SettlingLawfully DEF PgCommit, VectorIInv, StagedIsJudged, StagedRow, Follows,
   MayWrite

LEMMA PromiseFollows ==
    ASSUME VectorIInv, NEW w \in VectorWriters, UpsertPhase(w), NEW id \in Ids(batch[w])
    PROVE  Follows(Promise(w)[id], settled[id])
<1>1. Merge(settled[id], Replacement(w)[id]).owner = Replacement(w)[id].owner
  BY UpsertFacts DEF Merge, VectorRecords
<1>2. MayWrite(settled[id], Replacement(w)[id].owner)
  BY UpsertFacts
<1>3. PromiseKept(w, id)
  BY UpsertFacts
<1> QED BY <1>1, <1>2, <1>3 DEF Follows, MayWrite, PromiseKept

LEMMA UpsertOwners ==
    ASSUME VectorIInv, NEW w \in VectorWriters, vpc[w] \in Undoable, Settle(Promise(w)) PROVE OwnersStay
BY HolderIsChroma, PromiseFollows, SettlingLawfully DEF Promise, VectorIInv

LEMMA DeleteOwners == ASSUME VectorIInv, NEW ids, Settle(Gone(ids)) PROVE OwnersStay
BY GoneIsNothing, SettlingLawfully DEF VectorIInv, Follows, IsVector

LEMMA ChromaCallOwners == ASSUME VectorIInv, NEW w \in VectorWriters, ChromaCall(w) PROVE OwnersStay
BY DeleteOwners, NothingSettled, SettlingLawfully DEF ChromaCall, VectorIInv, SlotsAreSettled,
   Follows

LEMMA ChromaImportOwners == ASSUME VectorIInv, NEW w \in VectorWriters, ChromaImport(w) PROVE OwnersStay
<1>1. CASE settled' = settled
  BY <1>1, NothingSettled
<1>2. CASE Settle(slots)
  BY <1>2, GivingUpKeepsOwners
<1>3. CASE collectionLock = w /\ Settle(Replacement(w))
  <2>1. ImportPhase(w) /\ DOMAIN Replacement(w) = Ids(batch[w])
    BY <1>3 DEF ChromaImport, VectorIInv, HolderIsKnown, Replacement
  <2>2. \A id \in Ids(batch[w]) : settled[id] = NoVector
    BY <2>1 DEF ImportPhase, Ids
  <2> QED BY <1>3, <2>1, <2>2, SettlingLawfully DEF VectorIInv, Follows, IsVector
<1> QED BY <1>1, <1>2, <1>3 DEF ChromaImport, GiveUpUndo

LEMMA StepKeepsOwners == ASSUME VectorIInv, VectorNext PROVE OwnersStay
<1>1. ASSUME NEW w \in VectorWriters, Start(w) \/ LookAtSlots(w) \/ PgStatement(w) \/ PgDeadlock(w)
                                      \/ ChromaBegin(w) \/ ChromaRemove(w)
      PROVE OwnersStay
  BY <1>1, NothingSettled DEF Start, LookAtSlots, PgStatement, PgDeadlock, ChromaBegin, ChromaRemove
<1>2. ASSUME NEW w \in VectorWriters, SqlDelete(w) PROVE OwnersStay
  BY <1>2, DeleteOwners DEF SqlDelete
<1>3. ASSUME NEW w \in VectorWriters, ChromaMerge(w) \/ ChromaAdd(w) PROVE OwnersStay
  BY <1>3, NothingSettled, UpsertOwners DEF ChromaMerge, ChromaAdd, Undoable
<1>4. ASSUME NEW w \in VectorWriters, ChromaUndo(w) \/ ChromaReplay(w) PROVE OwnersStay
  BY <1>4, NothingSettled, GivingUpKeepsOwners DEF ChromaUndo, ChromaReplay, GiveUpUndo
<1>5. ASSUME ProcessDies PROVE OwnersStay
  BY <1>5, GivingUpKeepsOwners DEF ProcessDies
<1>6. ASSUME NEW r \in VectorReaders, ReadById(r) \/ ReadSlotAgain(r) PROVE OwnersStay
  BY <1>6, NothingSettled DEF ReadById, ReadSlotAgain
<1> QED BY <1>1, <1>2, <1>3, <1>4, <1>5, <1>6, SqliteWriteOwners, PgCommitOwners, ChromaCallOwners,
           ChromaImportOwners DEF VectorNext

\* A slot that a pack owns changes hands only by being emptied first, on every
\* backend, even where a batch failed in the middle and its way back failed too.
THEOREM SlotsStayWithTheirOwners == VectorSpec => OwnersKeepTheirSlots
<1>1. ASSUME VectorIInv, [VectorNext]_vectorVars PROVE [OwnersStay]_vectorVars
  BY <1>1, StepKeepsOwners
<1>2. VectorIInv /\ [VectorNext]_vectorVars => [OwnersStay]_vectorVars
  BY <1>1
<1> QED BY VectorInvHolds, <1>2, PTL DEF VectorSpec, OwnersKeepTheirSlots, OwnersStay

-----------------------------------------------------------------------------
(* Sums over the terms of a question. *)
LEMMA NaturalInduction ==
    ASSUME NEW S \in SUBSET Nat, 0 \in S, \A n \in S : n + 1 \in S
    PROVE  S = Nat
<1>1. SUFFICES ASSUME Nat \ S # {} PROVE FALSE
  OBVIOUS
<1>2. PICK x \in Nat \ S : \A y \in Nat \ S : x <= y
  BY <1>1, LeastNumber
<1>3. x # 0 /\ x - 1 \in Nat
  BY <1>2
<1>4. x - 1 \in S
  BY <1>2, <1>3
<1> QED BY <1>4, <1>2, <1>3

Adding(f) == \A t \in Terms : f[t] \in Nat

\* The sums of the first terms, of which SumOver is the last.
PrefixSums(f, g, n) ==
    /\ g \in [0 .. n -> Nat] /\ g[0] = 0
    /\ \A t \in 1 .. n : g[t] = g[t - 1] + f[t]

LEMMA PrefixSumsExist ==
    ASSUME NEW f, Adding(f) PROVE \E g : PrefixSums(f, g, NumTerms)
<1> DEFINE S == {n \in Nat : n <= NumTerms => \E g : PrefixSums(f, g, n)}
<1>0. NumTerms \in Nat
  BY PruneAssumption
<1>1. 0 \in S
  <2>1. PrefixSums(f, [t \in 0 .. 0 |-> 0], 0)
    BY DEF PrefixSums
  <2> QED BY <2>1
<1>2. ASSUME NEW n \in S PROVE n + 1 \in S
  <2>1. SUFFICES ASSUME n + 1 <= NumTerms PROVE \E g : PrefixSums(f, g, n + 1)
    OBVIOUS
  <2>2. PICK g : PrefixSums(f, g, n)
    BY <1>0, <2>1
  <2> DEFINE h == [t \in 0 .. n + 1 |-> IF t = n + 1 THEN g[n] + f[n + 1] ELSE g[t]]
  <2>3. n \in Nat /\ f[n + 1] \in Nat /\ \A t \in 0 .. n : g[t] \in Nat
    BY <1>0, <2>1, <2>2 DEF Adding, Terms, PrefixSums
  <2>4. h \in [0 .. n + 1 -> Nat] /\ h[0] = 0
    BY <2>2, <2>3 DEF PrefixSums
  <2>5. \A t \in 1 .. n + 1 : h[t] = h[t - 1] + f[t]
    BY <2>2, <2>3 DEF PrefixSums
  <2>6. PrefixSums(f, h, n + 1)
    BY <2>4, <2>5 DEF PrefixSums
  <2> QED BY <2>6
<1>3. S = Nat
  <2>1. S \in SUBSET Nat
    OBVIOUS
  <2> HIDE DEF S
  <2> QED BY <1>1, <1>2, <2>1, NaturalInduction
<1> QED BY <1>0, <1>3

\* SumOver is what its recursion says.
LEMMA SumIsTheLastPrefix ==
    ASSUME NEW f, Adding(f) PROVE \E g : PrefixSums(f, g, NumTerms) /\ SumOver(f) = g[NumTerms]
<1> DEFINE upto[t \in 0 .. NumTerms] == IF t = 0 THEN 0 ELSE upto[t - 1] + f[t]
<1>0. NumTerms \in Nat
  BY PruneAssumption
<1>1. PICK g : PrefixSums(f, g, NumTerms)
  BY PrefixSumsExist
<1>2. g = [t \in 0 .. NumTerms |-> IF t = 0 THEN 0 ELSE g[t - 1] + f[t]]
  BY <1>0, <1>1 DEF PrefixSums
<1>3. upto = [t \in 0 .. NumTerms |-> IF t = 0 THEN 0 ELSE upto[t - 1] + f[t]]
  BY <1>2
<1>4. SumOver(f) = upto[NumTerms]
  BY DEF SumOver
<1> HIDE DEF upto
<1>5. \A t \in 1 .. NumTerms : upto[t] = upto[t - 1] + f[t]
  BY <1>0, <1>3
<1>6. upto[0] = 0 /\ DOMAIN upto = 0 .. NumTerms
  BY <1>0, <1>3
<1> DEFINE S == {n \in Nat : n <= NumTerms => upto[n] \in Nat}
<1>7. ASSUME NEW n \in S PROVE n + 1 \in S
  BY <1>0, <1>5 DEF Adding, Terms
<1>8. S = Nat
  <2>1. S \in SUBSET Nat /\ 0 \in S
    BY <1>6
  <2> HIDE DEF S
  <2> QED BY <1>7, <2>1, NaturalInduction
<1>9. upto \in [0 .. NumTerms -> Nat]
  <2>1. \A n \in 0 .. NumTerms : upto[n] \in Nat
    BY <1>0, <1>8
  <2>2. upto = [n \in 0 .. NumTerms |-> upto[n]]
    BY <1>3
  <2> QED BY <2>1, <2>2
<1>10. PrefixSums(f, upto, NumTerms)
  BY <1>5, <1>6, <1>9 DEF PrefixSums
<1> QED BY <1>4, <1>10

LEMMA SumIsNatural ==
    ASSUME NEW f, Adding(f) PROVE SumOver(f) \in Nat
BY SumIsTheLastPrefix, PruneAssumption DEF PrefixSums

LEMMA SumIsMonotone ==
    ASSUME NEW f, NEW h, Adding(f), Adding(h), \A t \in Terms : f[t] <= h[t]
    PROVE  SumOver(f) <= SumOver(h)
<1>0. NumTerms \in Nat
  BY PruneAssumption
<1>1. PICK a : PrefixSums(f, a, NumTerms) /\ SumOver(f) = a[NumTerms]
  BY SumIsTheLastPrefix
<1>2. PICK b : PrefixSums(h, b, NumTerms) /\ SumOver(h) = b[NumTerms]
  BY SumIsTheLastPrefix
<1> DEFINE S == {n \in Nat : n <= NumTerms => a[n] <= b[n]}
<1>3. 0 \in S /\ S \in SUBSET Nat
  BY <1>1, <1>2 DEF PrefixSums
<1>4. ASSUME NEW n \in S PROVE n + 1 \in S
  <2>1. SUFFICES ASSUME n + 1 <= NumTerms PROVE a[n + 1] <= b[n + 1]
    OBVIOUS
  <2>2. /\ a[n + 1] = a[n] + f[n + 1] /\ b[n + 1] = b[n] + h[n + 1]
        /\ a[n] \in Nat /\ b[n] \in Nat /\ a[n] <= b[n]
    BY <1>0, <1>1, <1>2, <2>1 DEF PrefixSums
  <2>3. f[n + 1] \in Nat /\ h[n + 1] \in Nat /\ f[n + 1] <= h[n + 1]
    BY <1>0, <2>1 DEF Adding, Terms
  <2> QED BY <2>2, <2>3
<1>5. S = Nat
  <2> HIDE DEF S
  <2> QED BY <1>3, <1>4, NaturalInduction
<1> QED BY <1>0, <1>1, <1>2, <1>5

LEMMA SumOfSums ==
    ASSUME NEW f, NEW h, NEW k, Adding(f), Adding(h), Adding(k), \A t \in Terms : k[t] = f[t] + h[t]
    PROVE  SumOver(k) = SumOver(f) + SumOver(h)
<1>0. NumTerms \in Nat
  BY PruneAssumption
<1>1. PICK a : PrefixSums(f, a, NumTerms) /\ SumOver(f) = a[NumTerms]
  BY SumIsTheLastPrefix
<1>2. PICK b : PrefixSums(h, b, NumTerms) /\ SumOver(h) = b[NumTerms]
  BY SumIsTheLastPrefix
<1>3. PICK c : PrefixSums(k, c, NumTerms) /\ SumOver(k) = c[NumTerms]
  BY SumIsTheLastPrefix
<1> DEFINE S == {n \in Nat : n <= NumTerms => c[n] = a[n] + b[n]}
<1>4. 0 \in S /\ S \in SUBSET Nat
  BY <1>1, <1>2, <1>3 DEF PrefixSums
<1>5. ASSUME NEW n \in S PROVE n + 1 \in S
  <2>1. SUFFICES ASSUME n + 1 <= NumTerms PROVE c[n + 1] = a[n + 1] + b[n + 1]
    OBVIOUS
  <2>2. /\ a[n + 1] = a[n] + f[n + 1] /\ b[n + 1] = b[n] + h[n + 1] /\ c[n + 1] = c[n] + k[n + 1]
        /\ a[n] \in Nat /\ b[n] \in Nat /\ c[n] = a[n] + b[n]
    BY <1>0, <1>1, <1>2, <1>3, <2>1 DEF PrefixSums
  <2>3. f[n + 1] \in Nat /\ h[n + 1] \in Nat /\ k[n + 1] = f[n + 1] + h[n + 1]
    BY <1>0, <2>1 DEF Adding, Terms
  <2> QED BY <2>2, <2>3
<1>6. S = Nat
  <2> HIDE DEF S
  <2> QED BY <1>4, <1>5, NaturalInduction
<1> QED BY <1>0, <1>1, <1>2, <1>3, <1>6

LEMMA SumOfNothing ==
    ASSUME NEW f, \A t \in Terms : f[t] = 0 PROVE SumOver(f) = 0
<1>1. Adding(f) /\ \A t \in Terms : f[t] = f[t] + f[t]
  BY DEF Adding
<1>2. SumOver(f) = SumOver(f) + SumOver(f)
  BY <1>1, SumOfSums
<1> QED BY <1>1, <1>2, SumIsNatural

\* One term more.
LEMMA SumOfOne ==
    ASSUME NEW f, NEW s \in Terms, f[s] \in Nat, \A t \in Terms \ {s} : f[t] = 0
    PROVE  SumOver(f) = f[s]
<1>0. NumTerms \in Nat /\ s \in Nat \ {0} /\ s <= NumTerms
  BY PruneAssumption DEF Terms
<1>1. Adding(f)
  BY DEF Adding
<1>2. PICK a : PrefixSums(f, a, NumTerms) /\ SumOver(f) = a[NumTerms]
  BY <1>1, SumIsTheLastPrefix
<1> DEFINE S == {n \in Nat : n <= NumTerms => a[n] = IF n < s THEN 0 ELSE f[s]}
<1>3. 0 \in S /\ S \in SUBSET Nat
  BY <1>0, <1>2 DEF PrefixSums
<1>4. ASSUME NEW n \in S PROVE n + 1 \in S
  <2>1. SUFFICES ASSUME n + 1 <= NumTerms PROVE a[n + 1] = IF n + 1 < s THEN 0 ELSE f[s]
    OBVIOUS
  <2>2. a[n + 1] = a[n] + f[n + 1] /\ a[n] = IF n < s THEN 0 ELSE f[s]
    BY <1>0, <1>2, <2>1 DEF PrefixSums
  <2>3. f[n + 1] = IF n + 1 = s THEN f[s] ELSE 0
    BY <1>0, <2>1 DEF Terms
  <2> QED BY <1>0, <2>2, <2>3
<1>5. S = Nat
  <2> HIDE DEF S
  <2> QED BY <1>3, <1>4, NaturalInduction
<1> QED BY <1>0, <1>2, <1>5

-----------------------------------------------------------------------------
(* The pruned search: the inductive invariant. *)

\* What some terms add to a document.
AddedBy(d, ts) == [t \in Terms |-> IF t \in ts THEN table.adds[d][t] ELSE 0]
Scanned == Terms \ pendingTerms
Unseen == Documents \ (candidates \cup dead)
Beaters(d) == {x \in Documents : GroupOf(x) = GroupOf(d) /\ ScoreOf(x) > ScoreOf(d)}

PruneTypes ==
    /\ table \in ScoreTables /\ pendingTerms \subseteq Terms
    /\ candidates \subseteq Documents /\ dead \subseteq Documents /\ exact \subseteq candidates
    /\ partial \in [Documents -> Nat] /\ closedGroups \subseteq table.groups
    /\ phase \in {"prune", "take", "chosen"}
    /\ phase = "take" => pendingTerms # {}
    /\ phase = "chosen" => pendingTerms = {}

\* A candidate has what the scanned terms add to it.
CandidatesAreScanned == \A d \in candidates \ exact : partial[d] = SumOver(AddedBy(d, Scanned))

\* A document of an open group that no term has brought has none of them.
UnseenHasNothing ==
    \A d \in Unseen :
        /\ partial[d] = 0
        /\ GroupOf(d) \notin closedGroups => \A t \in Scanned : table.adds[d][t] = 0

\* What is given up for good is not among the best.
GivenUpIsBeaten ==
    /\ \A d \in dead : d \notin Best(Documents)
    /\ \A d \in Unseen : GroupOf(d) \in closedGroups => d \notin Best(Documents)

ChosenHoldsTheBest ==
    phase = "chosen" => chosen \subseteq candidates /\ Best(Documents) \subseteq chosen

PruneIInv ==
    /\ PruneTypes /\ CandidatesAreScanned /\ UnseenHasNothing /\ GivenUpIsBeaten /\ ChosenHoldsTheBest

-----------------------------------------------------------------------------
(* Scores and bounds. *)
LEMMA TableIsTyped ==
    ASSUME PruneTypes, NEW d \in Documents
    PROVE  /\ Adding(table.adds[d]) /\ GroupOf(d) \in table.groups /\ table.limit \in Nat
           /\ \A t \in Terms : table.adds[d][t] \in Nat /\ TermBound[t] \in Nat /\ table.adds[d][t] <= TermBound[t]
BY PruneAssumption DEF PruneTypes, Adding, GroupOf

LEMMA AddedIsNatural ==
    ASSUME PruneTypes, NEW d \in Documents, NEW ts
    PROVE  Adding(AddedBy(d, ts)) /\ SumOver(AddedBy(d, ts)) \in Nat
BY TableIsTyped, SumIsNatural DEF Adding, AddedBy

LEMMA ScoreIsNatural ==
    ASSUME PruneTypes, NEW d \in Documents PROVE ScoreOf(d) \in Nat
BY TableIsTyped, SumIsNatural DEF ScoreOf

\* A score is what the scanned terms add and what the others do.
LEMMA ScoreIsSplit ==
    ASSUME PruneTypes, NEW d \in Documents
    PROVE  ScoreOf(d) = SumOver(AddedBy(d, Scanned)) + SumOver(AddedBy(d, pendingTerms))
<1>1. \A t \in Terms : table.adds[d][t] = AddedBy(d, Scanned)[t] + AddedBy(d, pendingTerms)[t]
  BY TableIsTyped DEF AddedBy, Scanned, PruneTypes
<1> QED BY <1>1, TableIsTyped, AddedIsNatural, SumOfSums DEF ScoreOf

LEMMA BoundIsNatural == ASSUME NEW ts PROVE Bound(ts) \in Nat
<1> DEFINE b == [t \in Terms |-> IF t \in ts THEN TermBound[t] ELSE 0]
<1>1. Adding(b)
  BY PruneAssumption DEF Adding
<1>2. Bound(ts) = SumOver(b)
  BY DEF Bound
<1> HIDE DEF b
<1> QED BY <1>1, <1>2, SumIsNatural

LEMMA BoundIsABound ==
    ASSUME PruneTypes, NEW d \in Documents, NEW ts
    PROVE  Bound(ts) \in Nat /\ SumOver(AddedBy(d, ts)) <= Bound(ts)
<1> DEFINE b == [t \in Terms |-> IF t \in ts THEN TermBound[t] ELSE 0]
<1>1. Adding(b) /\ \A t \in Terms : AddedBy(d, ts)[t] <= b[t]
  BY TableIsTyped DEF Adding, AddedBy
<1>2. Bound(ts) = SumOver(b)
  BY DEF Bound
<1> HIDE DEF b
<1> QED BY <1>1, <1>2, AddedIsNatural, SumIsNatural, SumIsMonotone

LEMMA ScoreIsBounded ==
    ASSUME PruneTypes, NEW d \in Documents PROVE ScoreOf(d) <= Bound(Terms)
<1>1. \A t \in Terms : table.adds[d][t] = AddedBy(d, Terms)[t] + AddedBy(d, {})[t]
  BY TableIsTyped DEF AddedBy
<1>2. ScoreOf(d) = SumOver(AddedBy(d, Terms)) + SumOver(AddedBy(d, {}))
  BY <1>1, TableIsTyped, AddedIsNatural, SumOfSums DEF ScoreOf
<1>3. SumOver(AddedBy(d, {})) = 0
  BY SumOfNothing DEF AddedBy
<1> QED BY <1>2, <1>3, BoundIsABound, AddedIsNatural

\* What is known of a candidate's score encloses it.
LEMMA ScoreIsEnclosed ==
    ASSUME PruneTypes, CandidatesAreScanned, NEW xs, exact \subseteq xs, NEW d \in candidates
    PROVE  /\ Lower(d, xs) \in Nat /\ ScoreOf(d) \in Nat
           /\ Lower(d, xs) <= ScoreOf(d) /\ ScoreOf(d) <= Upper(d, xs)
BY ScoreIsNatural, ScoreIsSplit, AddedIsNatural, BoundIsABound DEF PruneTypes, Lower, Upper,
   CandidatesAreScanned

\* An unseen document of an open group can only get what is still to come.
LEMMA UnseenIsWithinBound ==
    ASSUME PruneTypes, UnseenHasNothing, NEW d \in Unseen, GroupOf(d) \notin closedGroups
    PROVE  ScoreOf(d) \in Nat /\ Bound(pendingTerms) \in Nat /\ ScoreOf(d) <= Bound(pendingTerms)
<1>1. d \in Documents
  BY DEF Unseen
<1>2. SumOver(AddedBy(d, Scanned)) = 0
  BY SumOfNothing DEF AddedBy, UnseenHasNothing
<1> QED BY <1>1, <1>2, ScoreIsSplit, BoundIsABound, ScoreIsNatural, AddedIsNatural

-----------------------------------------------------------------------------
(* The last place. *)
LEMMA LargestNumber ==
    ASSUME NEW V \in SUBSET Nat, V # {}, NEW m \in Nat, \A v \in V : v <= m
    PROVE  Max(V) \in V /\ \A v \in V : v <= Max(V)
<1> DEFINE T == {n \in Nat : \E v \in V : n = m - v}
<1>1. T \in SUBSET Nat /\ T # {}
  <2>1. PICK u \in V : u <= m
    OBVIOUS
  <2>2. m - u \in T
    BY <2>1
  <2> QED BY <2>2
<1>2. PICK x \in T : \A y \in T : x <= y
  <2> HIDE DEF T
  <2> QED BY <1>1, LeastNumber
<1>3. PICK v \in V : x = m - v
  BY <1>2
<1>4. ASSUME NEW u \in V PROVE v >= u
  BY <1>2, <1>3
<1>5. \E z \in V : \A u \in V : z >= u
  BY <1>4
<1>6. Max(V) \in V /\ \A u \in V : Max(V) >= u
  BY <1>5 DEF Max
<1> QED BY <1>6

\* Where the last place has a score, so many candidates come up to it.
LEMMA ThresholdIsReached ==
    ASSUME PruneTypes, CandidatesAreScanned, NEW xs, exact \subseteq xs, NEW g
    PROVE  /\ Threshold(g, xs) \in Nat
           /\ Threshold(g, xs) > 0 =>
                \E K \in SUBSET candidates :
                   /\ Cardinality(K) >= table.limit
                   /\ \A x \in K : GroupOf(x) = g /\ Lower(x, xs) >= Threshold(g, xs)
<1> DEFINE P == {x \in candidates : GroupOf(x) = g /\ Cardinality(Others(x, xs)) >= table.limit}
           V == {0} \cup {Lower(d, xs) : d \in P}
<1>1. \A d \in candidates : Lower(d, xs) \in Nat /\ Lower(d, xs) <= Bound(Terms) /\ Bound(Terms) \in Nat
  BY ScoreIsEnclosed, ScoreIsBounded, BoundIsABound DEF PruneTypes
<1>2. V \in SUBSET Nat /\ V # {} /\ 0 \in V
  BY <1>1
<1>3. \E m \in Nat : \A v \in V : v <= m
  <2>1. Bound(Terms) \in Nat
    BY BoundIsNatural
  <2>2. \A v \in V : v <= Bound(Terms)
    BY <1>1, <2>1
  <2> HIDE DEF V
  <2> QED BY <2>1, <2>2
<1>4. Threshold(g, xs) = Max(V)
  BY DEF Threshold
<1>5. Max(V) \in V
  <2> HIDE DEF V
  <2> QED BY <1>2, <1>3, LargestNumber
<1>6. ASSUME Threshold(g, xs) > 0
      PROVE  \E K \in SUBSET candidates :
                /\ Cardinality(K) >= table.limit
                /\ \A x \in K : GroupOf(x) = g /\ Lower(x, xs) >= Threshold(g, xs)
  <2>0. Max(V) # 0
    <3> HIDE DEF V
    <3> QED BY <1>4, <1>6
  <2>1. PICK d \in P : Lower(d, xs) = Threshold(g, xs)
    <3>1. PICK v \in V : v = Threshold(g, xs) /\ v # 0
      <4> HIDE DEF V
      <4> QED BY <1>4, <1>5, <2>0
    <3> QED BY <3>1
  <2>2. Others(d, xs) \in SUBSET candidates /\ Cardinality(Others(d, xs)) >= table.limit
    BY DEF Others
  <2>3. \A x \in Others(d, xs) : GroupOf(x) = g /\ Lower(x, xs) >= Threshold(g, xs)
    BY <2>1 DEF Others
  <2> QED BY <2>2, <2>3
<1> QED BY <1>2, <1>4, <1>5, <1>6

\* Whoever has so many above is not among the best.
LEMMA ManyAbove ==
    ASSUME PruneTypes, NEW d \in Documents, NEW K \in SUBSET Documents, Cardinality(K) >= table.limit,
           \A x \in K : GroupOf(x) = GroupOf(d) /\ ScoreOf(x) > ScoreOf(d)
    PROVE  d \notin Best(Documents)
BY PruneAssumption, FS_Subset, FS_CardinalityType, TableIsTyped DEF Beaters, Best

\* A document below the last place is not among the best.
LEMMA BelowTheLastPlace ==
    ASSUME PruneTypes, CandidatesAreScanned, NEW xs, exact \subseteq xs, NEW d \in Documents,
           ScoreOf(d) < Threshold(GroupOf(d), xs)
    PROVE  d \notin Best(Documents)
<1>1. Threshold(GroupOf(d), xs) \in Nat /\ ScoreOf(d) \in Nat
  BY ThresholdIsReached, ScoreIsNatural
<1>2. PICK K \in SUBSET candidates :
         /\ Cardinality(K) >= table.limit
         /\ \A x \in K : GroupOf(x) = GroupOf(d) /\ Lower(x, xs) >= Threshold(GroupOf(d), xs)
  BY <1>1, ThresholdIsReached
<1>3. \A x \in K : ScoreOf(x) > ScoreOf(d)
  BY <1>1, <1>2, ScoreIsEnclosed
<1>4. K \in SUBSET Documents
  BY DEF PruneTypes
<1> QED BY <1>2, <1>3, <1>4, ManyAbove

-----------------------------------------------------------------------------
(* The steps of the search. *)
LEMMA PruneStartsWell == PruneInit => PruneIInv
<1> SUFFICES ASSUME PruneInit PROVE PruneIInv
  OBVIOUS
<1>1. PruneTypes
  BY DEF PruneInit, PruneTypes
<1>2. \A d \in Documents, t \in Scanned : table.adds[d][t] = 0
  BY <1>1, TableIsTyped DEF PruneInit, Scanned
<1>3. CandidatesAreScanned /\ UnseenHasNothing /\ GivenUpIsBeaten /\ ChosenHoldsTheBest
  BY <1>2 DEF PruneInit, CandidatesAreScanned, UnseenHasNothing, Unseen, GivenUpIsBeaten, ChosenHoldsTheBest
<1> QED BY <1>1, <1>3 DEF PruneIInv

\* Dropping and closing give up none of the best.
LEMMA PruneKeeps == ASSUME PruneIInv, Prune PROVE PruneIInv'
<1>1. PICK seeds \in SUBSET Seeds :
         /\ candidates' = candidates \ {d \in candidates : Hopeless(d, exact \cup seeds)}
         /\ dead' = dead \cup {d \in candidates : Hopeless(d, exact \cup seeds)}
         /\ exact' = (exact \cup seeds) \ {d \in candidates : Hopeless(d, exact \cup seeds)}
         /\ closedGroups' = closedGroups \cup {g \in table.groups : Closes(g, exact \cup seeds)}
  BY DEF Prune
<1>2. /\ phase' = "take" /\ pendingTerms # {} /\ UNCHANGED <<table, pendingTerms, partial, chosen>>
      /\ PruneTypes /\ CandidatesAreScanned /\ UnseenHasNothing /\ GivenUpIsBeaten
  BY DEF Prune, PruneIInv
<1>3. PICK xs : xs = exact \cup seeds
  OBVIOUS
<1>4. exact \subseteq xs /\ xs \subseteq candidates
  BY <1>2, <1>3 DEF Seeds, PruneTypes
<1>5. PruneTypes'
  BY <1>1, <1>2, <1>3, <1>4 DEF PruneTypes
<1>6. CandidatesAreScanned'
  BY <1>1, <1>2, <1>3 DEF CandidatesAreScanned, AddedBy, Scanned
<1>7. Unseen' = Unseen
  BY <1>1, <1>2 DEF Unseen, PruneTypes
<1>8. UnseenHasNothing'
  BY <1>1, <1>2, <1>7 DEF UnseenHasNothing, GroupOf, Scanned
<1>9. \A ds : Best(ds)' = Best(ds)
  BY <1>2 DEF Best, ScoreOf, GroupOf
<1>10. ASSUME NEW d \in candidates, Hopeless(d, xs) PROVE d \notin Best(Documents)
  <2>1. d \in Documents
    BY <1>2 DEF PruneTypes
  <2>2. /\ ScoreOf(d) \in Nat /\ ScoreOf(d) <= Upper(d, xs) /\ Upper(d, xs) < Threshold(GroupOf(d), xs)
        /\ Threshold(GroupOf(d), xs) \in Nat /\ Upper(d, xs) \in Nat
    BY <1>2, <1>4, <1>10, ScoreIsEnclosed, ThresholdIsReached, BoundIsNatural DEF Hopeless, Upper, PruneTypes
  <2> QED BY <1>2, <1>4, <2>1, <2>2, BelowTheLastPlace
<1>11. ASSUME NEW d \in Unseen, GroupOf(d) \in closedGroups' PROVE d \notin Best(Documents)
  <2>1. CASE GroupOf(d) \in closedGroups
    BY <1>2, <2>1 DEF GivenUpIsBeaten
  <2>2. CASE GroupOf(d) \notin closedGroups
    <3>1. d \in Documents /\ Closes(GroupOf(d), xs)
      BY <1>1, <1>3, <1>11, <2>2 DEF Unseen
    <3>2. /\ ScoreOf(d) \in Nat /\ Bound(pendingTerms) \in Nat /\ ScoreOf(d) <= Bound(pendingTerms)
          /\ Threshold(GroupOf(d), xs) > Bound(pendingTerms) /\ Threshold(GroupOf(d), xs) \in Nat
      BY <1>2, <1>4, <2>2, <3>1, UnseenIsWithinBound, ThresholdIsReached DEF Closes
    <3>3. ScoreOf(d) < Threshold(GroupOf(d), xs)
      BY <3>2
    <3> QED BY <1>2, <1>4, <3>1, <3>3, BelowTheLastPlace
  <2> QED BY <2>1, <2>2
<1>12. GivenUpIsBeaten'
  BY <1>1, <1>2, <1>3, <1>10, <1>7, <1>9, <1>11 DEF GivenUpIsBeaten, GroupOf
<1>13. ChosenHoldsTheBest'
  BY <1>2 DEF ChosenHoldsTheBest
<1> QED BY <1>5, <1>6, <1>8, <1>12, <1>13 DEF PruneIInv

\* What a scan of a term adds to a candidate.
LEMMA ScanningAdds ==
    ASSUME PruneTypes, NEW d \in Documents, NEW s \in pendingTerms
    PROVE  SumOver(AddedBy(d, Scanned \cup {s})) = SumOver(AddedBy(d, Scanned)) + table.adds[d][s]
<1>1. /\ s \in Terms /\ s \notin Scanned /\ table.adds[d][s] \in Nat
  BY TableIsTyped DEF PruneTypes, Scanned
<1> DEFINE one == [t \in Terms |-> IF t = s THEN table.adds[d][s] ELSE 0]
<1>2. Adding(one) /\ SumOver(one) = table.adds[d][s]
  <2>1. one[s] = table.adds[d][s] /\ \A t \in Terms \ {s} : one[t] = 0
    BY <1>1
  <2>2. Adding(one)
    BY <1>1, <2>1 DEF Adding
  <2> HIDE DEF one
  <2> QED BY <1>1, <2>1, <2>2, SumOfOne
<1>3. \A t \in Terms : AddedBy(d, Scanned \cup {s})[t] = AddedBy(d, Scanned)[t] + one[t]
  BY <1>1, TableIsTyped DEF AddedBy
<1>4. Adding(AddedBy(d, Scanned \cup {s})) /\ Adding(AddedBy(d, Scanned))
  BY AddedIsNatural
<1>5. SumOver(AddedBy(d, Scanned \cup {s})) = SumOver(AddedBy(d, Scanned)) + SumOver(one)
  <2> HIDE DEF one
  <2> QED BY <1>2, <1>3, <1>4, SumOfSums
<1> QED BY <1>2, <1>5

\* With no term pending, what is known of a candidate is its score.
LEMMA WholeScores ==
    ASSUME PruneTypes, CandidatesAreScanned, pendingTerms = {}, NEW d \in candidates
    PROVE  Lower(d, exact) = ScoreOf(d)
<1>1. d \in Documents
  BY DEF PruneTypes
<1>2. SumOver(AddedBy(d, pendingTerms)) = 0
  BY SumOfNothing DEF AddedBy
<1>3. ScoreOf(d) = SumOver(AddedBy(d, Scanned))
  BY <1>1, <1>2, ScoreIsSplit, AddedIsNatural
<1> QED BY <1>3 DEF Lower, CandidatesAreScanned

LEMMA ScanPendingKeeps == ASSUME PruneIInv, NEW s \in Terms, ScanPending(s) PROVE PruneIInv'
<1>1. /\ s \in pendingTerms /\ closedGroups = table.groups /\ phase = "take" /\ phase' = "prune"
      /\ pendingTerms' = pendingTerms \ {s} /\ Adds(candidates, s)
      /\ UNCHANGED <<table, candidates, dead, exact, closedGroups, chosen>>
      /\ PruneTypes /\ CandidatesAreScanned /\ UnseenHasNothing /\ GivenUpIsBeaten
  BY DEF ScanPending, PruneIInv
<1>2. Scanned' = Scanned \cup {s} /\ Unseen' = Unseen
  BY <1>1 DEF Scanned, Unseen, PruneTypes
<1>3. \A d \in Documents : partial'[d] = partial[d] + IF d \in candidates \ exact THEN table.adds[d][s] ELSE 0
  BY <1>1 DEF Adds
<1>4. partial' \in [Documents -> Nat]
  BY <1>1, TableIsTyped, <1>3 DEF PruneTypes, Adds
<1>5. PruneTypes'
  BY <1>1, <1>4 DEF PruneTypes
<1>6. CandidatesAreScanned'
  <2>1. ASSUME NEW d \in candidates \ exact PROVE partial'[d] = SumOver(AddedBy(d, Scanned \cup {s}))
    BY <1>1, <1>3, ScanningAdds DEF PruneTypes, CandidatesAreScanned
  <2>2. \A d, ts : AddedBy(d, ts)' = AddedBy(d, ts')
    BY <1>1 DEF AddedBy
  <2> QED BY <1>1, <1>2, <2>1, <2>2 DEF CandidatesAreScanned, AddedBy
<1>7. UnseenHasNothing'
  BY <1>1, <1>3, TableIsTyped, <1>2 DEF Unseen, UnseenHasNothing, GroupOf
<1>8. GivenUpIsBeaten'
  BY <1>1, <1>2 DEF GivenUpIsBeaten, Best, ScoreOf, GroupOf
<1>9. ChosenHoldsTheBest'
  BY <1>1 DEF ChosenHoldsTheBest
<1> QED BY <1>5, <1>6, <1>7, <1>8, <1>9 DEF PruneIInv

LEMMA FinishCandidatesKeeps == ASSUME PruneIInv, FinishCandidates PROVE PruneIInv'
<1>1. /\ closedGroups = table.groups /\ phase' = "prune" /\ exact' = candidates /\ pendingTerms' = {}
      /\ UNCHANGED <<table, candidates, dead, partial, closedGroups, chosen>>
      /\ PruneTypes /\ CandidatesAreScanned /\ UnseenHasNothing /\ GivenUpIsBeaten
  BY DEF FinishCandidates, PruneIInv
<1>2. PruneTypes' /\ CandidatesAreScanned' /\ ChosenHoldsTheBest'
  BY <1>1 DEF PruneTypes, CandidatesAreScanned, ChosenHoldsTheBest
<1>3. Unseen' = Unseen /\ \A d \in Unseen : GroupOf(d) \in closedGroups
  BY <1>1, TableIsTyped DEF Unseen
<1>4. UnseenHasNothing'
  BY <1>1, <1>3 DEF UnseenHasNothing, GroupOf
<1>5. GivenUpIsBeaten'
  BY <1>1, <1>3 DEF GivenUpIsBeaten, Best, ScoreOf, GroupOf
<1> QED BY <1>2, <1>4, <1>5 DEF PruneIInv

LEMMA SomeTermIsPending ==
    ASSUME PruneTypes, pendingTerms # {} PROVE Min(pendingTerms) \in pendingTerms
<1>1. pendingTerms \in SUBSET Nat
  BY PruneAssumption DEF PruneTypes, Terms
<1>2. \E x \in pendingTerms : \A y \in pendingTerms : x <= y
  BY <1>1, LeastNumber
<1> QED BY <1>2 DEF Min

\* The next term brings every document of an open group that has it.
LEMMA TakeTermKeeps == ASSUME PruneIInv, TakeTerm PROVE PruneIInv'
<1>1. PICK s : s = Min(pendingTerms)
  OBVIOUS
<1>2. /\ phase = "take" /\ phase' = "prune"
      /\ candidates' = candidates \cup NewDocuments(s) /\ pendingTerms' = pendingTerms \ {s}
      /\ \/ Adds(candidates', s) /\ UNCHANGED exact
         \/ exact' = candidates' /\ UNCHANGED partial
      /\ UNCHANGED <<table, dead, closedGroups, chosen>>
      /\ PruneTypes /\ CandidatesAreScanned /\ UnseenHasNothing /\ GivenUpIsBeaten
  BY <1>1 DEF TakeTerm, PruneIInv
<1>3. s \in pendingTerms /\ s \in Terms
  BY <1>1, <1>2, SomeTermIsPending DEF PruneTypes
<1>4. Scanned' = Scanned \cup {s} /\ Unseen' \subseteq Unseen /\ NewDocuments(s) \subseteq Unseen
  BY <1>2, <1>3 DEF Scanned, Unseen, PruneTypes, NewDocuments
<1>5. \A d \in Unseen' : GroupOf(d) \notin closedGroups => table.adds[d][s] = 0
  BY <1>2, <1>3, TableIsTyped DEF Unseen, NewDocuments
<1>6. GivenUpIsBeaten'
  BY <1>2, <1>4 DEF GivenUpIsBeaten, Best, ScoreOf, GroupOf
<1>7. ChosenHoldsTheBest'
  BY <1>2 DEF ChosenHoldsTheBest
<1>8. \A d \in Unseen' : GroupOf(d) \notin closedGroups => \A t \in Scanned' : table.adds[d][t] = 0
  BY <1>2, <1>4, <1>5 DEF UnseenHasNothing
<1>9. CASE Adds(candidates', s) /\ UNCHANGED exact
  <2>1. \A d \in Documents : partial'[d] = partial[d] + IF d \in candidates' \ exact THEN table.adds[d][s] ELSE 0
    BY <1>9 DEF Adds
  <2>2. partial' \in [Documents -> Nat]
    BY <1>2, <1>3, TableIsTyped, <2>1, <1>9 DEF PruneTypes, Adds
  <2>3. PruneTypes'
    BY <1>2, <1>9, <2>2 DEF PruneTypes, NewDocuments
  <2>4. ASSUME NEW d \in candidates' \ exact PROVE partial'[d] = SumOver(AddedBy(d, Scanned \cup {s}))
    <3>1. d \in Documents
      BY <1>2 DEF PruneTypes, NewDocuments
    <3>2. partial[d] = SumOver(AddedBy(d, Scanned))
      BY <1>2, <2>4, <1>4, SumOfNothing DEF CandidatesAreScanned, NewDocuments, UnseenHasNothing,
         AddedBy
    <3> QED BY <1>2, <1>3, <2>1, <3>1, <3>2, ScanningAdds
  <2>5. CandidatesAreScanned'
    BY <1>2, <1>4, <1>9, <2>4 DEF CandidatesAreScanned, AddedBy
  <2>6. UnseenHasNothing'
    BY <1>4, <1>2, <2>1, <1>8 DEF Unseen, UnseenHasNothing, GroupOf
  <2> QED BY <1>6, <1>7, <2>3, <2>5, <2>6 DEF PruneIInv
<1>10. CASE exact' = candidates' /\ UNCHANGED partial
  <2>1. PruneTypes'
    BY <1>2, <1>10 DEF PruneTypes, NewDocuments
  <2>2. CandidatesAreScanned'
    BY <1>10 DEF CandidatesAreScanned
  <2>3. UnseenHasNothing'
    BY <1>2, <1>4, <1>10, <1>8 DEF UnseenHasNothing, GroupOf
  <2> QED BY <1>6, <1>7, <2>1, <2>2, <2>3 DEF PruneIInv
<1> QED BY <1>2, <1>9, <1>10

\* Everybody's whole score is known, and the best are above the last place.
LEMMA ChooseKeeps == ASSUME PruneIInv, Choose PROVE PruneIInv'
<1>1. /\ pendingTerms = {} /\ phase' = "chosen"
      /\ chosen' = {d \in candidates : Lower(d, exact) >= Threshold(GroupOf(d), exact)}
      /\ UNCHANGED <<table, pendingTerms, candidates, dead, partial, exact, closedGroups>>
      /\ PruneTypes /\ CandidatesAreScanned /\ UnseenHasNothing /\ GivenUpIsBeaten
  BY DEF Choose, PruneIInv
<1>2. PruneTypes' /\ CandidatesAreScanned' /\ UnseenHasNothing' /\ GivenUpIsBeaten'
  BY <1>1 DEF PruneTypes, CandidatesAreScanned, AddedBy, Scanned, UnseenHasNothing, Unseen, GroupOf, GivenUpIsBeaten,
     Best, ScoreOf
<1>3. ASSUME NEW d \in Best(Documents) PROVE d \in chosen'
  <2>1. d \in Documents /\ d \notin dead /\ ScoreOf(d) > 0 /\ ScoreOf(d) \in Nat
    BY <1>1, ScoreIsNatural DEF Best, GivenUpIsBeaten
  <2>2. d \in candidates
    BY <2>1, <1>1, UnseenIsWithinBound, SumOfNothing DEF Unseen, GivenUpIsBeaten, Bound
  <2>3. Lower(d, exact) = ScoreOf(d)
    BY <1>1, <2>2, WholeScores
  <2>4. ~(ScoreOf(d) < Threshold(GroupOf(d), exact)) /\ Threshold(GroupOf(d), exact) \in Nat
    BY <1>1, <2>1, BelowTheLastPlace, ThresholdIsReached
  <2> QED BY <1>1, <2>1, <2>2, <2>3, <2>4
<1>4. ChosenHoldsTheBest'
  BY <1>1, <1>3 DEF Best, ScoreOf, GroupOf, ChosenHoldsTheBest
<1> QED BY <1>2, <1>4 DEF PruneIInv

LEMMA PruneStutters == ASSUME PruneIInv, UNCHANGED pruneVars PROVE PruneIInv'
BY DEF pruneVars, PruneIInv, PruneTypes, CandidatesAreScanned, AddedBy, Scanned, UnseenHasNothing, Unseen, GroupOf,
   GivenUpIsBeaten, Best, ScoreOf, ChosenHoldsTheBest

LEMMA PruneInvHolds == PruneSpec => []PruneIInv
<1>1. ASSUME PruneIInv, [PruneNext]_pruneVars PROVE PruneIInv'
  BY <1>1, PruneKeeps, ScanPendingKeeps, FinishCandidatesKeeps, TakeTermKeeps, ChooseKeeps, PruneStutters DEF PruneNext
<1> QED BY <1>1, PruneStartsWell, PTL DEF PruneSpec

-----------------------------------------------------------------------------
(* The best of the chosen are the best of all. *)
LEMMA TheBestAreEnough ==
    ASSUME PruneTypes, NEW d \in Documents, Cardinality(Beaters(d)) >= table.limit
    PROVE  Cardinality(Beaters(d) \cap Best(Documents)) >= table.limit
<1> DEFINE B == Beaters(d)
           A == B \cap Best(Documents)
<1>1. /\ IsFiniteSet(B) /\ IsFiniteSet(A) /\ Cardinality(B) \in Nat /\ Cardinality(A) \in Nat
      /\ B \subseteq Documents /\ table.limit \in Nat
  BY PruneAssumption, FS_Subset, FS_CardinalityType, TableIsTyped DEF Beaters
<1>2. SUFFICES ASSUME Cardinality(A) < table.limit PROVE FALSE
  BY <1>1
<1>3. B \ A # {}
  BY <1>1, <1>2
<1> DEFINE T == {n \in Nat : \E x \in B \ A : n = Bound(Terms) - ScoreOf(x)}
<1>4. \A x \in B : ScoreOf(x) \in Nat /\ Bound(Terms) \in Nat /\ ScoreOf(x) <= Bound(Terms)
  BY <1>1, ScoreIsNatural, BoundIsNatural, ScoreIsBounded
<1>5. T \in SUBSET Nat /\ T # {}
  BY <1>3, <1>4
<1>6. PICK m \in T : \A n \in T : m <= n
  <2> HIDE DEF T
  <2> QED BY <1>5, LeastNumber
<1>7. PICK x \in B \ A : m = Bound(Terms) - ScoreOf(x)
  BY <1>6
<1>8. \A y \in B \ A : ScoreOf(y) <= ScoreOf(x)
  BY <1>4, <1>6, <1>7
<1>9. Beaters(x) \in SUBSET A
  <2>1. ASSUME NEW y \in Beaters(x) PROVE y \in A
    <3>1. y \in Documents /\ GroupOf(y) = GroupOf(x) /\ ScoreOf(y) > ScoreOf(x)
      BY DEF Beaters
    <3>2. GroupOf(x) = GroupOf(d) /\ ScoreOf(x) > ScoreOf(d) /\ ScoreOf(d) \in Nat /\ ScoreOf(x) \in Nat
          /\ ScoreOf(y) \in Nat
      BY <1>1, <3>1, ScoreIsNatural DEF Beaters
    <3>3. y \in B
      BY <3>1, <3>2 DEF Beaters
    <3> HIDE DEF A, B
    <3> QED BY <1>8, <3>1, <3>2, <3>3
  <2> QED BY <2>1
<1>10. Cardinality(Beaters(x)) <= Cardinality(A) /\ Cardinality(Beaters(x)) \in Nat
  <2> HIDE DEF A
  <2> QED BY <1>1, <1>9, FS_Subset, FS_CardinalityType
<1>11. x \in Best(Documents)
  <2>1. x \in Documents /\ ScoreOf(x) > 0
    BY <1>1, <1>4, ScoreIsNatural DEF Beaters
  <2>2. Cardinality(Beaters(x)) < table.limit
    <3> HIDE DEF A
    <3> QED BY <1>1, <1>2, <1>10
  <2> QED BY <2>1, <2>2 DEF Best, Beaters
<1> QED BY <1>7, <1>11

LEMMA ChosenIsExact == ASSUME PruneIInv PROVE PruningIsExact
<1>1. SUFFICES ASSUME phase = "chosen"
               PROVE  Best(chosen) = Best(Documents) /\ \A d \in chosen : Lower(d, exact) = ScoreOf(d)
  BY DEF PruningIsExact
<1>2. /\ PruneTypes /\ CandidatesAreScanned /\ pendingTerms = {}
      /\ chosen \subseteq candidates /\ chosen \subseteq Documents /\ Best(Documents) \subseteq chosen
      /\ IsFiniteSet(Documents)
  BY <1>1, PruneAssumption DEF PruneIInv, PruneTypes, ChosenHoldsTheBest
<1>3. \A d \in chosen : Lower(d, exact) = ScoreOf(d)
  BY <1>2, WholeScores
<1> DEFINE Above(d) == {x \in chosen : GroupOf(x) = GroupOf(d) /\ ScoreOf(x) > ScoreOf(d)}
<1>4. ASSUME NEW d \in Documents
      PROVE  /\ Above(d) \in SUBSET Beaters(d) /\ IsFiniteSet(Beaters(d)) /\ IsFiniteSet(Above(d))
             /\ Cardinality(Above(d)) <= Cardinality(Beaters(d))
             /\ Cardinality(Above(d)) \in Nat /\ Cardinality(Beaters(d)) \in Nat
  <2>1. Above(d) \in SUBSET Beaters(d) /\ Beaters(d) \in SUBSET Documents
    BY <1>2 DEF Beaters
  <2> HIDE DEF Above
  <2> QED BY <1>2, <2>1, FS_Subset, FS_CardinalityType
<1>5. ASSUME NEW d \in Best(Documents) PROVE d \in Best(chosen)
  <2>1. d \in Documents /\ d \in chosen /\ ScoreOf(d) > 0 /\ Cardinality(Beaters(d)) < table.limit
    BY <1>2 DEF Best, Beaters
  <2>2. Cardinality(Above(d)) < table.limit
    <3>1. table.limit \in Nat
      BY <1>2, <2>1, TableIsTyped
    <3> HIDE DEF Above
    <3> QED BY <1>4, <2>1, <3>1
  <2> QED BY <2>1, <2>2 DEF Best
<1>6. ASSUME NEW d \in Best(chosen) PROVE d \in Best(Documents)
  <2>1. d \in chosen /\ d \in Documents /\ ScoreOf(d) > 0 /\ Cardinality(Above(d)) < table.limit
    BY <1>2 DEF Best
  <2>2. SUFFICES ASSUME Cardinality(Beaters(d)) >= table.limit PROVE FALSE
    <3>1. table.limit \in Nat /\ Cardinality(Beaters(d)) \in Nat
      BY <1>2, <1>4, <2>1, TableIsTyped
    <3> QED BY <2>1, <3>1 DEF Best, Beaters
  <2>3. Cardinality(Beaters(d) \cap Best(Documents)) >= table.limit
    BY <1>2, <2>1, <2>2, TheBestAreEnough
  <2>4. Beaters(d) \cap Best(Documents) \in SUBSET Above(d)
    BY <1>2 DEF Beaters
  <2>5. /\ Cardinality(Beaters(d) \cap Best(Documents)) <= Cardinality(Above(d))
        /\ Cardinality(Beaters(d) \cap Best(Documents)) \in Nat /\ Cardinality(Above(d)) \in Nat
    <3> HIDE DEF Above
    <3> QED BY <1>4, <2>1, <2>4, FS_Subset, FS_CardinalityType
  <2>6. table.limit \in Nat
    BY <1>2, <2>1, TableIsTyped
  <2> HIDE DEF Above
  <2> QED BY <2>1, <2>3, <2>5, <2>6
<1> QED BY <1>3, <1>5, <1>6

\* The pruned search finds exactly what scoring every document finds, with the
\* ties of the last place and whole scores: for any documents, terms and scores,
\* whichever way the estimates of cost send it and whatever it tokenises again.
THEOREM PrunedSearchIsExact == PruneSpec => []PruningIsExact
BY PruneInvHolds, ChosenIsExact, PTL


-----------------------------------------------------------------------------
(* The node index: the inductive invariant.                                *)

KeyIsSettled(k) ==
    IF entry[k] = NoEntry THEN Reached(k) => nodeRow[k] = NoEntry
    ELSE /\ nodeRow[k] # NoEntry
         /\ entry[k] = [rev |-> nodeRow[k].rev, pack |-> nodeRow[k].pack, chars |-> indexMeta.chars]

EntriesAreCounted == indexed = Cardinality(Present(entry))

\* Without an index no key is listed.
DroppedOwesNothing == indexMeta = NoEntry => owed = {}

\* A table made anew is found by its count, before anybody serves.
RebuiltIsSeen ==
    rebuilt => /\ \A p \in Openers : opened[p] = "closed"
               /\ indexMeta # NoEntry /\ indexMeta.state = "ready" /\ owed = {}
               /\ Cardinality(Present(nodeRow)) # indexed

KeysAreSettled ==
    indexMeta # NoEntry /\ ~rebuilt => \A k \in NodeKeys \ owed : KeyIsSettled(k)

IndexIInv ==
    /\ NodeIndexTypeOK /\ EntriesAreCounted /\ DroppedOwesNothing /\ RebuiltIsSeen
    /\ KeysAreSettled /\ SkipsAreNoted

-----------------------------------------------------------------------------
(* The node index: lemmas about the operators.                             *)

LEMMA PresentIsFinite ==
    ASSUME NEW f
    PROVE  /\ IsFiniteSet(Present(f)) /\ Present(f) \in SUBSET NodeKeys
           /\ Cardinality(Present(f)) \in 0 .. Cardinality(NodeKeys)
BY IndexAssumption, FS_CardinalityType, FS_Subset DEF Present

LEMMA NoneIsPresent ==
    ASSUME NEW f, \A k \in NodeKeys : f[k] = NoEntry
    PROVE  Present(f) = {} /\ Cardinality(Present(f)) = 0
BY FS_EmptySet DEF Present

\* A finite set of keys has a last one, and if it is not empty a first one.
LEMMA FirstKey ==
    ASSUME NEW ks \in SUBSET NodeKeys, ks # {}
    PROVE  \E k \in ks : \A x \in ks : k <= x
BY IndexAssumption, LeastNumber

LEMMA LastKey ==
    ASSUME NEW ks \in SUBSET NodeKeys, ks # {}
    PROVE  Max(ks) \in ks /\ \A x \in ks : x <= Max(ks)
<1>1. ks \in SUBSET Nat /\ IsFiniteSet(ks)
  BY IndexAssumption, FS_Subset
<1> DEFINE Above(k) == {x \in ks : x > k}
           Counts == {Cardinality(Above(k)) : k \in ks}
<1>2. \A k \in ks : IsFiniteSet(Above(k)) /\ Cardinality(Above(k)) \in Nat
  <2> SUFFICES ASSUME NEW k \in ks PROVE IsFiniteSet(Above(k)) /\ Cardinality(Above(k)) \in Nat
    OBVIOUS
  <2>1. Above(k) \in SUBSET ks
    OBVIOUS
  <2> HIDE DEF Above
  <2> QED BY <1>1, <2>1, FS_Subset, FS_CardinalityType
<1>3. Counts \in SUBSET Nat /\ Counts # {}
  BY <1>2
<1>4. PICK n \in Counts : \A m \in Counts : n <= m
  <2> HIDE DEF Counts
  <2> QED BY <1>3, LeastNumber
<1>5. PICK k \in ks : n = Cardinality(Above(k))
  BY <1>4
<1>6. ASSUME NEW y \in ks, ~(y <= k) PROVE FALSE
  <2>0. k \in Nat /\ y \in Nat /\ y > k /\ \A x \in ks : x \in Nat
    BY <1>1, <1>6
  <2>1. Above(y) \in SUBSET Above(k) /\ y \in Above(k) /\ y \notin Above(y)
    <3>1. ASSUME NEW x \in Above(y) PROVE x \in Above(k)
      BY <2>0
    <3>2. y \in Above(k) /\ y \notin Above(y)
      BY <2>0
    <3> HIDE DEF Above
    <3> QED BY <3>1, <3>2
  <2>2. Cardinality(Above(k)) <= Cardinality(Above(y)) /\ Cardinality(Above(y)) \in Nat
        /\ Cardinality(Above(k)) \in Nat
    BY <1>2, <1>4, <1>5
  <2> HIDE DEF Above
  <2>3. Cardinality(Above(y)) <= Cardinality(Above(k))
        /\ (Cardinality(Above(k)) = Cardinality(Above(y)) => Above(k) = Above(y))
    BY <1>2, <2>1, FS_Subset
  <2> QED BY <2>1, <2>2, <2>3
<1>7. \E m \in ks : \A y \in ks : m >= y
  BY <1>1, <1>6
<1>8. Max(ks) \in ks /\ \A y \in ks : Max(ks) >= y
  BY <1>7 DEF Max
<1> QED BY <1>1, <1>8

\* What reindexing some keys makes of the entries and their count.
LEMMA ReindexFacts ==
    ASSUME NodeIndexTypeOK, EntriesAreCounted, NEW p \in Openers, NEW ks \in SUBSET NodeKeys,
           nodeRow' \in [NodeKeys -> RowsOfNodes \cup {NoEntry}], Writable(p), Reindex(p, ks)
    PROVE  /\ entry' \in [NodeKeys -> EntriesOf \cup {NoEntry}]
           /\ \A k \in NodeKeys : entry'[k] = IF k \in ks THEN EntryOf(p, nodeRow'[k]) ELSE entry[k]
           /\ EntriesAreCounted' /\ indexed' \in 0 .. Cardinality(NodeKeys)
<1>1. indexMeta \in Metas /\ indexMeta.chars \in Chars
  BY DEF NodeIndexTypeOK, Writable, Metas
<1>2. ASSUME NEW k \in NodeKeys PROVE EntryOf(p, nodeRow'[k]) \in EntriesOf \cup {NoEntry}
  BY <1>1 DEF EntryOf, EntriesOf, RowsOfNodes
<1>3. /\ entry' \in [NodeKeys -> EntriesOf \cup {NoEntry}]
      /\ \A k \in NodeKeys : entry'[k] = IF k \in ks THEN EntryOf(p, nodeRow'[k]) ELSE entry[k]
  BY <1>2 DEF Reindex, NodeIndexTypeOK
<1> DEFINE old == Present(entry)
           new == {k \in ks : nodeRow'[k] # NoEntry}
<1>4. ASSUME NEW k \in NodeKeys PROVE EntryOf(p, nodeRow'[k]) # NoEntry <=> nodeRow'[k] # NoEntry
  BY <1>1, IndexAssumption DEF EntryOf, EntriesOf, RowsOfNodes
<1>5. Present(entry') = (old \ ks) \cup new
  BY <1>3, <1>4 DEF Present
<1>6. IsFiniteSet(old) /\ Cardinality(old) \in Nat
  BY PresentIsFinite
<1>7. IsFiniteSet(new) /\ Cardinality(new) \in Nat
  <2>1. new \in SUBSET NodeKeys
    OBVIOUS
  <2> HIDE DEF new
  <2> QED BY <2>1, IndexAssumption, FS_Subset, FS_CardinalityType
<1>8. (old \ ks) \cap new = {}
  OBVIOUS
<1>9. indexed' = Cardinality(old) - Cardinality(old \cap ks) + Cardinality(new)
  BY DEF Reindex, EntriesAreCounted
<1> HIDE DEF old, new
<1>10. /\ IsFiniteSet(old \ ks)
       /\ Cardinality(old \ ks) = Cardinality(old) - Cardinality(old \cap ks)
  BY <1>6, FS_Difference
<1>11. Cardinality((old \ ks) \cup new) = Cardinality(old \ ks) + Cardinality(new) - Cardinality({})
  BY <1>7, <1>8, <1>10, FS_Union
<1>12. Cardinality(old \ ks) \in Nat
  BY <1>10, FS_CardinalityType
<1>13. indexed' = Cardinality(Present(entry'))
  BY <1>5, <1>7, <1>9, <1>10, <1>11, <1>12, FS_EmptySet
<1>14. Cardinality(Present(entry')) \in 0 .. Cardinality(NodeKeys)
  BY PresentIsFinite
<1> QED BY <1>3, <1>13, <1>14 DEF EntriesAreCounted

\* A reindexing settles its keys, and leaves the others as they were.
LEMMA ReindexSettles ==
    ASSUME IndexIInv, ~rebuilt, NEW p \in Openers, NEW ks \in SUBSET NodeKeys,
           Writable(p), Reindex(p, ks), owed' = owed \ ks,
           nodeRow' \in [NodeKeys -> RowsOfNodes \cup {NoEntry}],
           \A k \in NodeKeys \ ks : nodeRow'[k] = nodeRow[k],
           indexMeta' # NoEntry, indexMeta'.chars = indexMeta.chars,
           \A k \in NodeKeys \ ks : Reached(k)' => Reached(k) \/ nodeRow[k] = NoEntry
    PROVE  /\ entry' \in [NodeKeys -> EntriesOf \cup {NoEntry}]
           /\ EntriesAreCounted' /\ indexed' \in 0 .. Cardinality(NodeKeys)
           /\ KeysAreSettled'
<1>1. /\ entry' \in [NodeKeys -> EntriesOf \cup {NoEntry}]
      /\ \A k \in NodeKeys : entry'[k] = IF k \in ks THEN EntryOf(p, nodeRow'[k]) ELSE entry[k]
      /\ EntriesAreCounted' /\ indexed' \in 0 .. Cardinality(NodeKeys)
  BY ReindexFacts DEF IndexIInv
<1>2. ASSUME NEW k \in NodeKeys, k \notin owed' PROVE KeyIsSettled(k)'
  <2>1. CASE k \in ks
    <3>1. entry'[k] = EntryOf(p, nodeRow'[k])
      BY <1>1, <2>1
    <3>2. CASE nodeRow'[k] = NoEntry
      BY <3>1, <3>2 DEF EntryOf, KeyIsSettled
    <3>3. CASE nodeRow'[k] # NoEntry
      <4>1. entry'[k] = [rev |-> nodeRow'[k].rev, pack |-> nodeRow'[k].pack, chars |-> indexMeta'.chars]
        BY <3>1, <3>3 DEF EntryOf
      <4>2. indexMeta.chars \in Chars
        BY DEF Writable, IndexIInv, NodeIndexTypeOK, Metas
      <4>3. entry'[k] \in EntriesOf
        BY <3>3, <4>1, <4>2 DEF EntriesOf, RowsOfNodes
      <4>4. entry'[k] # NoEntry
        BY <4>3, IndexAssumption
      <4> QED BY <3>3, <4>1, <4>4 DEF KeyIsSettled
    <3> QED BY <3>2, <3>3
  <2>2. CASE k \notin ks
    BY <1>1, <1>2, <2>2 DEF IndexIInv, KeysAreSettled, Writable, KeyIsSettled
  <2> QED BY <2>1, <2>2
<1>3. \A k \in NodeKeys \ owed' : KeyIsSettled(k)'
  BY <1>2
<1>4. KeysAreSettled'
  BY <1>3 DEF KeysAreSettled
<1> QED BY <1>1, <1>4

\* What an index begun anew holds.
LEMMA FreshIndex ==
    ASSUME IndexIInv, NEW p \in Openers, NEW s \in {"backfill", "ready"},
           s = "ready" => Present(nodeRow) = {}, nodeRow' = nodeRow,
           entry' = [k \in NodeKeys |-> NoEntry], indexed' = 0, owed' = {},
           indexMeta' = NewMeta(p, s)
    PROVE  /\ entry' \in [NodeKeys -> EntriesOf \cup {NoEntry}]
           /\ indexMeta' \in Metas /\ indexed' \in 0 .. Cardinality(NodeKeys)
           /\ EntriesAreCounted' /\ KeysAreSettled' /\ DroppedOwesNothing'
<1>1. entry' \in [NodeKeys -> EntriesOf \cup {NoEntry}] /\ EntriesAreCounted'
  BY NoneIsPresent DEF EntriesAreCounted
<1>2. settings[p].format \in Formats /\ settings[p].chars \in Chars
  BY DEF IndexIInv, NodeIndexTypeOK, Formats, Chars
<1>3. indexMeta' \in Metas
  BY <1>2 DEF NewMeta, Metas
<1>4. indexed' \in 0 .. Cardinality(NodeKeys)
  BY FS_CardinalityType, IndexAssumption
<1>5. ASSUME NEW k \in NodeKeys, Reached(k)' PROVE nodeRow[k] = NoEntry
  BY IndexAssumption, <1>5 DEF NewMeta, Reached, Present
<1>6. KeysAreSettled'
  BY <1>5 DEF KeysAreSettled, KeyIsSettled
<1> QED BY <1>1, <1>3, <1>4, <1>6 DEF DroppedOwesNothing

-----------------------------------------------------------------------------
(* The node index: one lemma per action.                                   *)

LEMMA IndexStartsSound == IndexInit => IndexIInv
<1> SUFFICES ASSUME IndexInit PROVE IndexIInv
  OBVIOUS
<1>0. MaxNodeWrites \in Nat /\ MaxFaults \in Nat /\ Cardinality(NodeKeys) \in Nat
  BY IndexAssumption, FS_CardinalityType
<1>1. nodeRow \in [NodeKeys -> RowsOfNodes \cup {NoEntry}]
  BY <1>0 DEF RowsOfNodes, IndexInit
<1>2. entry \in [NodeKeys -> EntriesOf \cup {NoEntry}] /\ EntriesAreCounted
  BY NoneIsPresent DEF IndexInit, EntriesAreCounted
<1>3. NodeIndexTypeOK
  <2>1. opened \in [Openers -> {"closed", "indexed", "unsupported"}] /\ settings \in SettingWorlds
    BY DEF IndexInit
  <2>2. 0 \in 0 .. Cardinality(NodeKeys) /\ 0 \in 0 .. MaxNodeWrites /\ 0 \in 0 .. MaxFaults
    BY <1>0
  <2>3. /\ owed \subseteq NodeKeys /\ indexed \in 0 .. Cardinality(NodeKeys)
        /\ nodeWrites \in 0 .. MaxNodeWrites /\ faults \in 0 .. MaxFaults
    BY <2>2 DEF IndexInit
  <2>4. /\ indexMeta \in Metas \cup {NoEntry} /\ {rebuilt, noted, missed} \subseteq BOOLEAN
        /\ writer \in {"idle", "look", "note"} /\ asker \in {"idle", "entered"}
    BY DEF IndexInit
  <2> QED BY <1>1, <1>2, <2>1, <2>3, <2>4 DEF NodeIndexTypeOK
<1> QED BY <1>2, <1>3 DEF IndexIInv, IndexInit, DroppedOwesNothing, RebuiltIsSeen, KeysAreSettled,
                          SkipsAreNoted

LEMMA OpenStoreKeeps ==
    ASSUME IndexIInv, NEW p \in Openers, OpenStore(p)
    PROVE  IndexIInv'
<1>1. opened' \in [Openers -> {"closed", "indexed", "unsupported"}] /\ SkipsAreNoted'
  BY DEF OpenStore, IndexIInv, NodeIndexTypeOK, SkipsAreNoted, paths
<1>2. CASE rebuilt' = FALSE /\ nodeRow' = nodeRow /\ UNCHANGED faults
           /\ IF indexMeta = NoEntry THEN CreateIndex(p)
              ELSE IF IsStale(p) THEN Reset(p) ELSE UNCHANGED <<entry, owed, indexed, indexMeta>>
  <2>1. CASE indexMeta = NoEntry
    <3>1. PICK s \in {"backfill", "ready"} :
             indexMeta' = NewMeta(p, s) /\ (s = "ready" => Present(nodeRow) = {})
      BY <1>2, <2>1 DEF CreateIndex
    <3>2. entry' = [k \in NodeKeys |-> NoEntry] /\ indexed' = 0 /\ owed' = {}
      BY <1>2, <2>1 DEF CreateIndex
    <3>3. /\ entry' \in [NodeKeys -> EntriesOf \cup {NoEntry}]
          /\ indexMeta' \in Metas /\ indexed' \in 0 .. Cardinality(NodeKeys)
          /\ EntriesAreCounted' /\ KeysAreSettled' /\ DroppedOwesNothing'
      BY <1>2, <3>1, <3>2, FreshIndex
    <3> QED BY <1>1, <1>2, <3>2, <3>3 DEF OpenStore, IndexIInv, NodeIndexTypeOK, RebuiltIsSeen, paths
  <2>2. CASE indexMeta # NoEntry /\ IsStale(p)
    <3>1. /\ indexMeta' = NewMeta(p, "backfill")
          /\ entry' = [k \in NodeKeys |-> NoEntry] /\ indexed' = 0 /\ owed' = {}
      BY <1>2, <2>2 DEF Reset
    <3>2. /\ entry' \in [NodeKeys -> EntriesOf \cup {NoEntry}]
          /\ indexMeta' \in Metas /\ indexed' \in 0 .. Cardinality(NodeKeys)
          /\ EntriesAreCounted' /\ KeysAreSettled' /\ DroppedOwesNothing'
      BY <1>2, <3>1, FreshIndex
    <3> QED BY <1>1, <1>2, <3>1, <3>2 DEF OpenStore, IndexIInv, NodeIndexTypeOK, RebuiltIsSeen, paths
  <2>3. CASE indexMeta # NoEntry /\ ~IsStale(p)
    <3>1. ~rebuilt
      BY <2>3 DEF IndexIInv, RebuiltIsSeen, IsStale
    <3>2. UNCHANGED <<entry, owed, indexed, indexMeta>>
      BY <1>2, <2>3
    <3>3. KeysAreSettled' /\ EntriesAreCounted' /\ DroppedOwesNothing'
      BY <1>2, <3>1, <3>2 DEF IndexIInv, KeysAreSettled, KeyIsSettled, Reached, EntriesAreCounted,
                              DroppedOwesNothing
    <3> QED BY <1>1, <1>2, <3>2, <3>3 DEF OpenStore, IndexIInv, NodeIndexTypeOK, RebuiltIsSeen, paths
  <2> QED BY <2>1, <2>2, <2>3
<1>3. CASE Fault /\ ~rebuilt /\ UNCHANGED tables
  <2>1. KeysAreSettled' /\ EntriesAreCounted' /\ DroppedOwesNothing' /\ RebuiltIsSeen'
    BY <1>3 DEF IndexIInv, KeysAreSettled, KeyIsSettled, Reached, EntriesAreCounted,
                DroppedOwesNothing, RebuiltIsSeen, tables
  <2>2. faults' \in 0 .. MaxFaults
    BY <1>3, IndexAssumption DEF Fault, IndexIInv, NodeIndexTypeOK
  <2> QED BY <1>1, <1>3, <2>1, <2>2 DEF OpenStore, IndexIInv, NodeIndexTypeOK, tables, paths
<1> QED BY <1>2, <1>3 DEF OpenStore

LEMMA CloseStoreKeeps ==
    ASSUME IndexIInv, NEW p \in Openers, CloseStore(p)
    PROVE  IndexIInv'
<1>1. KeysAreSettled' /\ EntriesAreCounted' /\ DroppedOwesNothing' /\ RebuiltIsSeen'
  BY DEF CloseStore, IndexIInv, KeysAreSettled, KeyIsSettled, Reached, EntriesAreCounted,
         DroppedOwesNothing, RebuiltIsSeen, tables
<1>2. NodeIndexTypeOK'
  BY DEF CloseStore, IndexIInv, NodeIndexTypeOK, tables, paths
<1>3. SkipsAreNoted'
  BY DEF CloseStore, IndexIInv, NodeIndexTypeOK, SkipsAreNoted, paths
<1> QED BY <1>1, <1>2, <1>3 DEF IndexIInv

LEMMA DropIndexKeeps ==
    ASSUME IndexIInv, NEW p \in Openers, DropIndex(p)
    PROVE  IndexIInv'
<1>1. entry' \in [NodeKeys -> EntriesOf \cup {NoEntry}] /\ EntriesAreCounted'
  BY NoneIsPresent DEF DropIndex, EntriesAreCounted
<1>2. indexed' \in 0 .. Cardinality(NodeKeys)
  BY IndexAssumption, FS_CardinalityType DEF DropIndex
<1>3. ~rebuilt /\ ~rebuilt'
  BY DEF DropIndex, IndexIInv, RebuiltIsSeen
<1>4. NodeIndexTypeOK'
  BY <1>1, <1>2 DEF DropIndex, IndexIInv, NodeIndexTypeOK, paths
<1> QED BY <1>1, <1>3, <1>4 DEF DropIndex, IndexIInv, KeysAreSettled, DroppedOwesNothing,
                                RebuiltIsSeen, SkipsAreNoted, paths

\* The row a write leaves, and the counter of writes.
LEMMA ChangedRow ==
    ASSUME IndexIInv, NEW k \in NodeKeys,
           NEW row \in {NoEntry} \cup [rev : {nodeWrites + 1}, pack : IndexPacks], ChangeRow(k, row)
    PROVE  /\ nodeRow' \in [NodeKeys -> RowsOfNodes \cup {NoEntry}]
           /\ \A x \in NodeKeys \ {k} : nodeRow'[x] = nodeRow[x]
           /\ nodeWrites' \in 0 .. MaxNodeWrites
BY IndexAssumption DEF ChangeRow, IndexIInv, NodeIndexTypeOK, RowsOfNodes

\* A key that is listed owes nobody its entry.
LEMMA ListedKeeps ==
    ASSUME IndexIInv, ~rebuilt, NEW k \in NodeKeys, owed' = Listed(k),
           \A x \in NodeKeys \ {k} : nodeRow'[x] = nodeRow[x],
           UNCHANGED <<entry, indexed, indexMeta, rebuilt>>
    PROVE  /\ KeysAreSettled' /\ EntriesAreCounted' /\ DroppedOwesNothing' /\ RebuiltIsSeen'
           /\ owed' \subseteq NodeKeys
BY DEF IndexIInv, KeysAreSettled, KeyIsSettled, Reached, EntriesAreCounted, DroppedOwesNothing,
       RebuiltIsSeen, Listed, NodeIndexTypeOK

LEMMA WriteNodeKeeps ==
    ASSUME IndexIInv, NEW p \in Openers, NEW k \in NodeKeys,
           NEW row \in {NoEntry} \cup [rev : {nodeWrites + 1}, pack : IndexPacks],
           WriteNode(p, k, row)
    PROVE  IndexIInv'
<1>1. /\ nodeRow' \in [NodeKeys -> RowsOfNodes \cup {NoEntry}]
      /\ \A x \in NodeKeys \ {k} : nodeRow'[x] = nodeRow[x]
      /\ nodeWrites' \in 0 .. MaxNodeWrites
  BY ChangedRow DEF WriteNode
<1>2. SkipsAreNoted' /\ writer' \in {"idle", "look", "note"} /\ missed' \in BOOLEAN
  BY DEF WriteNode, IndexIInv, SkipsAreNoted, NodeIndexTypeOK
<1>3. CASE /\ Writable(p) /\ Reindex(p, {k}) /\ owed' = owed \ {k} /\ UNCHANGED faults
  <2>1. ~rebuilt /\ indexMeta' = indexMeta /\ indexMeta # NoEntry
    BY <1>3 DEF WriteNode, Writable
  <2>2. \A x \in NodeKeys \ {k} : Reached(x)' => Reached(x) \/ nodeRow[x] = NoEntry
    BY <2>1 DEF Reached
  <2>3. /\ entry' \in [NodeKeys -> EntriesOf \cup {NoEntry}]
        /\ EntriesAreCounted' /\ indexed' \in 0 .. Cardinality(NodeKeys)
        /\ KeysAreSettled'
    BY <1>1, <1>3, <2>1, <2>2, ReindexSettles
  <2> QED BY <1>1, <1>2, <1>3, <2>1, <2>3 DEF WriteNode, IndexIInv, NodeIndexTypeOK,
                                             DroppedOwesNothing, RebuiltIsSeen
<1>4. CASE /\ owed' = Listed(k) /\ UNCHANGED <<entry, indexed>>
           /\ faults' \in {faults, faults + 1} /\ faults' \in 0 .. MaxFaults
  BY <1>1, <1>4, ListedKeeps, <1>2 DEF WriteNode, IndexIInv, NodeIndexTypeOK
<1>5. faults \in 0 .. MaxFaults /\ (faults < MaxFaults => faults + 1 \in 0 .. MaxFaults)
  BY IndexAssumption DEF IndexIInv, NodeIndexTypeOK
<1>6. ASSUME ~(Writable(p) /\ Reindex(p, {k}) /\ owed' = owed \ {k} /\ UNCHANGED faults)
      PROVE  /\ owed' = Listed(k) /\ UNCHANGED <<entry, indexed>>
             /\ faults' \in {faults, faults + 1} /\ faults' \in 0 .. MaxFaults
  BY <1>5, <1>6 DEF WriteNode
<1> QED BY <1>3, <1>4, <1>6

LEMMA RawWriteKeeps ==
    ASSUME IndexIInv, NEW k \in NodeKeys,
           NEW row \in {NoEntry} \cup [rev : {nodeWrites + 1}, pack : IndexPacks], RawWrite(k, row)
    PROVE  IndexIInv'
BY ChangedRow, ListedKeeps DEF RawWrite, IndexIInv, NodeIndexTypeOK, SkipsAreNoted, paths

LEMMA RebuildTableKeeps ==
    ASSUME IndexIInv, NEW k \in NodeKeys, RebuildTable(k)
    PROVE  IndexIInv'
<1>1. ASSUME NEW x \in NodeKeys PROVE entry[x] # NoEntry <=> nodeRow[x] # NoEntry
  BY DEF RebuildTable, IndexIInv, KeysAreSettled, Reached, KeyIsSettled
<1>2. Present(entry) = Present(nodeRow)
  BY <1>1 DEF Present
<1>3. Present(nodeRow') = Present(nodeRow) \ {k} /\ k \in Present(nodeRow)
  BY DEF RebuildTable, Present, IndexIInv, NodeIndexTypeOK
<1>4. IsFiniteSet(Present(nodeRow)) /\ Cardinality(Present(nodeRow)) \in Nat
  BY PresentIsFinite
<1>5. Cardinality(Present(nodeRow')) = Cardinality(Present(nodeRow)) - 1
  BY <1>3, <1>4, FS_RemoveElement
<1>6. indexed = Cardinality(Present(nodeRow)) /\ indexed' = indexed
  BY <1>2 DEF IndexIInv, EntriesAreCounted, RebuildTable
<1>7. RebuiltIsSeen'
  BY <1>4, <1>5, <1>6 DEF RebuildTable, RebuiltIsSeen
<1>8. nodeRow' \in [NodeKeys -> RowsOfNodes \cup {NoEntry}] /\ faults' \in 0 .. MaxFaults
  BY IndexAssumption DEF RebuildTable, Fault, IndexIInv, NodeIndexTypeOK
<1>9. EntriesAreCounted' /\ KeysAreSettled' /\ DroppedOwesNothing' /\ SkipsAreNoted'
  BY DEF RebuildTable, IndexIInv, EntriesAreCounted, KeysAreSettled, DroppedOwesNothing,
         SkipsAreNoted, paths
<1> QED BY <1>7, <1>8, <1>9 DEF RebuildTable, IndexIInv, NodeIndexTypeOK, paths

LEMMA DrainKeeps ==
    ASSUME IndexIInv, NEW p \in Openers, Drain(p)
    PROVE  IndexIInv'
<1>1. PICK ks \in SUBSET owed : Reindex(p, ks) /\ owed' = owed \ ks
  BY DEF Drain, Batches, kSubset
<1>2. ks \in SUBSET NodeKeys /\ nodeRow' = nodeRow /\ indexMeta' = indexMeta
  BY DEF Drain, IndexIInv, NodeIndexTypeOK
<1>3. ~rebuilt /\ ~rebuilt'
  BY DEF Drain, IndexIInv, RebuiltIsSeen
<1>4. \A x \in NodeKeys \ ks : Reached(x)' => Reached(x) \/ nodeRow[x] = NoEntry
  BY <1>2 DEF Reached
<1>5. indexMeta' # NoEntry /\ nodeRow' \in [NodeKeys -> RowsOfNodes \cup {NoEntry}]
  BY <1>2 DEF Drain, Writable, IndexIInv, NodeIndexTypeOK
<1>6. /\ entry' \in [NodeKeys -> EntriesOf \cup {NoEntry}]
      /\ EntriesAreCounted' /\ indexed' \in 0 .. Cardinality(NodeKeys) /\ KeysAreSettled'
  BY <1>1, <1>2, <1>3, <1>4, <1>5, ReindexSettles DEF Drain
<1> QED BY <1>1, <1>2, <1>3, <1>5, <1>6 DEF Drain, IndexIInv, NodeIndexTypeOK, DroppedOwesNothing,
                                           RebuiltIsSeen, SkipsAreNoted, paths

\* What one step of the backfill passes over without a row, or takes.
LEMMA NextKeysFacts ==
    ASSUME IndexIInv, indexMeta # NoEntry
    PROVE  /\ NextKeys \in SUBSET NodeKeys
           /\ NextKeys # {} => /\ Max(NextKeys) \in NextKeys
                               /\ \A x \in NodeKeys \ NextKeys :
                                     x <= Max(NextKeys) => x <= indexMeta.cursor \/ nodeRow[x] = NoEntry
           /\ NextKeys = {} => \A x \in NodeKeys : x <= indexMeta.cursor \/ nodeRow[x] = NoEntry
<1> DEFINE after == {k \in Present(nodeRow) : k > indexMeta.cursor}
<1>0. NodeKeys \in SUBSET Nat /\ indexMeta.cursor \in Nat
  <2>1. indexMeta \in Metas
    BY DEF IndexIInv, NodeIndexTypeOK
  <2>2. indexMeta.cursor \in NodeKeys \cup {0}
    BY <2>1 DEF Metas
  <2>3. NodeKeys \in SUBSET Nat
    BY IndexAssumption
  <2>5. indexMeta.cursor \in Nat
    <3>1. CASE indexMeta.cursor = 0
      BY <3>1
    <3>2. CASE indexMeta.cursor \in NodeKeys
      BY <2>3, <3>2
    <3> QED BY <2>2, <3>1, <3>2
  <2> QED BY <2>3, <2>5
<1>1. after \in SUBSET NodeKeys /\ IsFiniteSet(after)
  <2>1. after \in SUBSET Present(nodeRow)
    OBVIOUS
  <2> HIDE DEF after
  <2> QED BY <2>1, PresentIsFinite, FS_Subset
<1>2. \A x \in NodeKeys : x \in after \/ x <= indexMeta.cursor \/ nodeRow[x] = NoEntry
  <2> SUFFICES ASSUME NEW x \in NodeKeys, x \notin after, ~(x <= indexMeta.cursor)
               PROVE  nodeRow[x] = NoEntry
    OBVIOUS
  <2>1. x \in Nat /\ x > indexMeta.cursor
    BY <1>0
  <2> QED BY <2>1 DEF Present
<1>3. NextKeys = {k \in after : Cardinality({x \in after : x < k}) < IndexBatch}
  BY DEF NextKeys
<1> HIDE DEF after
<1>4. NextKeys \in SUBSET NodeKeys
  BY <1>1, <1>3
<1>5. ASSUME NextKeys # {}, NEW x \in NodeKeys \ NextKeys, x <= Max(NextKeys), x \in after
      PROVE  FALSE
  <2> DEFINE m == Max(NextKeys)
             Before(k) == {y \in after : y < k}
  <2>1. m \in NextKeys
    BY <1>4, <1>5, LastKey
  <2>2. x < m /\ x \in Nat /\ m \in Nat
    <3>1. x \in NodeKeys /\ m \in NodeKeys /\ x # m /\ x <= m
      BY <1>4, <1>5, <2>1
    <3> HIDE DEF m
    <3>2. x \in Nat /\ m \in Nat
      BY <1>0, <3>1
    <3> QED BY <3>1, <3>2
  <2>3. Cardinality(Before(m)) < IndexBatch
    BY <1>3, <2>1
  <2> HIDE DEF m
  <2>4. Before(x) \in SUBSET Before(m) /\ Before(m) \in SUBSET after
    <3>1. ASSUME NEW y \in Before(x) PROVE y \in Before(m)
      BY <1>0, <1>1, <2>2
    <3> QED BY <3>1
  <2> HIDE DEF Before
  <2>5. /\ Cardinality(Before(x)) <= Cardinality(Before(m))
        /\ Cardinality(Before(x)) \in Nat /\ Cardinality(Before(m)) \in Nat
    BY <1>1, <2>4, FS_Subset, FS_CardinalityType
  <2>6. Cardinality(Before(x)) < IndexBatch
    BY <2>3, <2>5, IndexAssumption
  <2> QED BY <1>3, <1>5, <2>6 DEF Before
<1>6. ASSUME NextKeys = {}, after # {} PROVE FALSE
  <2>1. PICK k \in after : \A x \in after : k <= x
    BY <1>1, <1>6, FirstKey
  <2>2. {x \in after : x < k} = {}
    <3>1. ASSUME NEW x \in after PROVE ~(x < k)
      BY <1>0, <1>1, <2>1
    <3> QED BY <3>1
  <2>3. Cardinality({x \in after : x < k}) = 0
    BY <2>2, FS_EmptySet
  <2> QED BY <1>3, <1>6, <2>3, IndexAssumption
<1>7. NextKeys # {} => Max(NextKeys) \in NextKeys
  BY <1>4, LastKey
<1> QED BY <1>2, <1>4, <1>5, <1>6, <1>7

LEMMA BackfillStepKeeps ==
    ASSUME IndexIInv, NEW p \in Openers, BackfillStep(p)
    PROVE  IndexIInv'
<1>1. /\ indexMeta \in Metas /\ indexMeta # NoEntry /\ indexMeta.state = "backfill"
      /\ nodeRow' = nodeRow /\ nodeRow' \in [NodeKeys -> RowsOfNodes \cup {NoEntry}] /\ ~rebuilt
  BY DEF BackfillStep, Writable, IndexIInv, NodeIndexTypeOK, RebuiltIsSeen
<1>2. CASE NextKeys # {}
  <2> DEFINE ks == NextKeys
  <2>1. Reindex(p, ks) /\ owed' = owed \ ks
    BY <1>2 DEF BackfillStep
  <2>2. indexMeta' = [indexMeta EXCEPT !.cursor = Max(NextKeys)]
    BY <1>2 DEF BackfillStep
  <2>3. ks \in SUBSET NodeKeys /\ Max(NextKeys) \in NodeKeys
    BY <1>1, <1>2, NextKeysFacts
  <2>4. /\ indexMeta' \in Metas /\ indexMeta'.cursor = Max(NextKeys)
        /\ indexMeta'.state = "backfill" /\ indexMeta'.chars = indexMeta.chars
    BY <1>1, <2>2, <2>3 DEF Metas
  <2>5. indexMeta' # NoEntry
    BY <2>4, IndexAssumption
  <2>6. \A x \in NodeKeys \ ks : Reached(x)' => Reached(x) \/ nodeRow[x] = NoEntry
    <3>1. \A x \in NodeKeys \ ks : x <= Max(NextKeys) => x <= indexMeta.cursor \/ nodeRow[x] = NoEntry
      BY <1>1, <1>2, NextKeysFacts
    <3> HIDE DEF ks
    <3> QED BY <2>4, <3>1 DEF Reached
  <2> HIDE DEF ks
  <2>7. /\ entry' \in [NodeKeys -> EntriesOf \cup {NoEntry}]
        /\ EntriesAreCounted' /\ indexed' \in 0 .. Cardinality(NodeKeys) /\ KeysAreSettled'
    BY <1>1, <2>1, <2>3, <2>4, <2>5, <2>6, ReindexSettles DEF BackfillStep
  <2> QED BY <1>1, <2>1, <2>4, <2>5, <2>7
          DEF BackfillStep, IndexIInv, NodeIndexTypeOK, DroppedOwesNothing, RebuiltIsSeen,
              SkipsAreNoted, paths
<1>3. CASE NextKeys = {}
  <2>1. Reindex(p, owed) /\ owed' = {} /\ owed' = owed \ owed
    BY <1>3 DEF BackfillStep, DrainsAll
  <2>2. indexMeta' = [indexMeta EXCEPT !.state = "ready"]
    BY <1>3 DEF BackfillStep
  <2>3. indexMeta' \in Metas /\ indexMeta'.chars = indexMeta.chars
    BY <1>1, <2>2 DEF Metas
  <2>4. indexMeta' # NoEntry /\ owed \in SUBSET NodeKeys
    BY <2>3, IndexAssumption DEF IndexIInv, NodeIndexTypeOK
  <2>5. \A x \in NodeKeys \ owed : Reached(x)' => Reached(x) \/ nodeRow[x] = NoEntry
    BY <1>1, <1>3, NextKeysFacts DEF Reached
  <2>6. /\ entry' \in [NodeKeys -> EntriesOf \cup {NoEntry}]
        /\ EntriesAreCounted' /\ indexed' \in 0 .. Cardinality(NodeKeys) /\ KeysAreSettled'
    BY <1>1, <2>1, <2>3, <2>4, <2>5, ReindexSettles DEF BackfillStep
  <2> QED BY <1>1, <2>1, <2>3, <2>4, <2>6
          DEF BackfillStep, IndexIInv, NodeIndexTypeOK, DroppedOwesNothing, RebuiltIsSeen,
              SkipsAreNoted, paths
<1> QED BY <1>2, <1>3

\* A step of the notes between searches and writes leaves the tables alone.
LEMMA NotesKeep ==
    ASSUME IndexIInv, LookBeforeNote \/ NoteSkip \/ EnterMemoryPath \/ TellMemory
    PROVE  IndexIInv'
<1>1. UNCHANGED <<settings, opened, nodeRow, entry, owed, indexed, indexMeta, rebuilt, nodeWrites, faults>>
  BY DEF LookBeforeNote, NoteSkip, EnterMemoryPath, TellMemory, tables
<1>2. KeysAreSettled' /\ EntriesAreCounted' /\ DroppedOwesNothing' /\ RebuiltIsSeen'
  BY <1>1 DEF IndexIInv, KeysAreSettled, KeyIsSettled, Reached, EntriesAreCounted,
              DroppedOwesNothing, RebuiltIsSeen
<1>3. SkipsAreNoted'
  BY DEF LookBeforeNote, NoteSkip, EnterMemoryPath, TellMemory, IndexIInv, SkipsAreNoted,
         NodeIndexTypeOK
<1>4. NodeIndexTypeOK'
  BY <1>1 DEF LookBeforeNote, NoteSkip, EnterMemoryPath, TellMemory, IndexIInv, NodeIndexTypeOK
<1> QED BY <1>2, <1>3, <1>4 DEF IndexIInv

LEMMA IndexNextKeeps == IndexIInv /\ [IndexNext]_indexVars => IndexIInv'
<1> SUFFICES ASSUME IndexIInv, [IndexNext]_indexVars PROVE IndexIInv'
  OBVIOUS
<1>1. CASE IndexNext
  <2>1. ASSUME NEW p \in Openers,
               OpenStore(p) \/ CloseStore(p) \/ DropIndex(p) \/ Drain(p) \/ BackfillStep(p)
        PROVE  IndexIInv'
    BY <2>1, OpenStoreKeeps, CloseStoreKeeps, DropIndexKeeps, DrainKeeps, BackfillStepKeeps
  <2>2. ASSUME NEW k \in NodeKeys, NEW row \in {NoEntry} \cup [rev : {nodeWrites + 1}, pack : IndexPacks],
               RawWrite(k, row)
        PROVE  IndexIInv'
    BY <2>2, RawWriteKeeps
  <2>3. ASSUME NEW k \in NodeKeys, NEW row \in {NoEntry} \cup [rev : {nodeWrites + 1}, pack : IndexPacks],
               NEW p \in Openers, WriteNode(p, k, row)
        PROVE  IndexIInv'
    BY <2>3, WriteNodeKeeps
  <2>4. ASSUME NEW k \in NodeKeys, RebuildTable(k) PROVE IndexIInv'
    BY <2>4, RebuildTableKeeps
  <2> QED BY <1>1, <2>1, <2>2, <2>3, <2>4, NotesKeep DEF IndexNext
<1>2. CASE UNCHANGED indexVars
  BY <1>2 DEF indexVars, tables, paths, IndexIInv, NodeIndexTypeOK, KeysAreSettled, KeyIsSettled, Reached,
              EntriesAreCounted, DroppedOwesNothing, RebuiltIsSeen, SkipsAreNoted
<1> QED BY <1>1, <1>2

\* The invariant says what a search may rely on.
LEMMA IndexIInvIsHonest == IndexIInv => IndexIsHonest
<1> SUFFICES ASSUME IndexIInv PROVE IndexIsHonest
  OBVIOUS
<1>1. EntriesAreRows
  BY DEF IndexIInv, KeysAreSettled, KeyIsSettled, EntriesAreCounted, EntriesAreRows
<1>2. ASSUME NEW p \in Openers, Serves(p), ~rebuilt, NEW pack \in IndexPacks
      PROVE  LET ofPack == {k \in NodeKeys : nodeRow[k] # NoEntry /\ nodeRow[k].pack = pack}
             IN /\ Hits(pack) \subseteq ofPack /\ (Warned \/ ofPack = Hits(pack))
                /\ \A k \in Hits(pack) : entry[k].rev = nodeRow[k].rev
  <2> DEFINE ofPack == {k \in NodeKeys : nodeRow[k] # NoEntry /\ nodeRow[k].pack = pack}
  <2>1. \A k \in NodeKeys \ owed : Reached(k) /\ KeyIsSettled(k)
    BY <1>2 DEF Serves, IndexIInv, KeysAreSettled, Reached
  <2>2. Hits(pack) \subseteq ofPack
    BY DEF Hits, Shows
  <2>3. ASSUME NEW k \in ofPack, ~Warned PROVE k \in Hits(pack)
    <3>1. k \in NodeKeys \ owed /\ nodeRow[k] # NoEntry /\ nodeRow[k].pack = pack
      BY <2>3 DEF Warned
    <3>2. entry[k] # NoEntry /\ entry[k] = [rev |-> nodeRow[k].rev, pack |-> nodeRow[k].pack, chars |-> indexMeta.chars]
      BY <2>1, <3>1 DEF KeyIsSettled
    <3> QED BY <3>1, <3>2 DEF Hits, Shows
  <2>4. ASSUME NEW k \in Hits(pack) PROVE entry[k].rev = nodeRow[k].rev
    <3>1. k \in NodeKeys \ owed /\ entry[k] # NoEntry
      BY DEF Hits, Shows
    <3>2. entry[k] = [rev |-> nodeRow[k].rev, pack |-> nodeRow[k].pack, chars |-> indexMeta.chars]
      BY <2>1, <3>1 DEF KeyIsSettled
    <3> QED BY <3>2
  <2> QED BY <2>2, <2>3, <2>4
<1>3. AnswersAreCurrent
  BY <1>2 DEF AnswersAreCurrent
<1> QED BY <1>1, <1>3 DEF IndexIInv, IndexIsHonest

\* IndexIsHonest: whoever writes to doc_nodes and whatever fails, the index has the
\* entry of every row it does not list, and a search that answers from it answers
\* from the rows as they are, or warns (stores/_node_bm25_sqlite).
THEOREM NodeIndexIsHonest == IndexSpec => []IndexIsHonest
<1>1. IndexSpec => []IndexIInv
  BY IndexStartsSound, IndexNextKeeps, PTL DEF IndexSpec
<1> QED BY <1>1, IndexIInvIsHonest, PTL

-----------------------------------------------------------------------------
(* The choice of packs: the scores.                                        *)

\* The words of a pack that a question is compared with, and the parts of a score
\* that do not depend on the pack's own name.
FreeWords(p, c) ==
    WithFragments(SelName[p]) \cup WithFragments(FieldOf(c, "title"))
        \cup WithFragments(FieldOf(c, "description"))
FieldWords(c) ==
    WithFragments(OfManifest(c, "source", <<>>)) \cup OfManifest(c, "keywords", {})
        \cup OfManifest(c, "tags", {})
Gated(words, p, c) == Asked(words) \cap (FreeWords(p, c) \cup FieldWords(c)) # {}
Aliased(words, p, c) ==
    \E group \in SelAliases : group \cap Asked(words) # {} /\ group \cap FreeWords(p, c) # {}
FieldScore(words, c) ==
    (IF AtBoundary(FieldOf(c, "title"), words) THEN 50 ELSE 0)
    + (IF InOrder(OfManifest(c, "source", <<>>), words) THEN 30 ELSE 0)
    + 5 * Overlap(words, WithFragments(FieldOf(c, "title")))
    + 3 * Overlap(words, WithFragments(FieldOf(c, "description")))
    + 5 * Overlap(words, OfManifest(c, "keywords", {}))
    + 4 * Overlap(words, OfManifest(c, "tags", {}))

LEMMA AskedIsFinite ==
    ASSUME NEW words \in SelQuestions
    PROVE  IsFiniteSet(Asked(words)) /\ Range(words) \in SUBSET Asked(words)
BY SelectionAssumption, FS_Subset DEF Range, Asked, WithAliases

LEMMA OverlapCounts ==
    ASSUME NEW words \in SelQuestions, NEW field
    PROVE  Overlap(words, field) \in Nat
<1> DEFINE common == (Asked(words) \ SelShort) \cap field
<1>1. common \in SUBSET Asked(words)
  OBVIOUS
<1> HIDE DEF common
<1>2. IsFiniteSet(common)
  BY <1>1, AskedIsFinite, FS_Subset
<1> QED BY <1>2, FS_CardinalityType DEF Overlap, common

LEMMA ScoreParts ==
    ASSUME NEW words \in SelQuestions, NEW p \in SelPacks, NEW c
    PROVE  /\ FieldScore(words, c) \in Nat
           /\ Score(words, p, c) =
                 IF ~Gated(words, p, c) THEN 0
                 ELSE (IF InOrder(SelName[p], words) THEN 100 ELSE 0) + FieldScore(words, c)
                      + (IF Aliased(words, p, c) THEN 20 ELSE 0)
<1> DEFINE inTitle == AtBoundary(FieldOf(c, "title"), words)
           inSource == InOrder(OfManifest(c, "source", <<>>), words)
           title == Overlap(words, WithFragments(FieldOf(c, "title")))
           text == Overlap(words, WithFragments(FieldOf(c, "description")))
           keywords == Overlap(words, OfManifest(c, "keywords", {}))
           tags == Overlap(words, OfManifest(c, "tags", {}))
           name == IF InOrder(SelName[p], words) THEN 100 ELSE 0
           alias == IF Aliased(words, p, c) THEN 20 ELSE 0
<1>1. title \in Nat /\ text \in Nat /\ keywords \in Nat /\ tags \in Nat
  BY OverlapCounts
<1>2. FieldScore(words, c) = (IF inTitle THEN 50 ELSE 0) + (IF inSource THEN 30 ELSE 0)
                             + 5 * title + 3 * text + 5 * keywords + 4 * tags
  BY DEF FieldScore
<1>3. Gated(words, p, c) <=>
         Asked(words) \cap (FreeWords(p, c) \cup WithFragments(OfManifest(c, "source", <<>>))
                            \cup OfManifest(c, "keywords", {}) \cup OfManifest(c, "tags", {})) # {}
  BY DEF Gated, FieldWords
<1>4. Score(words, p, c) =
         IF ~Gated(words, p, c) THEN 0
         ELSE name + (IF inTitle THEN 50 ELSE 0) + (IF inSource THEN 30 ELSE 0)
              + 5 * title + 3 * text + 5 * keywords + 4 * tags + alias
  BY <1>3 DEF Score, FreeWords, Aliased
<1>5. name \in Nat /\ alias \in Nat
  OBVIOUS
<1> HIDE DEF inTitle, inSource, title, text, keywords, tags, name, alias
<1>6. FieldScore(words, c) \in Nat
  BY <1>1, <1>2
<1>7. Score(words, p, c) = IF ~Gated(words, p, c) THEN 0 ELSE name + FieldScore(words, c) + alias
  BY <1>1, <1>2, <1>4, <1>5, <1>6
<1> QED BY <1>6, <1>7 DEF name, alias

\* A name that the question spells out.
LEMMA SpelledIsInOrder ==
    ASSUME NEW words \in SelQuestions, NEW p \in SelPacks, SpelledIn(words, SelName[p])
    PROVE  /\ InOrder(SelName[p], words)
           /\ \A c : Gated(words, p, c)
<1> DEFINE name == SelName[p]
<1>1. words \in Seq(SelWords) /\ name \in Seq(SelWords) /\ name # <<>>
  BY SelectionAssumption
<1>2. PICK i \in 1 .. Len(words), j \in 1 .. Len(words) : SubSeq(words, i, j) = name
  BY DEF SpelledIn
<1>3. i \in Int /\ j \in Int /\ Len(words) \in Nat /\ \A x \in i .. j : words[x] \in SelWords
  BY <1>1
<1>4. /\ Len(name) = IF i <= j THEN j - i + 1 ELSE 0
      /\ \A x \in 1 .. j - i + 1 : name[x] = words[i + x - 1]
  <2>1. /\ Len(SubSeq(words, i, j)) = IF i <= j THEN j - i + 1 ELSE 0
        /\ \A x \in 1 .. j - i + 1 : SubSeq(words, i, j)[x] = words[i + x - 1]
    BY <1>3, SubSeqProperties
  <2> QED BY <1>2, <2>1
<1>5. Len(name) # 0 /\ Len(name) \in Nat /\ DOMAIN name = 1 .. Len(name)
  BY <1>1
<1>6. i <= j /\ Len(name) = j - i + 1
  BY <1>3, <1>4, <1>5
<1> HIDE DEF name
<1>7. \A x \in DOMAIN name : words[(i - 1) + x] = name[x]
  BY <1>3, <1>4, <1>5, <1>6
<1>8. i - 1 \in 0 .. (Len(words) - Len(name))
  BY <1>2, <1>3, <1>6
<1>9. InOrder(name, words)
  BY <1>1, <1>7, <1>8 DEF InOrder, SameWord
<1>10. 1 \in DOMAIN name /\ name[1] = words[i] /\ words[i] \in Range(words)
  BY <1>1, <1>3, <1>4, <1>5, <1>6 DEF Range
<1>11. name[1] \in Asked(words)
  BY <1>10, AskedIsFinite
<1>12. name[1] \in Range(name)
  BY <1>10 DEF Range
<1>13. \A c : Gated(words, p, c)
  BY <1>11, <1>12 DEF Gated, FreeWords, WithFragments, name
<1> QED BY <1>9, <1>13 DEF name

\* Where no alias has a word of the question, only the name's own words count.
LEMMA InOrderIsSpelled ==
    ASSUME NEW words \in SelQuestions, NEW p \in SelPacks, InOrder(SelName[p], words),
           \A group \in SelAliases : group \cap Range(words) = {}
    PROVE  SpelledIn(words, SelName[p])
<1> DEFINE name == SelName[p]
<1>1. words \in Seq(SelWords) /\ name \in Seq(SelWords) /\ name # <<>>
  BY SelectionAssumption
<1>2. PICK pos \in 0 .. (Len(words) - Len(name)) : \A i \in DOMAIN name : SameWord(words[pos + i], name[i])
  BY DEF InOrder
<1>3. /\ Len(name) # 0 /\ Len(name) \in Nat /\ DOMAIN name = 1 .. Len(name)
      /\ Len(words) \in Nat /\ DOMAIN words = 1 .. Len(words)
  BY <1>1
<1> HIDE DEF name
<1>4. ASSUME NEW i \in DOMAIN name PROVE name[i] = words[pos + i]
  BY <1>2, <1>3 DEF Range, SameWord
<1>5. pos + 1 \in 1 .. Len(words) /\ pos + Len(name) \in 1 .. Len(words)
  BY <1>2, <1>3
<1> DEFINE cut == SubSeq(words, pos + 1, pos + Len(name))
<1>6. pos + 1 \in Int /\ pos + Len(name) \in Int
      /\ \A x \in pos + 1 .. pos + Len(name) : words[x] \in SelWords
  BY <1>1, <1>2, <1>3
<1>7. /\ cut \in Seq(SelWords)
      /\ Len(cut) = IF pos + 1 <= pos + Len(name) THEN pos + Len(name) - (pos + 1) + 1 ELSE 0
      /\ \A x \in 1 .. pos + Len(name) - (pos + 1) + 1 : cut[x] = words[pos + 1 + x - 1]
  BY <1>6, SubSeqProperties
<1>8. pos \in Nat /\ Len(name) \in Nat \ {0}
  BY <1>2, <1>3
<1> HIDE DEF cut
<1>9. Len(cut) = Len(name) /\ \A x \in 1 .. Len(name) : cut[x] = words[pos + x]
  BY <1>7, <1>8
<1>10. cut = name
  BY <1>1, <1>3, <1>4, <1>7, <1>9
<1> QED BY <1>5, <1>10 DEF SpelledIn, cut, name

-----------------------------------------------------------------------------
(* The choice of packs: the inductive invariant.                           *)

SelCandidates == [row : {<<>>} \cup SelRows, manifest : {<<>>} \cup SelManifests]

SelShapes ==
    /\ SelectionTypeOK
    /\ packRows \in [SelPacks -> {<<>>} \cup SelRows]
    /\ manifests \in [SelPacks -> {<<>>} \cup SelManifests]
    /\ contents \in [SelPacks -> SelContents]
    /\ DOMAIN packCandidates \subseteq scope
    /\ packCandidates \in [DOMAIN packCandidates -> SelCandidates]
    /\ \A p \in DOMAIN packCandidates : packCandidates[p].row.readable

\* What is settled at each step of a query.
SelStages ==
    /\ selPc \in {"down", "boot", "refused", "up"} =>
          effective = {} /\ autoPack = <<>> /\ notes = {} /\ DOMAIN packCandidates = {}
    /\ selPc \in {"list", "enrich", "choose", "probe"} =>
          ask.auto /\ ask.wanted = {} /\ autoPack = <<>> /\ notes = {}
    /\ selPc = "error" => autoPack = <<>> /\ ask.wanted = {}
    /\ selPc # "answered" => foundPacks = {}
    /\ selPc = "probe" => Scored = {}

OneReason == \E n \in {"failed", "below", "override"} : notes \cap {"failed", "below", "override"} = {n}
ReasonIsNoted == selPc \in {"search", "answered"} /\ ask.auto /\ autoPack = <<>> => OneReason

\* A threshold beyond a spelled-out name's 100 would leave it to content to decide.
WordsDecide ==
    MinScore <= 100 /\ autoPack # <<>> /\ (\A group \in SelAliases : group \cap Range(ask.words) = {}) =>
        \A p \in DOMAIN packCandidates :
            SpelledIn(ask.words, SelName[p]) /\ packCandidates[p] = packCandidates[autoPack.pack]
               => SpelledIn(ask.words, SelName[autoPack.pack])
ContentYields ==
    MinScore <= 100 /\ autoPack # <<>> /\ autoPack.by = "content" =>
        \A p \in DOMAIN packCandidates : ~SpelledIn(ask.words, SelName[p])

BootIsWatched ==
    selPc = "boot" => orphans \cap registered = {} /\ \A p \in orphans : p \in SelPacks /\ contents[p] # {}

SelIInv ==
    /\ SelShapes /\ SelStages /\ StaysInScope /\ ReasonIsNoted
    /\ WordsDecide /\ ContentYields /\ BootIsWatched /\ StartsWhole

-----------------------------------------------------------------------------
(* The choice of packs: what a choice is worth.                            *)

\* Where the same fields stand beside two names, the one spelled out scores more.
LEMMA SpelledScoresMore ==
    ASSUME NEW words \in SelQuestions, NEW p \in SelPacks, NEW q \in SelPacks, NEW c,
           \A group \in SelAliases : group \cap Range(words) = {},
           SpelledIn(words, SelName[q]), ~SpelledIn(words, SelName[p]), Score(words, p, c) > 0
    PROVE  Score(words, q, c) > Score(words, p, c)
BY SpelledIsInOrder, InOrderIsSpelled, ScoreParts DEF Asked, WithAliases, Aliased

\* A name that is spelled out is a match of its own.
LEMMA SpelledScores ==
    ASSUME NEW words \in SelQuestions, NEW p \in SelPacks, NEW c, SpelledIn(words, SelName[p])
    PROVE  Score(words, p, c) \in Nat /\ Score(words, p, c) >= 100
BY SpelledIsInOrder, ScoreParts

LEMMA ScoreIsNat ==
    ASSUME NEW words \in SelQuestions, NEW p \in SelPacks, NEW c
    PROVE  Score(words, p, c) \in Nat
BY ScoreParts

\* What ChooseByWords may take.
LEMMA ChoiceByWords ==
    ASSUME SelIInv, NEW p \in Scored, \A q \in Scored : PackScore(p) >= PackScore(q),
           \A group \in SelAliases : group \cap Range(ask.words) = {},
           NEW q \in DOMAIN packCandidates, SpelledIn(ask.words, SelName[q]),
           packCandidates[q] = packCandidates[p]
    PROVE  SpelledIn(ask.words, SelName[p])
<1> SUFFICES ASSUME ~SpelledIn(ask.words, SelName[p]) PROVE FALSE
  OBVIOUS
<1>1. ask.words \in SelQuestions
  BY DEF SelIInv, SelShapes, SelectionTypeOK, Askings
<1>2. p \in SelPacks /\ q \in SelPacks
  BY DEF SelIInv, SelShapes, SelectionTypeOK, Scored
<1>3. PackScore(p) > 0 /\ PackScore(p) >= MinScore
  BY DEF Scored
<1>4. PackScore(q) > PackScore(p)
  BY <1>1, <1>2, <1>3, SpelledScoresMore DEF PackScore
<1>5. PackScore(p) \in Nat /\ PackScore(q) \in Nat /\ MinScore \in Nat
  BY <1>1, <1>2, ScoreIsNat, SelectionAssumption DEF PackScore
<1>6. q \in Scored
  BY <1>3, <1>4, <1>5 DEF Scored
<1>7. PackScore(p) >= PackScore(q)
  BY <1>6
<1> QED BY <1>4, <1>5, <1>7

\* Where nothing scored, nothing is spelled out.
LEMMA UnscoredIsUnspelled ==
    ASSUME MinScore <= 100, SelIInv, Scored = {}, NEW p \in DOMAIN packCandidates
    PROVE  ~SpelledIn(ask.words, SelName[p])
<1> SUFFICES ASSUME SpelledIn(ask.words, SelName[p]) PROVE FALSE
  OBVIOUS
<1>1. ask.words \in SelQuestions /\ p \in SelPacks /\ MinScore \in Nat
  BY SelectionAssumption DEF SelIInv, SelShapes, SelectionTypeOK, Askings
<1>2. PackScore(p) \in Nat /\ PackScore(p) >= 100
  BY <1>1, SpelledScores DEF PackScore
<1>3. p \in Scored
  BY <1>1, <1>2 DEF Scored
<1> QED BY <1>3

-----------------------------------------------------------------------------
(* The choice of packs: one lemma per action.                              *)

LEMMA SelectionStartsSound == SelectionInit => SelIInv
<1> SUFFICES ASSUME SelectionInit PROVE SelIInv
  OBVIOUS
<1>1. DOMAIN packCandidates = {} /\ packCandidates \in [DOMAIN packCandidates -> SelCandidates]
  BY DEF SelectionInit, NoCandidate
<1>2. SelShapes
  BY <1>1, SelectionAssumption DEF SelectionInit, SelShapes, SelectionTypeOK
<1> QED BY <1>1, <1>2 DEF SelectionInit, SelIInv, SelStages, StaysInScope, ReasonIsNoted, WordsDecide,
                          ContentYields, BootIsWatched, StartsWhole

LEMMA BootReadsRegistryKeeps == ASSUME SelIInv, BootReadsRegistry PROVE SelIInv'
<1>1. SelShapes'
  BY DEF SelIInv, BootReadsRegistry, SelShapes, SelectionTypeOK
<1>2. BootIsWatched'
  BY DEF BootReadsRegistry, BootIsWatched, InGraph
<1> QED BY <1>1, <1>2 DEF BootReadsRegistry, SelIInv, SelStages, StaysInScope, ReasonIsNoted, WordsDecide,
                          ContentYields, StartsWhole

LEMMA BootReadsGraphKeeps == ASSUME SelIInv, BootReadsGraph PROVE SelIInv'
<1>1. SelShapes'
  BY DEF SelIInv, BootReadsGraph, SelShapes, SelectionTypeOK
<1>2. StartsWhole'
  BY DEF BootReadsGraph, StartsWhole, SelIInv, BootIsWatched, InGraph, RefusesStart
<1>3. selPc' \in {"refused", "up"}
  BY DEF BootReadsGraph
<1> QED BY <1>1, <1>2, <1>3 DEF BootReadsGraph, SelIInv, SelStages, StaysInScope, ReasonIsNoted, WordsDecide,
                          ContentYields, BootIsWatched

LEMMA ReadScopeKeeps == ASSUME SelIInv, ReadScope PROVE SelIInv'
<1>1. autoPack = <<>> /\ autoPack' = <<>> /\ foundPacks' = {}
  BY DEF ReadScope, SelIInv, SelStages
<1>2. Readable \subseteq SelPacks
  BY DEF Readable, Registered
<1>3. /\ effective' \subseteq scope' /\ scope' \subseteq SelPacks
      /\ ask.wanted # {} => effective' \subseteq ask.wanted
  BY <1>2 DEF ReadScope, Unnamed
<1>4. DOMAIN packCandidates = {}
  BY DEF ReadScope, SelIInv, SelStages
<1>5. notes' \subseteq {"out_of_scope", "override", "failed", "below", "coverage"}
  BY DEF ReadScope
<1>6. selPc' \in {"list", "search"} /\ (selPc' = "list" <=> ask.auto /\ ask.wanted = {})
  BY DEF ReadScope, Unnamed
<1>7. SelShapes'
  BY <1>3, <1>4, <1>5, <1>6 DEF ReadScope, SelIInv, SelShapes, SelectionTypeOK
<1>8. selPc' = "list" => notes' = {}
  BY <1>6 DEF ReadScope
<1>9. ReasonIsNoted'
  BY <1>6 DEF ReadScope, ReasonIsNoted, OneReason
<1>10. SelStages'
  BY <1>1, <1>6, <1>8 DEF ReadScope, SelStages
<1>11. StaysInScope'
  BY <1>1, <1>3 DEF ReadScope, StaysInScope
<1>12. StartsWhole' /\ BootIsWatched'
  BY <1>6 DEF ReadScope, SelIInv, StartsWhole, BootIsWatched
<1> QED BY <1>1, <1>7, <1>9, <1>10, <1>11, <1>12 DEF SelIInv, WordsDecide, ContentYields

\* A choice that fails keeps what was settled.
LEMMA FailedChoiceKeeps ==
    ASSUME SelIInv, selPc \in {"list", "choose", "probe"}, ChoiceFails,
           UNCHANGED <<packRows, manifests, contents, ask, registered, orphans, scope,
                       packCandidates, autoPack, effective, foundPacks, selWrites>>
    PROVE  SelIInv'
<1>1. autoPack = <<>> /\ autoPack' = <<>> /\ notes = {} /\ ask.auto /\ ask.wanted = {} /\ foundPacks = {}
  BY DEF SelIInv, SelStages
<1>2. CASE selPc' = "error" /\ UNCHANGED notes
  <2>1. SelShapes'
    BY <1>2 DEF SelIInv, SelShapes, SelectionTypeOK
  <2>2. SelStages'
    BY <1>1, <1>2 DEF SelStages
  <2>3. StaysInScope'
    BY <1>1 DEF SelIInv, StaysInScope
  <2> QED BY <1>1, <1>2, <2>1, <2>2, <2>3 DEF SelIInv, ReasonIsNoted, WordsDecide, ContentYields,
                                             BootIsWatched, StartsWhole
<1>3. CASE selPc' = "search" /\ notes' = notes \cup {"failed"}
  <2>1. notes' = {"failed"}
    BY <1>1, <1>3
  <2>2. SelShapes'
    BY <1>3, <2>1 DEF SelIInv, SelShapes, SelectionTypeOK
  <2>3. SelStages'
    BY <1>1, <1>3 DEF SelStages
  <2>4. StaysInScope'
    BY <1>1 DEF SelIInv, StaysInScope
  <2>5. notes' \cap {"failed", "below", "override"} = {"failed"}
    BY <2>1
  <2>6. ReasonIsNoted'
    BY <2>5 DEF ReasonIsNoted, OneReason
  <2> QED BY <1>1, <1>3, <2>2, <2>3, <2>4, <2>6 DEF SelIInv, WordsDecide, ContentYields, BootIsWatched,
                                                   StartsWhole
<1> QED BY <1>2, <1>3 DEF ChoiceFails

\* Other candidates: everything but them stays, and nothing is chosen yet.
LEMMA NewCandidatesKeep ==
    ASSUME SelIInv, selPc \in {"list", "enrich"}, selPc' \in {"enrich", "choose"},
           DOMAIN packCandidates' \subseteq scope,
           packCandidates' \in [DOMAIN packCandidates' -> SelCandidates],
           \A p \in DOMAIN packCandidates' : packCandidates'[p].row.readable,
           UNCHANGED <<packRows, manifests, contents, ask, registered, orphans, scope, notes,
                       autoPack, effective, foundPacks, selWrites>>
    PROVE  SelIInv'
<1>1. autoPack = <<>> /\ autoPack' = <<>> /\ notes = {} /\ ask.auto /\ ask.wanted = {} /\ foundPacks = {}
  BY DEF SelIInv, SelStages
<1>2. SelShapes'
  BY DEF SelIInv, SelShapes, SelectionTypeOK
<1>3. SelStages'
  BY <1>1 DEF SelStages
<1>4. StaysInScope'
  BY <1>1 DEF SelIInv, StaysInScope
<1> QED BY <1>1, <1>2, <1>3, <1>4 DEF SelIInv, ReasonIsNoted, WordsDecide, ContentYields, BootIsWatched,
                                     StartsWhole

LEMMA ListPacksKeeps == ASSUME SelIInv, ListPacks PROVE SelIInv'
BY FailedChoiceKeeps, NewCandidatesKeep DEF ListPacks, ListedPacks, Readable, Registered, SelIInv,
   SelShapes, SelCandidates

LEMMA EnrichKeeps == ASSUME SelIInv, Enrich PROVE SelIInv'
BY NewCandidatesKeep DEF SelIInv, SelShapes, SelectionTypeOK, Enriched, SelCandidates, Enrich

\* What a choice must bring to be taken.
LEMMA TakenKeeps ==
    ASSUME SelIInv, selPc \in {"choose", "probe"}, NEW p \in DOMAIN packCandidates, NEW by,
           Takes(p, by), notes' \in {notes, notes \cup {"coverage"}},
           UNCHANGED <<packRows, manifests, contents, ask, registered, orphans, scope,
                       packCandidates, foundPacks, selWrites>>,
           MinScore <= 100 /\ (\A group \in SelAliases : group \cap Range(ask.words) = {}) =>
               \A q \in DOMAIN packCandidates :
                   SpelledIn(ask.words, SelName[q]) /\ packCandidates[q] = packCandidates[p]
                      => SpelledIn(ask.words, SelName[p]),
           MinScore <= 100 /\ by = "content" =>
               \A q \in DOMAIN packCandidates : ~SpelledIn(ask.words, SelName[q])
    PROVE  SelIInv'
<1>1. autoPack' = [pack |-> p, by |-> by] /\ effective' = {p} /\ selPc' = "search"
  BY DEF Takes
<1>2. autoPack' # <<>> /\ autoPack'.pack = p /\ autoPack'.by = by
  BY <1>1
<1>3. notes = {} /\ ask.wanted = {} /\ foundPacks = {}
  BY DEF SelIInv, SelStages
<1>4. p \in scope /\ scope \subseteq SelPacks /\ packCandidates[p].row.readable
  BY DEF SelIInv, SelShapes, SelectionTypeOK
<1>5. SelShapes'
  BY <1>1, <1>3, <1>4 DEF SelIInv, SelShapes, SelectionTypeOK
<1>6. SelStages' /\ ReasonIsNoted'
  BY <1>1, <1>2, <1>3 DEF SelStages, ReasonIsNoted
<1>7. StaysInScope'
  BY <1>1, <1>2, <1>3, <1>4 DEF StaysInScope
<1>8. WordsDecide' /\ ContentYields'
  BY <1>2 DEF WordsDecide, ContentYields
<1> QED BY <1>1, <1>5, <1>6, <1>7, <1>8 DEF SelIInv, BootIsWatched, StartsWhole

LEMMA ChooseByWordsKeeps == ASSUME SelIInv, ChooseByWords PROVE SelIInv'
<1>1. ASSUME NEW p \in Scored, \A q \in Scored : PackScore(p) >= PackScore(q), Takes(p, "words"),
             UNCHANGED notes
      PROVE  SelIInv'
  BY <1>1, ChoiceByWords, TakenKeeps DEF Scored, ChooseByWords
<1>2. CASE NoneScored /\ selPc' = "probe" /\ UNCHANGED <<autoPack, effective, notes>>
  <2>1. autoPack = <<>> /\ autoPack' = <<>> /\ notes = {} /\ ask.auto /\ ask.wanted = {} /\ foundPacks = {}
    BY <1>2 DEF SelIInv, SelStages, ChooseByWords
  <2>2. SelShapes'
    BY <1>2 DEF SelIInv, SelShapes, SelectionTypeOK, ChooseByWords
  <2>3. Scored' = {}
    BY <1>2 DEF ChooseByWords, NoneScored, Scored, PackScore
  <2>4. SelStages'
    BY <1>2, <2>1, <2>3 DEF SelStages, ChooseByWords
  <2>5. StaysInScope'
    BY <1>2, <2>1 DEF SelIInv, StaysInScope, ChooseByWords
  <2> QED BY <1>2, <2>1, <2>2, <2>4, <2>5 DEF SelIInv, ReasonIsNoted, WordsDecide, ContentYields,
                                             BootIsWatched, StartsWhole, ChooseByWords
<1>3. CASE ChoiceFails /\ UNCHANGED <<autoPack, effective>>
  BY <1>3, FailedChoiceKeeps DEF ChooseByWords
<1> QED BY <1>1, <1>2, <1>3 DEF ChooseByWords

LEMMA ChooseByContentKeeps == ASSUME SelIInv, ChooseByContent PROVE SelIInv'
<1>0. autoPack = <<>> /\ notes = {} /\ ask.auto /\ ask.wanted = {} /\ foundPacks = {} /\ Scored = {}
  BY DEF SelIInv, SelStages, ChooseByContent
<1>1. ASSUME NEW p \in Hit, Takes(p, "content"), notes' \in {notes, notes \cup {"coverage"}}
      PROVE  SelIInv'
  BY <1>0, UnscoredIsUnspelled, <1>1, TakenKeeps DEF Hit, ChooseByContent
<1>2. CASE /\ selPc' = "search" /\ UNCHANGED <<autoPack, effective>>
           /\ notes' \in {notes \cup {"below"}, notes \cup {"below", "coverage"}}
  <2>1. notes' \in {{"below"}, {"below", "coverage"}}
    BY <1>0, <1>2
  <2>2. SelShapes'
    BY <1>2, <2>1 DEF SelIInv, SelShapes, SelectionTypeOK, ChooseByContent
  <2>3. SelStages'
    BY <1>0, <1>2 DEF SelStages, ChooseByContent
  <2>4. StaysInScope'
    BY <1>0, <1>2 DEF SelIInv, StaysInScope, ChooseByContent
  <2>5. notes' \cap {"failed", "below", "override"} = {"below"}
    BY <2>1
  <2>6. ReasonIsNoted'
    BY <2>5 DEF ReasonIsNoted, OneReason
  <2> QED BY <1>0, <1>2, <2>2, <2>3, <2>4, <2>6 DEF SelIInv, WordsDecide, ContentYields,
                                                   BootIsWatched, StartsWhole, ChooseByContent
<1>3. CASE ChoiceFails /\ UNCHANGED <<autoPack, effective>>
  BY <1>3, FailedChoiceKeeps DEF ChooseByContent
<1> QED BY <1>1, <1>2, <1>3 DEF ChooseByContent

LEMMA SearchPacksKeeps == ASSUME SelIInv, SearchPacks PROVE SelIInv'
<1>1. SelShapes'
  BY DEF SelIInv, SelShapes, SelectionTypeOK, SearchPacks
<1>2. foundPacks' \subseteq effective /\ effective' = effective
  BY DEF SearchPacks
<1>3. StaysInScope'
  BY <1>2 DEF SelIInv, StaysInScope, SearchPacks
<1> QED BY <1>1, <1>3 DEF SearchPacks, SelIInv, SelStages, ReasonIsNoted, OneReason, WordsDecide,
                          ContentYields, BootIsWatched, StartsWhole

\* What other processes do reaches a query only by its next read.
LEMMA ElsewhereKeeps ==
    ASSUME SelIInv, Elsewhere,
           packRows' \in [SelPacks -> {<<>>} \cup SelRows],
           manifests' \in [SelPacks -> {<<>>} \cup SelManifests],
           contents' \in [SelPacks -> SelContents], orphans' \subseteq orphans,
           \A q \in orphans' : contents[q] # {} => contents'[q] # {}
    PROVE  SelIInv'
<1>0. selWrites' \in 0 .. MaxSelWrites
  BY SelectionAssumption DEF Elsewhere, SelIInv, SelShapes, SelectionTypeOK
<1>1. SelShapes'
  BY <1>0 DEF SelIInv, SelShapes, SelectionTypeOK, Elsewhere
<1>2. SelStages'
  BY DEF SelIInv, SelStages, Elsewhere, Scored, PackScore
<1>3. BootIsWatched'
  BY DEF SelIInv, BootIsWatched, Elsewhere
<1>4. StartsWhole'
  BY DEF SelIInv, StartsWhole, Elsewhere
<1> QED BY <1>1, <1>2, <1>3, <1>4 DEF Elsewhere, SelIInv, StaysInScope, ReasonIsNoted, OneReason, WordsDecide,
                                     ContentYields

LEMMA RowChangesKeeps == ASSUME SelIInv, NEW p \in SelPacks, RowChanges(p) PROVE SelIInv'
BY ElsewhereKeeps DEF SelIInv, SelShapes, RowChanges

LEMMA ManifestChangesKeeps == ASSUME SelIInv, NEW p \in SelPacks, ManifestChanges(p) PROVE SelIInv'
BY ElsewhereKeeps DEF SelIInv, SelShapes, ManifestChanges

LEMMA ContentChangesKeeps == ASSUME SelIInv, NEW p \in SelPacks, ContentChanges(p) PROVE SelIInv'
BY ElsewhereKeeps DEF SelIInv, SelShapes, ContentChanges

LEMMA SelectionNextKeeps == SelIInv /\ [SelectionNext]_selVars => SelIInv'
<1> SUFFICES ASSUME SelIInv, [SelectionNext]_selVars PROVE SelIInv'
  OBVIOUS
<1>1. CASE SelectionNext
  <2>1. ASSUME NEW p \in SelPacks, RowChanges(p) \/ ManifestChanges(p) \/ ContentChanges(p)
        PROVE  SelIInv'
    BY <2>1, RowChangesKeeps, ManifestChangesKeeps, ContentChangesKeeps
  <2> QED BY <1>1, <2>1, BootReadsRegistryKeeps, BootReadsGraphKeeps, ReadScopeKeeps, ListPacksKeeps,
             EnrichKeeps, ChooseByWordsKeeps, ChooseByContentKeeps, SearchPacksKeeps DEF SelectionNext
<1>2. CASE UNCHANGED selVars
  BY <1>2 DEF selVars, SelIInv, SelShapes, SelectionTypeOK, SelStages, Scored, PackScore, StaysInScope,
              ReasonIsNoted, OneReason, WordsDecide, ContentYields, BootIsWatched, StartsWhole
<1> QED BY <1>1, <1>2

LEMMA SelIInvIsSound == ASSUME MinScore <= 100, SelIInv PROVE SelectionIsSound
BY FS_Singleton DEF SaysWhy, SelIInv, ReasonIsNoted, OneReason, WordsDecide, ContentYields,
   NamesDecide, SelectionIsSound

\* SelectionIsSound: a query searches no pack that its caller could not read or
\* did not ask for, an automatic choice that chose nothing says why, and the
\* content of a pack decides nothing where a name is spelled out; for any
\* packs, words, rows and files, with a threshold that a name alone reaches
\* (services/pack_selection, ontology/pack_registry, pack/read_scope).
THEOREM SelectionStaysSound ==
    ASSUME MinScore <= 100
    PROVE  SelectionSpec => []SelectionIsSound
<1>1. SelectionInit /\ [][SelectionNext]_selVars => []SelIInv
  BY SelectionStartsSound, SelectionNextKeeps, PTL
<1> QED BY <1>1, SelIInvIsSound, PTL DEF SelectionSpec

-----------------------------------------------------------------------------
(* Vector search: the nearest of some rows.                                *)

RowsNearer(xs, x) == {y \in xs : RowDistance[y] < RowDistance[x]}

LEMMA NearestIs == ASSUME NEW xs, NEW n
                   PROVE  NearestOf(xs, n) = {x \in xs : Cardinality(RowsNearer(xs, x)) < n}
BY DEF NearestOf, RowsNearer

LEMMA RowsCount ==
    ASSUME NEW xs \in SUBSET SearchRows
    PROVE  IsFiniteSet(xs) /\ Cardinality(xs) \in Nat
BY SearchAssumption, FS_Subset, FS_CardinalityType

\* More rows are nearer in the larger of two sets, and to the farther of two rows.
LEMMA NearerGrows ==
    ASSUME NEW xs \in SUBSET SearchRows, NEW ys \in SUBSET xs, NEW x, NEW y,
           RowsNearer(ys, y) \subseteq RowsNearer(xs, x)
    PROVE  /\ Cardinality(RowsNearer(ys, y)) <= Cardinality(RowsNearer(xs, x))
           /\ Cardinality(RowsNearer(ys, y)) \in Nat /\ Cardinality(RowsNearer(xs, x)) \in Nat
BY RowsCount, FS_Subset DEF RowsNearer

\* What stands before a row of the nearest is nearer in rank.
LEMMA RanksDiffer ==
    ASSUME NEW xs \in SUBSET SearchRows, NEW x \in xs, NEW y \in xs, RowDistance[x] < RowDistance[y]
    PROVE  Cardinality(RowsNearer(xs, x)) < Cardinality(RowsNearer(xs, y))
BY SearchAssumption, RowsCount, FS_Subset DEF RowsNearer

\* NearestOf gives no more rows than it is asked for.
LEMMA NearestAreFew ==
    ASSUME NEW xs \in SUBSET SearchRows, NEW n \in Nat
    PROVE  Cardinality(NearestOf(xs, n)) <= n
<1> DEFINE few == NearestOf(xs, n)
           rank == [x \in few |-> Cardinality(RowsNearer(xs, x))]
           places == 0 .. n - 1
<1>1. few \in SUBSET xs /\ \A x \in few : Cardinality(RowsNearer(xs, x)) < n
  BY NearestIs
<1> HIDE DEF few
<1>2. \A x \in few : Cardinality(RowsNearer(xs, x)) \in places
  BY RowsCount, <1>1 DEF RowsNearer
<1>3. \A x, y \in few : rank[x] = rank[y] => x = y
  BY <1>1, <1>2, RanksDiffer, SearchAssumption
<1>4. rank \in [few -> places]
  BY <1>2
<1>5. rank \in Injection(few, places)
  <2> HIDE DEF rank, places
  <2> QED BY <1>3, <1>4 DEF Injection, IsInjective
<1>6. IsFiniteSet(places) /\ Cardinality(places) = n
  BY FS_Interval
<1> HIDE DEF rank, places
<1>7. Cardinality(few) <= Cardinality(places)
  BY <1>5, <1>6, FS_Injection
<1> QED BY <1>6, <1>7 DEF few

\* A row that NearestOf leaves out has as many nearer ones among those it gives.
LEMMA NearestAreNearest ==
    ASSUME NEW xs \in SUBSET SearchRows, NEW n \in Nat, NEW x \in SearchRows,
           Cardinality(RowsNearer(xs, x)) >= n
    PROVE  Cardinality(RowsNearer(NearestOf(xs, n), x)) >= n
<1> DEFINE few == NearestOf(xs, n)
           out == {y \in RowsNearer(xs, x) : ~(Cardinality(RowsNearer(xs, y)) < n)}
<1>1. few \in SUBSET xs /\ \A y \in xs : y \in few <=> Cardinality(RowsNearer(xs, y)) < n
  BY NearestIs
<1>2. RowDistance \in [SearchRows -> Nat]
  BY SearchAssumption
<1> HIDE DEF few
<1>3. CASE out = {}
  BY <1>1, <1>3 DEF RowsNearer, few
<1>4. CASE out # {}
  <2> DEFINE far == {RowDistance[y] : y \in out}
  <2>1. far \in SUBSET Nat /\ far # {}
    BY <1>2, <1>4 DEF RowsNearer
  <2>2. PICK d \in far : \A e \in far : d <= e
    <3> HIDE DEF far
    <3> QED BY <2>1, LeastNumber
  <2>3. PICK y \in out : d = RowDistance[y]
    BY <2>2
  <2>4. y \in xs /\ RowDistance[y] < RowDistance[x] /\ ~(Cardinality(RowsNearer(xs, y)) < n)
    BY <2>3 DEF RowsNearer
  <2>5. ASSUME NEW z \in RowsNearer(xs, y) PROVE z \in RowsNearer(few, x)
    <3>1. z \in xs /\ RowDistance[z] < RowDistance[y]
      BY DEF RowsNearer
    <3>2. RowDistance[z] \in Nat /\ RowDistance[x] \in Nat /\ RowDistance[y] \in Nat
      BY <1>2, <2>4, <3>1
    <3>3. RowDistance[z] < RowDistance[x]
      BY <2>4, <3>1, <3>2
    <3>4. z \notin out
      BY <2>2, <2>3, <3>1, <3>2
    <3>5. Cardinality(RowsNearer(xs, z)) < n
      BY <3>1, <3>3, <3>4 DEF RowsNearer
    <3> QED BY <1>1, <3>1, <3>3, <3>5 DEF RowsNearer
  <2>6. RowsNearer(xs, y) \in SUBSET SearchRows /\ RowsNearer(few, x) \in SUBSET SearchRows
        /\ RowsNearer(xs, y) \in SUBSET RowsNearer(few, x)
    BY <1>1, <2>5 DEF RowsNearer
  <2>7. /\ Cardinality(RowsNearer(xs, y)) <= Cardinality(RowsNearer(few, x))
        /\ Cardinality(RowsNearer(xs, y)) \in Nat /\ Cardinality(RowsNearer(few, x)) \in Nat
    BY <2>6, RowsCount, FS_Subset
  <2>8. Cardinality(RowsNearer(few, x)) >= n
    BY <2>4, <2>7
  <2> QED BY <2>8 DEF few
<1> QED BY <1>3, <1>4

\* So a row is given or is behind as many as were asked for.
LEMMA GivenOrBehind ==
    ASSUME NEW xs \in SUBSET SearchRows, NEW n \in Nat, NEW x \in SearchRows,
           x \in xs \/ Cardinality(RowsNearer(xs, x)) >= n
    PROVE  x \in NearestOf(xs, n) \/ Cardinality(RowsNearer(NearestOf(xs, n), x)) >= n
<1>1. RowsNearer(xs, x) \in SUBSET SearchRows
  BY DEF RowsNearer
<1>2. Cardinality(RowsNearer(xs, x)) \in Nat
  BY <1>1, RowsCount
<1>3. x \in xs => x \in NearestOf(xs, n) \/ Cardinality(RowsNearer(xs, x)) >= n
  BY <1>2, NearestIs
<1> QED BY <1>3, NearestAreNearest

\* The last rowid in use.
LEMMA MaxRowFacts ==
    ASSUME rowOf \in [SearchRows -> Nat], lastRow \in Nat, \A x \in SearchRows : rowOf[x] <= lastRow
    PROVE  MaxRow \in 0 .. lastRow /\ \A x \in SearchRows : rowOf[x] <= MaxRow
<1> DEFINE ns == {0} \cup {rowOf[x] : x \in SearchRows}
           bounds == {n \in Nat : \A m \in ns : m <= n}
<1>1. ns \in SUBSET Nat /\ 0 \in ns /\ \A m \in ns : m <= lastRow
  OBVIOUS
<1> HIDE DEF ns
<1>2. bounds \in SUBSET Nat /\ lastRow \in bounds
  BY <1>1
<1>3. PICK b \in bounds : \A n \in bounds : b <= n
  <2> HIDE DEF bounds
  <2> QED BY <1>2, LeastNumber
<1>4. b \in Nat /\ \A m \in ns : m <= b
  BY <1>3
<1>5. b \in ns
  BY <1>1, <1>4, <1>3
<1>6. \E m \in ns : \A k \in ns : m >= k
  BY <1>1, <1>4, <1>5
<1>7. Max(ns) \in ns /\ \A k \in ns : Max(ns) >= k
  BY <1>6 DEF Max
<1>8. MaxRow = Max(ns)
  BY DEF MaxRow, ns
<1>9. Max(ns) \in Nat /\ Max(ns) <= lastRow
  BY <1>1, <1>7
<1>10. ASSUME NEW x \in SearchRows PROVE rowOf[x] <= MaxRow
  BY <1>7, <1>8, <1>9 DEF ns
<1> QED BY <1>8, <1>9, <1>10

-----------------------------------------------------------------------------
(* Vector search: the inductive invariant.                                 *)

SearchSteps == {"idle", "look", "wait", "again", "publish", "refine", "scan", "packs", "whole",
                "answered", "invalidate"}
Caches == [ids : SUBSET SearchRows, max : Nat, built : BOOLEAN]

SearchShapes ==
    /\ rowOf \in [SearchRows -> Nat] /\ lastRow \in Nat /\ \A x \in SearchRows : rowOf[x] <= lastRow
    /\ allCommits \in 0 .. MaxVectorWrites /\ commitsOf \in [Connections -> 0 .. allCommits]
    /\ engine \in {"exact", "binary", "pg"}
    /\ annCache \in Caches /\ annLock \in {{}} \cup {{t} : t \in SearchThreads}
    /\ connVersion \in [SearchThreads -> 0 .. MaxVectorWrites + 1]
    /\ spc \in [SearchThreads -> SearchSteps]
    /\ question \in [SearchThreads -> UNION {Questions[t] : t \in SearchThreads}]
    /\ \A t \in SearchThreads : question[t] \in Questions[t]
    /\ inHand \in [SearchThreads -> Caches]
    /\ packsLeft = [t \in SearchThreads |-> packsLeft[t]]
    /\ found \in [SearchThreads -> SUBSET SearchRows]
    /\ mayDiffer \in [SearchThreads -> SUBSET SearchRows]

\* A cache has every row up to its last rowid.
CacheHolds(c) ==
    /\ c.max <= lastRow
    /\ c.built => \A x \in SearchRows : rowOf[x] # 0 /\ rowOf[x] <= c.max => x \in c.ids

\* What the scans of single packs have found so far.
PacksAreScanned(t) ==
    /\ Pushed(question[t]) /\ packsLeft[t] \subseteq question[t].packs
    /\ \A y \in found[t] : RowPack[y] \in question[t].packs
    /\ \A x \in Live \ mayDiffer[t] :
          RowPack[x] \in question[t].packs \ packsLeft[t] =>
             x \in found[t] \/ Cardinality(RowsNearer(found[t], x)) >= Fetch(question[t])

\* The rows that a question must be answered with, if no nearer ones stand before them.
Due(x, q) ==
    /\ MatchesFilter(x, q)
    /\ \/ Unfiltered(q)
       \/ Pushed(q) /\ q.space = AnySpace
       \/ Cardinality(RowsNearer(SearchRows, x)) < ScanLimit

AnswerFits(t) ==
    /\ \A x \in Live \ mayDiffer[t] :
          Due(x, question[t]) => x \in found[t] \/ Cardinality(RowsNearer(found[t], x)) >= ResultLimit
    /\ Cardinality(found[t]) <= ResultLimit
    /\ \A x \in found[t] : MatchesFilter(x, question[t])

ThreadIsSound(t) ==
    /\ CacheHolds(inHand[t])
    /\ spc[t] \in {"look", "wait", "publish", "refine", "scan"} => ~Pushed(question[t])
    /\ spc[t] \in {"publish", "refine"} => Live \ mayDiffer[t] \subseteq inHand[t].ids
    /\ spc[t] = "packs" => PacksAreScanned(t)
    /\ spc[t] = "answered" => AnswerFits(t)

SearchIInv == SearchShapes /\ CacheHolds(annCache) /\ \A t \in SearchThreads : ThreadIsSound(t)

-----------------------------------------------------------------------------
(* Vector search: what a step does to a thread.                            *)

\* A thread whose own state stays, while the rows stay.
LEMMA ThreadStays ==
    ASSUME NEW s, ThreadIsSound(s), rowOf' = rowOf, lastRow' = lastRow, spc'[s] = spc[s],
           question'[s] = question[s], inHand'[s] = inHand[s], packsLeft'[s] = packsLeft[s],
           found'[s] = found[s], mayDiffer'[s] = mayDiffer[s]
    PROVE  ThreadIsSound(s)'
BY DEF ThreadIsSound, CacheHolds, PacksAreScanned, AnswerFits, Live

\* A commit takes rows away or gives one a later rowid than every cache has.
LEMMA CommitFacts ==
    ASSUME SearchIInv, NEW c \in Connections, NEW x \in SearchRows, Commits(c, x)
    PROVE  /\ rowOf' \in [SearchRows -> Nat] /\ lastRow' \in Nat
           /\ \A y \in SearchRows : rowOf'[y] <= lastRow'
           /\ allCommits' \in 0 .. MaxVectorWrites /\ commitsOf' \in [Connections -> 0 .. allCommits']
           /\ mayDiffer' \in [SearchThreads -> SUBSET SearchRows]
           /\ \A y \in SearchRows \ {x} : rowOf'[y] = rowOf[y]
           /\ \A d \in Caches : CacheHolds(d) =>
                 /\ d.max <= lastRow'
                 /\ d.built => \A y \in SearchRows : rowOf'[y] # 0 /\ rowOf'[y] <= d.max => y \in d.ids
           /\ \A s \in SearchThreads : spc[s] \notin {"idle", "invalidate"} =>
                 Live' \ mayDiffer'[s] \subseteq Live \ mayDiffer[s]
<1>1. /\ rowOf \in [SearchRows -> Nat] /\ lastRow \in Nat /\ \A y \in SearchRows : rowOf[y] <= lastRow
      /\ allCommits \in 0 .. MaxVectorWrites /\ commitsOf \in [Connections -> 0 .. allCommits]
      /\ mayDiffer \in [SearchThreads -> SUBSET SearchRows] /\ MaxVectorWrites \in Nat
  BY SearchAssumption DEF SearchIInv, SearchShapes
<1>2. /\ \A y \in SearchRows \ {x} : rowOf'[y] = rowOf[y]
      /\ rowOf' \in [SearchRows -> Nat] /\ lastRow' \in {lastRow, lastRow + 1}
      /\ \/ rowOf'[x] = 0
         \/ rowOf'[x] = lastRow + 1 /\ lastRow' = lastRow + 1
  BY <1>1 DEF Commits
<1>3. \A y \in SearchRows : rowOf'[y] <= lastRow'
  BY <1>1, <1>2
<1>4. allCommits' = allCommits + 1 /\ allCommits' \in 0 .. MaxVectorWrites
  BY <1>1 DEF Commits
<1>5. commitsOf' \in [Connections -> 0 .. allCommits']
  BY <1>1, <1>4 DEF Commits
<1>6. /\ mayDiffer' \in [SearchThreads -> SUBSET SearchRows]
      /\ \A s \in SearchThreads : spc[s] \notin {"idle", "invalidate"} => mayDiffer'[s] = mayDiffer[s] \cup {x}
  BY <1>1 DEF Commits
<1>7. ASSUME NEW d \in Caches, CacheHolds(d)
      PROVE  /\ d.max <= lastRow'
             /\ d.built => \A y \in SearchRows : rowOf'[y] # 0 /\ rowOf'[y] <= d.max => y \in d.ids
  BY <1>7, <1>1, <1>2 DEF Caches, CacheHolds
<1>8. ASSUME NEW s \in SearchThreads, spc[s] \notin {"idle", "invalidate"}
      PROVE  Live' \ mayDiffer'[s] \subseteq Live \ mayDiffer[s]
  BY <1>2, <1>6, <1>8 DEF Live
<1> QED BY <1>1, <1>2, <1>3, <1>4, <1>5, <1>6, <1>7, <1>8

LEMMA CommitKeepsThreads ==
    ASSUME SearchIInv, NEW c \in Connections, NEW x \in SearchRows, Commits(c, x),
           NEW s \in SearchThreads,
           \/ spc'[s] = spc[s]
           \/ spc[s] = "idle" /\ spc'[s] = "invalidate",
           question'[s] = question[s], inHand'[s] = inHand[s], packsLeft'[s] = packsLeft[s],
           found'[s] = found[s]
    PROVE  ThreadIsSound(s)'
BY CommitFacts DEF SearchIInv, SearchShapes, ThreadIsSound, CacheHolds, PacksAreScanned, AnswerFits

\* What hits gives of some rows, whichever scan they come from.
LEMMA GivenAnswerFits ==
    ASSUME SearchIInv, NEW t \in SearchThreads, NEW rows \in SUBSET SearchRows, GiveAnswer(t, rows),
           rowOf' = rowOf, mayDiffer' = mayDiffer, question' = question,
           \A x \in Live \ mayDiffer[t] : Due(x, question[t]) =>
              \/ x \in rows
              \/ Cardinality(RowsNearer({y \in rows : MatchesFilter(y, question[t])}, x)) >= ResultLimit
    PROVE  /\ found' \in [SearchThreads -> SUBSET SearchRows] /\ AnswerFits(t)'
           /\ \A s \in SearchThreads \ {t} : found'[s] = found[s]
           /\ spc' = [spc EXCEPT ![t] = "answered"]
<1> DEFINE q == question[t]
           hits == {y \in rows : MatchesFilter(y, q)}
<1>1. ResultLimit \in Nat /\ found \in [SearchThreads -> SUBSET SearchRows]
  BY SearchAssumption DEF SearchIInv, SearchShapes
<1>2. NearestOf(hits, ResultLimit) \in SUBSET hits /\ hits \in SUBSET SearchRows
  BY NearestIs
<1>3. /\ found' = [found EXCEPT ![t] = NearestOf(hits, ResultLimit)]
      /\ spc' = [spc EXCEPT ![t] = "answered"]
  BY DEF GiveAnswer, GoTo
<1>4. found' \in [SearchThreads -> SUBSET SearchRows] /\ found'[t] = NearestOf(hits, ResultLimit)
  BY <1>1, <1>2, <1>3
<1>5. Cardinality(found'[t]) <= ResultLimit
  BY <1>1, <1>2, <1>4, NearestAreFew
<1>6. \A x \in found'[t] : MatchesFilter(x, q)
  BY <1>2, <1>4
<1>7. ASSUME NEW x \in Live \ mayDiffer[t], Due(x, q)
      PROVE  x \in found'[t] \/ Cardinality(RowsNearer(found'[t], x)) >= ResultLimit
  <2>1. x \in SearchRows /\ MatchesFilter(x, q)
    BY <1>7 DEF Live, Due
  <2>2. x \in hits \/ Cardinality(RowsNearer(hits, x)) >= ResultLimit
    BY <1>7, <2>1
  <2> HIDE DEF hits
  <2> QED BY <1>1, <1>2, <1>4, <2>1, <2>2, GivenOrBehind
<1>8. AnswerFits(t)'
  BY <1>5, <1>6, <1>7 DEF AnswerFits, Live
<1> QED BY <1>1, <1>3, <1>4, <1>8

-----------------------------------------------------------------------------
(* Vector search: one lemma per action.                                    *)

LEMMA NoCacheHolds == ASSUME lastRow \in Nat
                      PROVE  NoCache \in Caches /\ CacheHolds(NoCache)
BY DEF NoCache, Caches, CacheHolds

LEMMA SearchStartsSound == SearchInit => SearchIInv
<1> SUFFICES ASSUME SearchInit PROVE SearchIInv
  OBVIOUS
<1>1. PICK xs \in SUBSET SearchRows :
         rowOf = [x \in SearchRows |-> IF x \in xs THEN 1 + Cardinality({y \in xs : RowDistance[y] > RowDistance[x]}) ELSE 0]
  BY DEF SearchInit
<1>2. IsFiniteSet(xs) /\ Cardinality(xs) \in Nat
  BY RowsCount
<1>3. ASSUME NEW x \in xs
      PROVE  rowOf[x] \in Nat \ {0} /\ rowOf[x] <= Cardinality(xs)
  <2> DEFINE behind == {y \in xs : RowDistance[y] > RowDistance[x]}
  <2>1. RowDistance[x] \in Nat
    BY SearchAssumption
  <2>2. behind \in SUBSET (xs \ {x})
    BY <2>1
  <2>3. rowOf[x] = 1 + Cardinality(behind)
    BY <1>1
  <2> HIDE DEF behind
  <2>4. IsFiniteSet(xs \ {x}) /\ Cardinality(xs \ {x}) = Cardinality(xs) - 1
    BY <1>2, FS_RemoveElement
  <2>5. Cardinality(behind) <= Cardinality(xs \ {x}) /\ Cardinality(behind) \in Nat
    BY <2>2, <2>4, FS_Subset, FS_CardinalityType
  <2> QED BY <1>2, <2>3, <2>4, <2>5
<1>4. ASSUME NEW x \in SearchRows, x \notin xs PROVE rowOf[x] = 0
  BY <1>1, <1>4
<1>5. Live = xs
  BY <1>3, <1>4 DEF Live
<1>6. lastRow = Cardinality(xs)
  BY <1>5 DEF SearchInit
<1>7. /\ rowOf \in [SearchRows -> Nat] /\ lastRow \in Nat
      /\ \A x \in SearchRows : rowOf[x] <= lastRow
  <2>1. \A x \in SearchRows : rowOf[x] \in Nat /\ rowOf[x] <= lastRow
    BY <1>2, <1>3, <1>4, <1>6
  <2>2. DOMAIN rowOf = SearchRows /\ rowOf = [x \in SearchRows |-> rowOf[x]]
    BY <1>1
  <2> QED BY <1>2, <1>6, <2>1, <2>2
<1>8. MaxVectorWrites \in Nat /\ 0 \in 0 .. MaxVectorWrites /\ 0 \in 0 .. MaxVectorWrites + 1
  BY SearchAssumption
<1>9. allCommits \in 0 .. MaxVectorWrites /\ commitsOf \in [Connections -> 0 .. allCommits]
  BY <1>8 DEF SearchInit
<1>10. \A t \in SearchThreads : question[t] \in Questions[t]
  BY SearchAssumption DEF SearchInit
<1>11. question \in [SearchThreads -> UNION {Questions[t] : t \in SearchThreads}]
  BY <1>10 DEF SearchInit
<1>12. NoCache \in Caches /\ CacheHolds(NoCache)
  BY <1>7, NoCacheHolds
<1>13. connVersion \in [SearchThreads -> 0 .. MaxVectorWrites + 1]
  BY <1>8 DEF SearchInit
<1>14. SearchShapes
  BY <1>7, <1>9, <1>10, <1>11, <1>12, <1>13 DEF SearchInit, SearchShapes, SearchSteps
<1> QED BY <1>12, <1>14 DEF SearchInit, SearchIInv, ThreadIsSound

LEMMA OutsideWriteKeeps ==
    ASSUME SearchIInv, NEW c \in OutsideConnections, NEW x \in SearchRows, OutsideWrite(c, x)
    PROVE  SearchIInv'
BY CommitKeepsThreads, CommitFacts DEF Connections, OutsideWrite, SearchIInv, SearchShapes,
   CacheHolds

LEMMA WriteKeeps ==
    ASSUME SearchIInv, NEW t \in SearchThreads, NEW x \in SearchRows, Write(t, x)
    PROVE  SearchIInv'
BY CommitKeepsThreads, CommitFacts DEF Connections, Write, GoTo, SearchIInv, SearchShapes,
   SearchSteps, CacheHolds

\* A step of one thread leaves the others as they were.
LEMMA OwnStepKeeps ==
    ASSUME SearchIInv, NEW t \in SearchThreads, UNCHANGED <<storedRows, engine>>,
           annCache' \in Caches, CacheHolds(annCache)', annLock' \in {{}} \cup {{s} : s \in SearchThreads},
           connVersion' \in [SearchThreads -> 0 .. MaxVectorWrites + 1],
           spc' \in [SearchThreads -> SearchSteps], inHand' \in [SearchThreads -> Caches],
           question' \in [SearchThreads -> UNION {Questions[s] : s \in SearchThreads}],
           question'[t] \in Questions[t],
           packsLeft' = [s \in SearchThreads |-> packsLeft'[s]],
           found' \in [SearchThreads -> SUBSET SearchRows], mayDiffer' \in [SearchThreads -> SUBSET SearchRows],
           \A s \in SearchThreads \ {t} :
              /\ spc'[s] = spc[s] /\ question'[s] = question[s] /\ inHand'[s] = inHand[s]
              /\ packsLeft'[s] = packsLeft[s] /\ found'[s] = found[s] /\ mayDiffer'[s] = mayDiffer[s],
           ThreadIsSound(t)'
    PROVE  SearchIInv'
BY ThreadStays DEF storedRows, SearchIInv, SearchShapes

\* The same for a step that touches only where a thread is and the cache it uses.
LEMMA CacheStepKeeps ==
    ASSUME SearchIInv, NEW t \in SearchThreads, NEW l \in SearchSteps, NEW c \in Caches,
           UNCHANGED <<storedRows, engine, question, packsLeft, found, mayDiffer>>,
           annCache' \in Caches, CacheHolds(annCache)', annLock' \in {{}} \cup {{s} : s \in SearchThreads},
           connVersion' \in [SearchThreads -> 0 .. MaxVectorWrites + 1],
           GoTo(t, l), inHand' = [inHand EXCEPT ![t] = c], CacheHolds(c),
           l \in {"wait", "publish", "refine", "scan", "idle"},
           l # "idle" => ~Pushed(question[t]),
           l \in {"publish", "refine"} => Live \ mayDiffer[t] \subseteq c.ids
    PROVE  SearchIInv'
<1>0. rowOf' = rowOf /\ lastRow' = lastRow
  BY DEF storedRows
<1>1. /\ spc' \in [SearchThreads -> SearchSteps] /\ spc'[t] = l
      /\ inHand' \in [SearchThreads -> Caches] /\ inHand'[t] = c
      /\ \A s \in SearchThreads \ {t} : spc'[s] = spc[s] /\ inHand'[s] = inHand[s]
  BY DEF GoTo, SearchIInv, SearchShapes
<1>2. CacheHolds(inHand[t])'
  BY <1>0, <1>1 DEF CacheHolds
<1>3. Live' = Live
  BY <1>0 DEF Live
<1>4. ThreadIsSound(t)'
  BY <1>0, <1>1, <1>2, <1>3 DEF ThreadIsSound, Pushed, LargeScope
<1> QED BY <1>1, <1>4, OwnStepKeeps DEF SearchIInv, SearchShapes

LEMMA CacheStaysSound ==
    ASSUME SearchIInv, UNCHANGED <<storedRows, annCache>>
    PROVE  annCache' \in Caches /\ CacheHolds(annCache)'
BY DEF SearchIInv, SearchShapes, CacheHolds, storedRows

LEMMA InvalidateKeeps ==
    ASSUME SearchIInv, NEW t \in SearchThreads, Invalidate(t)
    PROVE  SearchIInv'
BY NoCacheHolds, CacheStepKeeps DEF SearchIInv, SearchShapes, Invalidate, CacheHolds, storedRows,
   ThreadIsSound, SearchSteps

LEMMA VersionNoted ==
    ASSUME SearchIInv, NEW t \in SearchThreads, Noted(t) \/ UNCHANGED connVersion
    PROVE  connVersion' \in [SearchThreads -> 0 .. MaxVectorWrites + 1]
BY SearchAssumption DEF Connections, SearchIInv, SearchShapes, DataVersion, Noted

\* A cache that is fresh has every row there is.
LEMMA FreshHasAll ==
    ASSUME SearchIInv, annCache.built, annCache.max = MaxRow
    PROVE  Live \subseteq annCache.ids
BY MaxRowFacts DEF SearchIInv, SearchShapes, CacheHolds, Live

LEMMA LookAtCacheKeeps ==
    ASSUME SearchIInv, NEW t \in SearchThreads, LookAtCache(t)
    PROVE  SearchIInv'
<1>1. connVersion' \in [SearchThreads -> 0 .. MaxVectorWrites + 1]
  BY VersionNoted DEF LookAtCache
<1>2. annCache' \in Caches /\ CacheHolds(annCache)' /\ annCache \in Caches /\ CacheHolds(annCache)
      /\ annLock' \in {{}} \cup {{s} : s \in SearchThreads}
  BY CacheStaysSound DEF LookAtCache, SearchIInv, SearchShapes
<1>3. ~Pushed(question[t])
  BY DEF LookAtCache, SearchIInv, ThreadIsSound
<1>4. {"wait", "refine"} \subseteq SearchSteps
  BY DEF SearchSteps
<1>5. CASE annCache.built /\ Fresh(t)
  <2>1. Live \subseteq annCache.ids
    BY <1>5, FreshHasAll DEF Fresh
  <2> QED BY <1>1, <1>2, <1>3, <1>4, <1>5, <2>1, CacheStepKeeps DEF LookAtCache, Use
<1>6. CASE ~(annCache.built /\ Fresh(t))
  <2>1. inHand' = [inHand EXCEPT ![t] = inHand[t]] /\ inHand[t] \in Caches /\ CacheHolds(inHand[t])
    BY <1>6 DEF LookAtCache, SearchIInv, SearchShapes, ThreadIsSound
  <2> QED BY <1>1, <1>2, <1>3, <1>4, <1>6, <2>1, CacheStepKeeps DEF LookAtCache
<1> QED BY <1>5, <1>6

LEMMA LookAgainKeeps ==
    ASSUME SearchIInv, NEW t \in SearchThreads, LookAgain(t)
    PROVE  SearchIInv'
<1>1. connVersion' \in [SearchThreads -> 0 .. MaxVectorWrites + 1]
  BY VersionNoted DEF LookAgain
<1>2. annCache' \in Caches /\ CacheHolds(annCache)' /\ annCache \in Caches /\ CacheHolds(annCache)
      /\ annLock \in {{}} \cup {{s} : s \in SearchThreads}
  BY CacheStaysSound DEF LookAgain, SearchIInv, SearchShapes
<1>3. ~Pushed(question[t])
  BY DEF LookAgain, SearchIInv, ThreadIsSound
<1>4. {"publish", "refine"} \subseteq SearchSteps
  BY DEF SearchSteps
<1>5. CASE annCache.built /\ Fresh(t)
  <2>1. Live \subseteq annCache.ids
    BY <1>5, FreshHasAll DEF Fresh
  <2> QED BY <1>1, <1>2, <1>3, <1>4, <1>5, <2>1, CacheStepKeeps DEF LookAgain, Use
<1>6. CASE ~(annCache.built /\ Fresh(t))
  <2> DEFINE c == [ids |-> Live, max |-> MaxRow, built |-> TRUE]
  <2>1. MaxRow \in 0 .. lastRow /\ lastRow \in Nat
    BY MaxRowFacts DEF SearchIInv, SearchShapes
  <2>2. c \in Caches /\ CacheHolds(c) /\ c.ids = Live
    BY <2>1 DEF Caches, CacheHolds, Live
  <2>3. inHand' = [inHand EXCEPT ![t] = c] /\ GoTo(t, "publish") /\ annLock' = {t}
    BY <1>6 DEF LookAgain
  <2> HIDE DEF c
  <2> QED BY <1>1, <1>2, <1>3, <1>4, <2>2, <2>3, CacheStepKeeps DEF LookAgain
<1> QED BY <1>5, <1>6

LEMMA PublishCacheKeeps ==
    ASSUME SearchIInv, NEW t \in SearchThreads, PublishCache(t)
    PROVE  SearchIInv'
BY CacheStepKeeps DEF PublishCache, SearchIInv, SearchShapes, ThreadIsSound, CacheHolds, storedRows,
   SearchSteps

LEMMA BuildFailsKeeps ==
    ASSUME SearchIInv, NEW t \in SearchThreads, BuildFails(t)
    PROVE  SearchIInv'
BY NoCacheHolds, CacheStepKeeps DEF SearchIInv, SearchShapes, BuildFails, CacheHolds, storedRows,
   ThreadIsSound, SearchSteps

LEMMA AskKeeps ==
    ASSUME SearchIInv, NEW t \in SearchThreads, NEW q \in Questions[t], Ask(t, q)
    PROVE  SearchIInv'
<1> DEFINE l == IF engine = "pg" THEN "whole"
                ELSE IF Pushed(q) THEN "packs"
                ELSE IF engine = "binary" /\ (Unfiltered(q) \/ LargeScope(q)) THEN "look" ELSE "scan"
<1>1. /\ spc' = [spc EXCEPT ![t] = l] /\ question' = [question EXCEPT ![t] = q]
      /\ found' = [found EXCEPT ![t] = {}] /\ mayDiffer' = [mayDiffer EXCEPT ![t] = {}]
      /\ packsLeft' = [packsLeft EXCEPT ![t] = IF Pushed(q) THEN q.packs ELSE {}]
      /\ UNCHANGED <<storedRows, engine, annCache, annLock, connVersion, inHand>>
  BY DEF Ask, GoTo
<1>2. /\ l \in {"whole", "packs", "look", "scan"} /\ l \in SearchSteps
      /\ l = "packs" => Pushed(q)
      /\ l \in {"look", "scan"} => ~Pushed(q)
  BY DEF SearchSteps
<1> HIDE DEF l
<1>3. /\ spc' \in [SearchThreads -> SearchSteps] /\ spc'[t] = l
      /\ question' \in [SearchThreads -> UNION {Questions[s] : s \in SearchThreads}] /\ question'[t] = q
      /\ found' \in [SearchThreads -> SUBSET SearchRows] /\ found'[t] = {}
      /\ mayDiffer' \in [SearchThreads -> SUBSET SearchRows]
      /\ packsLeft' = [s \in SearchThreads |-> packsLeft'[s]]
      /\ Pushed(q) => packsLeft'[t] = q.packs
  BY <1>1, <1>2 DEF SearchIInv, SearchShapes
<1>4. annCache' \in Caches /\ CacheHolds(annCache)'
  BY <1>1, CacheStaysSound
<1>5. CacheHolds(inHand[t])' /\ inHand' \in [SearchThreads -> Caches]
  BY <1>1 DEF SearchIInv, SearchShapes, ThreadIsSound, CacheHolds, storedRows
<1>6. l = "packs" => PacksAreScanned(t)'
  BY <1>2, <1>3 DEF PacksAreScanned, Pushed, LargeScope
<1>7. ThreadIsSound(t)'
  BY <1>2, <1>3, <1>5, <1>6 DEF ThreadIsSound, Pushed, LargeScope
<1>8. \A s \in SearchThreads \ {t} :
         /\ spc'[s] = spc[s] /\ question'[s] = question[s] /\ inHand'[s] = inHand[s]
         /\ packsLeft'[s] = packsLeft[s] /\ found'[s] = found[s] /\ mayDiffer'[s] = mayDiffer[s]
  BY <1>1 DEF SearchIInv, SearchShapes
<1> QED BY <1>1, <1>3, <1>4, <1>5, <1>7, <1>8, OwnStepKeeps DEF SearchIInv, SearchShapes

\* A step that answers.
LEMMA AnsweringKeeps ==
    ASSUME SearchIInv, NEW t \in SearchThreads, NEW rows \in SUBSET SearchRows, GiveAnswer(t, rows),
           UNCHANGED <<storedRows, engine, annCache, annLock, connVersion, question, mayDiffer>>,
           inHand' \in {inHand, [inHand EXCEPT ![t] = NoCache]},
           packsLeft' = [s \in SearchThreads |-> packsLeft'[s]],
           \A s \in SearchThreads \ {t} : packsLeft'[s] = packsLeft[s],
           \A x \in Live \ mayDiffer[t] : Due(x, question[t]) =>
              \/ x \in rows
              \/ Cardinality(RowsNearer({y \in rows : MatchesFilter(y, question[t])}, x)) >= ResultLimit
    PROVE  SearchIInv'
<1>0. rowOf' = rowOf /\ lastRow' = lastRow
  BY DEF storedRows
<1>1. /\ found' \in [SearchThreads -> SUBSET SearchRows] /\ AnswerFits(t)'
      /\ \A s \in SearchThreads \ {t} : found'[s] = found[s]
      /\ spc' = [spc EXCEPT ![t] = "answered"]
  BY <1>0, GivenAnswerFits
<1>2. NoCache \in Caches /\ CacheHolds(NoCache)
  BY NoCacheHolds DEF SearchIInv, SearchShapes
<1>3. /\ inHand' \in [SearchThreads -> Caches] /\ CacheHolds(inHand[t])'
      /\ \A s \in SearchThreads \ {t} : inHand'[s] = inHand[s]
  BY <1>0, <1>2 DEF SearchIInv, SearchShapes, ThreadIsSound, CacheHolds
<1>4. /\ spc' \in [SearchThreads -> SearchSteps] /\ spc'[t] = "answered"
      /\ \A s \in SearchThreads \ {t} : spc'[s] = spc[s]
  BY <1>1 DEF SearchIInv, SearchShapes, SearchSteps
<1>5. ThreadIsSound(t)'
  BY <1>1, <1>3, <1>4 DEF ThreadIsSound
<1>6. annCache' \in Caches /\ CacheHolds(annCache)'
  BY CacheStaysSound
<1> QED BY <1>1, <1>3, <1>4, <1>5, <1>6, OwnStepKeeps DEF SearchIInv, SearchShapes

LEMMA RefineKeeps ==
    ASSUME SearchIInv, NEW t \in SearchThreads, Refine(t)
    PROVE  SearchIInv'
BY AnsweringKeeps DEF Refine, Live, SearchIInv, ThreadIsSound, SearchShapes

\* What was fetched is enough, since it was cut short only where all of it is asked for.
LEMMA FetchedIsEnough ==
    ASSUME NEW rows \in SUBSET SearchRows, NEW q, NEW x \in SearchRows, Due(x, q),
           Unfiltered(q) \/ (Pushed(q) /\ q.space = AnySpace) => \A y \in rows : MatchesFilter(y, q),
           x \in rows \/ Cardinality(RowsNearer(rows, x)) >= Fetch(q)
    PROVE  \/ x \in rows
           \/ Cardinality(RowsNearer({y \in rows : MatchesFilter(y, q)}, x)) >= ResultLimit
<1>1. CASE Unfiltered(q) \/ (Pushed(q) /\ q.space = AnySpace)
  BY <1>1 DEF Fetch
<1>2. CASE ~(Unfiltered(q) \/ (Pushed(q) /\ q.space = AnySpace))
  <2>1. Fetch(q) = ScanLimit /\ ScanLimit \in Nat /\ Cardinality(RowsNearer(SearchRows, x)) < ScanLimit
    BY <1>2, SearchAssumption DEF Fetch, Due
  <2>2. RowsNearer(rows, x) \subseteq RowsNearer(SearchRows, x) /\ SearchRows \in SUBSET SearchRows
    BY DEF RowsNearer
  <2>3. /\ Cardinality(RowsNearer(rows, x)) <= Cardinality(RowsNearer(SearchRows, x))
        /\ Cardinality(RowsNearer(rows, x)) \in Nat /\ Cardinality(RowsNearer(SearchRows, x)) \in Nat
    BY <2>2, NearerGrows
  <2> QED BY <2>1, <2>3
<1> QED BY <1>1, <1>2

LEMMA FetchIsNat == ASSUME NEW q PROVE Fetch(q) \in Nat
BY SearchAssumption DEF Fetch

LEMMA ScanKeeps ==
    ASSUME SearchIInv, NEW t \in SearchThreads, Scan(t)
    PROVE  SearchIInv'
<1> DEFINE q == question[t]
           rows == NearestOf(Live, Fetch(q))
<1>1. GiveAnswer(t, rows) /\ ~Pushed(q)
  BY DEF Scan, SearchIInv, ThreadIsSound
<1>2. Live \in SUBSET SearchRows /\ rows \in SUBSET SearchRows
  BY NearestIs DEF Live
<1>3. Unfiltered(q) => \A y \in rows : MatchesFilter(y, q)
  BY DEF Unfiltered, MatchesFilter
<1>4. \A x \in Live : x \in rows \/ Cardinality(RowsNearer(rows, x)) >= Fetch(q)
  BY <1>2, FetchIsNat, GivenOrBehind
<1> HIDE DEF rows
<1>5. ASSUME NEW x \in Live \ mayDiffer[t], Due(x, q)
      PROVE  \/ x \in rows
             \/ Cardinality(RowsNearer({y \in rows : MatchesFilter(y, q)}, x)) >= ResultLimit
  BY <1>2, <1>1, <1>3, <1>4, <1>5, FetchedIsEnough
<1> QED BY <1>1, <1>2, <1>5, AnsweringKeeps DEF Scan, SearchIInv, SearchShapes

LEMMA PgScanKeeps ==
    ASSUME SearchIInv, NEW t \in SearchThreads, PgScan(t)
    PROVE  SearchIInv'
<1> DEFINE q == question[t]
           rows == NearestOf(FilteredRows(q), ResultLimit)
<1>1. GiveAnswer(t, rows)
  BY DEF PgScan
<1>2. FilteredRows(q) \in SUBSET SearchRows /\ rows \in SUBSET FilteredRows(q) /\ ResultLimit \in Nat
  BY NearestIs, SearchAssumption DEF FilteredRows, Live
<1>3. \A x \in FilteredRows(q) : x \in rows \/ Cardinality(RowsNearer(rows, x)) >= ResultLimit
  BY <1>2, GivenOrBehind
<1> HIDE DEF rows
<1>4. {y \in rows : MatchesFilter(y, q)} = rows
  BY <1>2 DEF FilteredRows
<1>5. \A x \in Live : Due(x, q) => x \in FilteredRows(q)
  BY DEF Due, FilteredRows
<1>6. rows \in SUBSET SearchRows
  BY <1>2
<1> QED BY <1>1, <1>3, <1>4, <1>5, <1>6, AnsweringKeeps DEF PgScan, SearchIInv, SearchShapes

RowsOfPack(p) == {x \in Live : RowPack[x] = p}
FoundWith(t, p) == found[t] \cup NearestOf(RowsOfPack(p), Fetch(question[t]))

\* One more pack is scanned.
LEMMA PackIsScanned ==
    ASSUME SearchIInv, NEW t \in SearchThreads, spc[t] = "packs", NEW p \in packsLeft[t]
    PROVE  /\ FoundWith(t, p) \in SUBSET SearchRows
           /\ \A y \in FoundWith(t, p) : RowPack[y] \in question[t].packs
           /\ \A x \in Live \ mayDiffer[t] :
                 RowPack[x] \in question[t].packs \ (packsLeft[t] \ {p}) =>
                    x \in FoundWith(t, p) \/ Cardinality(RowsNearer(FoundWith(t, p), x)) >= Fetch(question[t])
<1> DEFINE q == question[t]
           rows == FoundWith(t, p)
           own == RowsOfPack(p)
           few == NearestOf(own, Fetch(q))
<1>1. own \in SUBSET SearchRows /\ few \in SUBSET own
  BY NearestIs DEF RowsOfPack, Live
<1>2. found[t] \in SUBSET SearchRows /\ PacksAreScanned(t)
  BY DEF SearchIInv, SearchShapes, ThreadIsSound
<1>3. rows = found[t] \cup few /\ rows \in SUBSET SearchRows
  BY <1>1, <1>2 DEF FoundWith
<1> HIDE DEF rows
<1>4. p \in q.packs
  BY <1>2 DEF PacksAreScanned
<1>5. \A y \in rows : RowPack[y] \in q.packs
  <2>1. \A y \in few : RowPack[y] = p
    BY <1>1 DEF RowsOfPack
  <2> HIDE DEF few
  <2> QED BY <1>2, <1>3, <1>4, <2>1 DEF PacksAreScanned
<1>6. ASSUME NEW x \in Live \ mayDiffer[t], RowPack[x] \in q.packs \ (packsLeft[t] \ {p})
      PROVE  x \in rows \/ Cardinality(RowsNearer(rows, x)) >= Fetch(q)
  <2>0. x \in SearchRows /\ Fetch(q) \in Nat
    BY FetchIsNat DEF Live
  <2>1. CASE RowPack[x] = p
    <3>1. x \in few \/ Cardinality(RowsNearer(few, x)) >= Fetch(q)
      BY <2>1, <1>1, <2>0, GivenOrBehind DEF RowsOfPack
    <3>2. RowsNearer(few, x) \subseteq RowsNearer(rows, x) /\ few \in SUBSET rows
      BY <1>3 DEF RowsNearer
    <3> HIDE DEF few
    <3>3. /\ Cardinality(RowsNearer(few, x)) <= Cardinality(RowsNearer(rows, x))
          /\ Cardinality(RowsNearer(few, x)) \in Nat /\ Cardinality(RowsNearer(rows, x)) \in Nat
      BY <1>3, <3>2, NearerGrows
    <3> QED BY <1>3, <2>0, <3>1, <3>3
  <2>2. CASE RowPack[x] # p
    <3>1. x \in found[t] \/ Cardinality(RowsNearer(found[t], x)) >= Fetch(q)
      BY <1>2, <1>6, <2>2 DEF PacksAreScanned
    <3>2. RowsNearer(found[t], x) \subseteq RowsNearer(rows, x) /\ found[t] \in SUBSET rows
      BY <1>3 DEF RowsNearer
    <3>3. /\ Cardinality(RowsNearer(found[t], x)) <= Cardinality(RowsNearer(rows, x))
          /\ Cardinality(RowsNearer(found[t], x)) \in Nat /\ Cardinality(RowsNearer(rows, x)) \in Nat
      BY <1>3, <3>2, NearerGrows
    <3> QED BY <1>3, <2>0, <3>1, <3>3
  <2> QED BY <2>1, <2>2
<1> QED BY <1>3, <1>5, <1>6 DEF rows

LEMMA ScanPackKeeps ==
    ASSUME SearchIInv, NEW t \in SearchThreads, ScanPack(t)
    PROVE  SearchIInv'
<1> DEFINE q == question[t]
<1>0. spc[t] = "packs"
  BY DEF ScanPack
<1>1. PICK p \in packsLeft[t] :
         /\ packsLeft' = [packsLeft EXCEPT ![t] = @ \ {p}]
         /\ IF packsLeft[t] = {p} THEN GiveAnswer(t, FoundWith(t, p))
            ELSE found' = [found EXCEPT ![t] = FoundWith(t, p)] /\ UNCHANGED spc
  BY DEF ScanPack, FoundWith, RowsOfPack
<1> DEFINE rows == FoundWith(t, p)
<1>2. /\ rows \in SUBSET SearchRows
      /\ \A y \in rows : RowPack[y] \in q.packs
      /\ \A x \in Live \ mayDiffer[t] :
            RowPack[x] \in q.packs \ (packsLeft[t] \ {p}) =>
               x \in rows \/ Cardinality(RowsNearer(rows, x)) >= Fetch(q)
  BY <1>0, PackIsScanned
<1> HIDE DEF rows
<1>3. Pushed(q) /\ packsLeft[t] \subseteq q.packs
  BY DEF ScanPack, SearchIInv, ThreadIsSound, PacksAreScanned
<1>4. /\ packsLeft' = [s \in SearchThreads |-> packsLeft'[s]] /\ packsLeft'[t] = packsLeft[t] \ {p}
      /\ \A s \in SearchThreads \ {t} : packsLeft'[s] = packsLeft[s]
  BY <1>1 DEF SearchIInv, SearchShapes
<1>5. CASE packsLeft[t] = {p}
  <2>1. q.space = AnySpace => \A y \in rows : MatchesFilter(y, q)
    BY <1>2 DEF MatchesFilter
  <2>2. ~Unfiltered(q)
    BY <1>3 DEF Unfiltered, Pushed
  <2>3. ASSUME NEW x \in Live \ mayDiffer[t], Due(x, q)
        PROVE  \/ x \in rows
               \/ Cardinality(RowsNearer({y \in rows : MatchesFilter(y, q)}, x)) >= ResultLimit
    <3>1. x \in SearchRows /\ RowPack[x] \in q.packs
      BY <1>3, <2>3 DEF Live, Due, MatchesFilter, Pushed
    <3>2. x \in rows \/ Cardinality(RowsNearer(rows, x)) >= Fetch(q)
      BY <1>2, <1>5, <3>1
    <3> QED BY <1>2, <2>1, <2>2, <2>3, <3>1, <3>2, FetchedIsEnough
  <2>4. GiveAnswer(t, rows)
    BY <1>1, <1>5 DEF rows
  <2> QED BY <1>2, <1>4, <2>3, <2>4, AnsweringKeeps DEF ScanPack
<1>6. CASE packsLeft[t] # {p}
  <2>1. found' = [found EXCEPT ![t] = rows] /\ spc' = spc
    BY <1>1, <1>6 DEF rows
  <2>2. /\ found' \in [SearchThreads -> SUBSET SearchRows] /\ found'[t] = rows
        /\ \A s \in SearchThreads \ {t} : found'[s] = found[s]
    BY <1>2, <2>1 DEF SearchIInv, SearchShapes
  <2>3. rowOf' = rowOf /\ lastRow' = lastRow /\ question' = question /\ mayDiffer' = mayDiffer
    BY DEF ScanPack, storedRows
  <2>4. PacksAreScanned(t)'
    BY <1>2, <1>3, <1>4, <2>2, <2>3 DEF PacksAreScanned, Live
  <2>5. ThreadIsSound(t)'
    BY <2>1, <2>3, <2>4 DEF ScanPack, SearchIInv, ThreadIsSound, CacheHolds
  <2>6. annCache' \in Caches /\ CacheHolds(annCache)'
    BY CacheStaysSound DEF ScanPack
  <2> QED BY <1>4, <2>1, <2>2, <2>3, <2>5, <2>6, OwnStepKeeps DEF ScanPack, SearchIInv, SearchShapes
<1> QED BY <1>5, <1>6

LEMMA SearchNextKeeps == SearchIInv /\ [SearchNext]_searchVars => SearchIInv'
<1> SUFFICES ASSUME SearchIInv, [SearchNext]_searchVars PROVE SearchIInv'
  OBVIOUS
<1>1. ASSUME NEW c \in OutsideConnections, NEW x \in SearchRows, OutsideWrite(c, x) PROVE SearchIInv'
  BY <1>1, OutsideWriteKeeps
<1>2. ASSUME NEW t \in SearchThreads, NEW x \in SearchRows, Write(t, x) PROVE SearchIInv'
  BY <1>2, WriteKeeps
<1>3. ASSUME NEW t \in SearchThreads, NEW q \in Questions[t], Ask(t, q) PROVE SearchIInv'
  BY <1>3, AskKeeps
<1>4. ASSUME NEW t \in SearchThreads,
             \/ Invalidate(t) \/ ScanPack(t) \/ Scan(t) \/ PgScan(t)
             \/ LookAtCache(t) \/ LookAgain(t) \/ PublishCache(t) \/ BuildFails(t) \/ Refine(t)
      PROVE  SearchIInv'
  BY <1>4, InvalidateKeeps, ScanPackKeeps, ScanKeeps, PgScanKeeps, LookAtCacheKeeps, LookAgainKeeps,
     PublishCacheKeeps, BuildFailsKeeps, RefineKeeps
<1>5. CASE UNCHANGED searchVars
  BY <1>5, ThreadStays DEF searchVars, storedRows, SearchIInv, SearchShapes, CacheHolds
<1> QED BY <1>1, <1>2, <1>3, <1>4, <1>5 DEF SearchNext

LEMMA SearchIInvIsSound == SearchIInv => SearchIsSound /\ SearchTypeOK
<1> SUFFICES ASSUME SearchIInv PROVE SearchIsSound /\ SearchTypeOK
  OBVIOUS
<1>1. ASSUME NEW t \in SearchThreads, spc[t] = "answered" PROVE AnswerFits(t)
  BY <1>1 DEF SearchIInv, ThreadIsSound
<1>2. NothingNearIsMissed
  BY <1>1 DEF NothingNearIsMissed, AnswerFits, Due, RowsNearer
<1>3. HitsAreAskedFor
  BY <1>1 DEF HitsAreAskedFor, AnswerFits
<1>4. rowOf \in [SearchRows -> 0 .. lastRow]
  BY DEF SearchIInv, SearchShapes
<1>5. annCache.ids \subseteq SearchRows /\ annCache.max \in 0 .. lastRow
  BY DEF SearchIInv, SearchShapes, CacheHolds, Caches
<1>6. annLock \subseteq SearchThreads /\ Cardinality(annLock) <= 1
  <2>1. CASE annLock = {}
    BY <2>1, FS_EmptySet
  <2>2. ASSUME NEW t \in SearchThreads, annLock = {t} PROVE annLock \subseteq SearchThreads /\ Cardinality(annLock) <= 1
    BY <2>2, FS_Singleton
  <2> QED BY <2>1, <2>2 DEF SearchIInv, SearchShapes
<1>7. SearchTypeOK
  BY <1>4, <1>5, <1>6 DEF SearchTypeOK, SearchIInv, SearchShapes, SearchSteps
<1> QED BY <1>2, <1>3, <1>7 DEF SearchIsSound

\* SearchIsSound: a vector search misses no row that was there all the time and is
\* among the nearest it asks for, on the three strategies of sqlite-vec and on
\* pgvector, whatever other threads and processes write, and it gives no row
\* outside the filter (stores/sqlite_vec_store, stores/pgvector_store).
THEOREM NearestAreFound == SearchSpec => []SearchIsSound
<1>1. SearchSpec => []SearchIInv
  BY SearchStartsSound, SearchNextKeeps, PTL DEF SearchSpec
<1> QED BY <1>1, SearchIInvIsSound, PTL

-----------------------------------------------------------------------------
(* Types of the pruned search and of the slots, on top of their invariants. *)

PruneRest ==
    /\ dead \cap candidates = {} /\ chosen \subseteq Documents
    /\ \A d \in Documents : partial[d] <= Bound(Terms)

\* What the scanned terms add stays within the bounds of all terms.
WithinBounds == \A d \in candidates \ exact : partial[d] <= Bound(Terms)

LEMMA ScannedIsBounded == PruneIInv => WithinBounds
BY AddedIsNatural, BoundIsNatural, ScoreIsSplit, ScoreIsBounded DEF WithinBounds, PruneIInv,
   PruneTypes, CandidatesAreScanned

LEMMA PruneRestStarts == PruneInit => PruneRest
BY BoundIsNatural DEF PruneInit, PruneRest

\* Only a candidate without its whole score is added to.
LEMMA PruneRestStays ==
    ASSUME PruneIInv, PruneRest, [PruneNext]_pruneVars,
           \A d \in candidates' \ exact' : partial'[d] <= Bound(Terms)
    PROVE  PruneRest'
<1>0. PruneTypes
  BY DEF PruneIInv
<1>1. ASSUME \A d \in Documents : partial'[d] = partial[d] \/ d \in candidates' \ exact',
             dead' \cap candidates' = {}, chosen' \subseteq Documents
      PROVE  PruneRest'
  BY <1>1 DEF PruneRest, Bound, SumOver
<1>2. CASE Prune \/ FinishCandidates \/ Choose \/ UNCHANGED pruneVars
  BY <1>0, <1>2, <1>1 DEF PruneRest, Prune, FinishCandidates, Choose, pruneVars, PruneTypes
<1>3. CASE TakeTerm
  BY <1>3, <1>0, <1>1 DEF PruneRest, TakeTerm, NewDocuments, Adds, PruneTypes
<1>4. ASSUME NEW t \in Terms, ScanPending(t) PROVE PruneRest'
  BY <1>4, <1>0, <1>1 DEF PruneRest, ScanPending, Adds, PruneTypes
<1> QED BY <1>2, <1>3, <1>4 DEF PruneNext

LEMMA PruneNextKeeps == PruneIInv /\ [PruneNext]_pruneVars => PruneIInv'
BY PruneKeeps, ScanPendingKeeps, FinishCandidatesKeeps, TakeTermKeeps, ChooseKeeps, PruneStutters DEF PruneNext

LEMMA PruneRestKeeps == PruneIInv /\ PruneRest /\ [PruneNext]_pruneVars => PruneRest'
<1>1. PruneIInv' => WithinBounds'
  BY ScannedIsBounded, PTL
<1>2. Bound(Terms)' = Bound(Terms)
  BY DEF Bound, SumOver
<1> QED BY <1>1, <1>2, PruneNextKeeps, PruneRestStays DEF WithinBounds

LEMMA PruneIsTyped == PruneIInv /\ PruneRest => PruneTypeOK
BY BoundIsNatural DEF PruneIInv, PruneTypes, PruneRest, PruneTypeOK

\* What a call has read and staged is of its own ids, and each row is staged once.
SlotsRest ==
    /\ result \in [VectorWriters -> {"none", "ok", "refused", "failed", "lost"}]
    /\ \A w \in VectorWriters :
          /\ nextItem[w] <= Len(batch[w].items) + 1 /\ DOMAIN snapshot[w] \subseteq Ids(batch[w])
          /\ vpc[w] = "idle" => nextItem[w] = 1 /\ DOMAIN snapshot[w] = {}

LEMMA SlotsRestStarts == VectorInit => SlotsRest
BY VectorStartsWell, ItemsAreTyped DEF VectorIInv, SlotTypes, VectorInit, SlotsRest

\* The steps that leave the calls and their places alone.
LEMMA SlotsRestStays ==
    ASSUME VectorIInv, SlotsRest, UNCHANGED <<batch, nextItem>>,
           result' \in [VectorWriters -> {"none", "ok", "refused", "failed", "lost"}],
           \A w \in VectorWriters : vpc'[w] = "idle" => vpc[w] = "idle",
           \A w \in VectorWriters : \/ snapshot'[w] = snapshot[w] \/ snapshot'[w] = <<>>
                                    \/ vpc'[w] # "idle" /\ DOMAIN snapshot'[w] = Ids(batch[w])
    PROVE  SlotsRest'
BY DEF SlotsRest, Ids

LEMMA EndingIsTyped ==
    ASSUME VectorIInv, SlotsRest, NEW w \in VectorWriters, NEW r \in {"ok", "refused", "failed", "lost"},
           EndBatch(w, r)
    PROVE  /\ result' \in [VectorWriters -> {"none", "ok", "refused", "failed", "lost"}]
           /\ \A v \in VectorWriters : vpc'[v] = "idle" => vpc[v] = "idle"
BY DEF EndBatch, VectorIInv, SlotTypes, SlotsRest

LEMMA MovingIsTyped ==
    ASSUME VectorIInv, SlotsRest, NEW w \in VectorWriters, NEW to, to # "idle",
           vpc' = [vpc EXCEPT ![w] = to], UNCHANGED result
    PROVE  /\ result' \in [VectorWriters -> {"none", "ok", "refused", "failed", "lost"}]
           /\ \A v \in VectorWriters : vpc'[v] = "idle" => vpc[v] = "idle"
BY DEF VectorIInv, SlotTypes, SlotsRest

LEMMA UnlockingForgets ==
    ASSUME VectorIInv, NEW w \in VectorWriters, Unlock(w)
    PROVE  \A v \in VectorWriters : snapshot'[v] = snapshot[v] \/ snapshot'[v] = <<>>
BY DEF Unlock, VectorIInv, SlotTypes

LEMMA StartTyped ==
    ASSUME VectorIInv, VectorIInv', SlotsRest, NEW w \in VectorWriters, Start(w) PROVE SlotsRest'
<1>1. vpc[w] = "idle" /\ UNCHANGED <<nextItem, snapshot>>
  BY DEF Start
<1>2. /\ result' \in [VectorWriters -> {"none", "ok", "refused", "failed", "lost"}]
      /\ \A v \in VectorWriters : vpc'[v] = "idle" => vpc[v] = "idle"
      /\ \A v \in VectorWriters \ {w} : batch'[v] = batch[v]
  <2>2. \A v \in VectorWriters \ {w} : vpc'[v] = vpc[v] /\ batch'[v] = batch[v]
    BY DEF Start, EndBatch, VectorIInv, SlotTypes
  <2>3. result' \in [VectorWriters -> {"none", "ok", "refused", "failed", "lost"}]
    BY DEF Start, EndBatch, SlotsRest
  <2> QED BY <1>1, <2>2, <2>3
<1>3. Len(batch'[w].items) \in Nat
  BY ItemsAreTyped DEF VectorIInv, SlotTypes
<1>4. ASSUME NEW v \in VectorWriters
      PROVE  /\ nextItem'[v] <= Len(batch'[v].items) + 1 /\ DOMAIN snapshot'[v] \subseteq Ids(batch'[v])
             /\ vpc'[v] = "idle" => nextItem'[v] = 1 /\ DOMAIN snapshot'[v] = {}
  BY <1>1, <1>2, <1>3 DEF SlotsRest
<1> QED BY <1>2, <1>4 DEF SlotsRest, Ids

LEMMA PgStatementTyped ==
    ASSUME VectorIInv, SlotsRest, NEW w \in VectorWriters, PgStatement(w) PROVE SlotsRest'
<1>1. CASE EndBatch(w, "failed") /\ UNCHANGED nextItem
  BY <1>1, EndingIsTyped, SlotsRestStays DEF PgStatement
<1>2. CASE nextItem' = [nextItem EXCEPT ![w] = @ + 1] /\ UNCHANGED <<vpc, result>>
  <2>1. /\ nextItem[w] <= Len(batch[w].items) /\ UNCHANGED <<batch, snapshot>>
        /\ Len(batch[w].items) \in Nat /\ nextItem \in [VectorWriters -> Nat \ {0}] /\ vpc[w] = "write"
    BY ItemsAreTyped DEF PgStatement, VectorIInv, SlotTypes
  <2> QED BY <1>2, <2>1 DEF SlotsRest, Ids
<1> QED BY <1>1, <1>2 DEF PgStatement

LEMMA ChromaImportTyped ==
    ASSUME VectorIInv, SlotsRest, NEW w \in VectorWriters, ChromaImport(w) PROVE SlotsRest'
<1>1. CASE EndBatch(w, "refused") /\ UNCHANGED <<nextItem, snapshot>>
  BY <1>1, EndingIsTyped, SlotsRestStays DEF ChromaImport
<1>2. CASE UNCHANGED <<vpc, result, nextItem, snapshot>>
  BY <1>2, SlotsRestStays DEF ChromaImport, SlotsRest
<1>3. CASE /\ nextItem[w] <= Len(batch[w].items) /\ nextItem' = [nextItem EXCEPT ![w] = @ + 1]
           /\ UNCHANGED <<vpc, result, snapshot>>
  BY ItemsAreTyped, <1>3 DEF ChromaImport, VectorIInv, SlotTypes, SlotsRest, Ids
<1>4. ASSUME NEW r \in {"ok", "lost"}, EndBatch(w, r), Unlock(w), UNCHANGED nextItem PROVE SlotsRest'
  BY <1>4, EndingIsTyped, UnlockingForgets, SlotsRestStays DEF ChromaImport
<1> QED BY <1>1, <1>2, <1>3, <1>4 DEF ChromaImport, GiveUpUndo

LEMMA EndingKeepsTypes ==
    ASSUME VectorIInv, SlotsRest, NEW w \in VectorWriters, UNCHANGED <<batch, nextItem>>,
           NEW r \in {"ok", "refused", "failed", "lost"}, EndBatch(w, r), UNCHANGED snapshot \/ Unlock(w)
    PROVE  SlotsRest'
BY UnlockingForgets, EndingIsTyped, SlotsRestStays

LEMMA MovingKeepsTypes ==
    ASSUME VectorIInv, SlotsRest, NEW w \in VectorWriters, UNCHANGED <<batch, nextItem, result, snapshot>>,
           NEW to, to # "idle", vpc' = [vpc EXCEPT ![w] = to]
    PROVE  SlotsRest'
BY MovingIsTyped, SlotsRestStays

LEMMA SqlTyped ==
    ASSUME VectorIInv, SlotsRest, NEW w \in VectorWriters,
           LookAtSlots(w) \/ SqliteWrite(w) \/ SqlDelete(w) \/ PgCommit(w) \/ PgDeadlock(w)
    PROVE  SlotsRest'
BY EndingKeepsTypes, MovingKeepsTypes DEF LookAtSlots, SqliteWrite, SqlDelete, PgCommit, PgDeadlock

LEMMA ChromaBeginTyped ==
    ASSUME VectorIInv, SlotsRest, NEW w \in VectorWriters, ChromaBegin(w) PROVE SlotsRest'
BY EndingKeepsTypes, MovingIsTyped, SlotsRestStays DEF ChromaBegin, VectorIInv, SlotTypes

LEMMA FailingTyped ==
    ASSUME VectorIInv, SlotsRest, NEW w \in VectorWriters, UNCHANGED <<batch, nextItem, snapshot>>, Fails(w)
    PROVE  SlotsRest'
BY MovingKeepsTypes DEF Fails

LEMMA GivingUpTyped ==
    ASSUME VectorIInv, SlotsRest, NEW w \in VectorWriters, UNCHANGED <<batch, nextItem>>, GiveUpUndo(w)
    PROVE  SlotsRest'
BY EndingKeepsTypes DEF GiveUpUndo

LEMMA ChromaUpsertTyped ==
    ASSUME VectorIInv, SlotsRest, NEW w \in VectorWriters,
           ChromaMerge(w) \/ ChromaRemove(w) \/ ChromaAdd(w) \/ ChromaUndo(w) \/ ChromaReplay(w)
    PROVE  SlotsRest'
BY EndingKeepsTypes, MovingKeepsTypes, FailingTyped, GivingUpTyped DEF ChromaMerge, ChromaRemove,
   ChromaAdd, ChromaUndo, ChromaReplay

LEMMA ChromaCallTyped ==
    ASSUME VectorIInv, SlotsRest, NEW w \in VectorWriters, ChromaCall(w) PROVE SlotsRest'
BY EndingKeepsTypes DEF ChromaCall

LEMMA ProcessDiesTyped == ASSUME VectorIInv, SlotsRest, ProcessDies PROVE SlotsRest'
BY SlotsRestStays DEF ProcessDies, SlotsRest

LEMMA VectorNextKeeps == VectorIInv /\ [VectorNext]_vectorVars => VectorIInv'
BY VectorStepKeeps

LEMMA SlotsRestKeeps == VectorIInv /\ SlotsRest /\ [VectorNext]_vectorVars => SlotsRest'
<1> SUFFICES ASSUME VectorIInv, SlotsRest, [VectorNext]_vectorVars PROVE SlotsRest'
  OBVIOUS
<1>0. VectorIInv'
  BY VectorNextKeeps
<1>1. ASSUME NEW r \in VectorReaders, ReadById(r) \/ ReadSlotAgain(r) PROVE SlotsRest'
  BY <1>1 DEF ReadById, ReadSlotAgain, SlotsRest, Ids
<1>2. CASE UNCHANGED vectorVars
  BY <1>2 DEF vectorVars, SlotsRest, Ids
<1> QED BY <1>0, <1>1, <1>2, StartTyped, SqlTyped, PgStatementTyped, ChromaBeginTyped, ChromaUpsertTyped,
           ChromaCallTyped, ChromaImportTyped, ProcessDiesTyped DEF VectorNext

LEMMA SlotsAreTyped == VectorIInv /\ SlotsRest => VectorTypeOK
<1> SUFFICES ASSUME VectorIInv, SlotsRest PROVE VectorTypeOK
  OBVIOUS
<1>1. ASSUME NEW w \in VectorWriters
      PROVE  /\ nextItem[w] \in 1 .. Len(batch[w].items) + 1
             /\ DOMAIN staged[w] \subseteq Ids(batch[w]) /\ DOMAIN snapshot[w] \subseteq Ids(batch[w])
  BY ItemsAreTyped DEF VectorIInv, SlotTypes, SlotsRest, StagedIsJudged, StagedRow
<1>2. ASSUME NEW id \in SlotIds PROVE Cardinality({w \in VectorWriters : id \in DOMAIN staged[w]}) <= 1
  <2> DEFINE stagers == {w \in VectorWriters : id \in DOMAIN staged[w]}
  <2>1. stagers = {} \/ \E w : stagers = {w}
    BY DEF VectorIInv, StagedIsJudged
  <2> HIDE DEF stagers
  <2>2. CASE stagers = {}
    BY <2>2, FS_EmptySet DEF stagers
  <2>3. ASSUME NEW w, stagers = {w} PROVE Cardinality(stagers) <= 1
    BY <2>3, FS_Singleton
  <2> QED BY <2>1, <2>2, <2>3 DEF stagers
<1>3. vpc \in [VectorWriters -> {"idle", "check", "write", "merge", "remove", "add", "undo", "replay", "done"}]
  BY DEF VectorIInv, SlotTypes, Undoable
<1> QED BY <1>1, <1>2, <1>3 DEF VectorIInv, SlotTypes, SlotsRest, VectorTypeOK

-----------------------------------------------------------------------------
(* All that a search goes through, as MCSearch composes it. *)

SearchesIInv ==
    /\ IndexIInv /\ PruneIInv /\ PruneRest /\ VectorIInv /\ SlotsRest /\ SearchIInv /\ SelIInv

LEMMA SearchesStartSound == SearchesInit => SearchesIInv
BY IndexStartsSound, PruneStartsWell, PruneRestStarts, VectorStartsWell, SlotsRestStarts, SearchStartsSound,
   SelectionStartsSound DEF SearchesInit, SearchesIInv

LEMMA SearchesNextKeeps == SearchesIInv /\ [SearchesNext]_<<partVars, engineOf>> => SearchesIInv'
<1> SUFFICES ASSUME SearchesIInv, [SearchesNext]_<<partVars, engineOf>> PROVE SearchesIInv'
  OBVIOUS
<1>1. /\ [IndexNext]_indexVars /\ [PruneNext]_pruneVars /\ [VectorNext]_vectorVars
      /\ [SearchNext]_searchVars /\ [SelectionNext]_selVars
  BY DEF SearchesNext, partVars
<1> QED BY <1>1, IndexNextKeeps, PruneNextKeeps, PruneRestKeeps, VectorNextKeeps, SlotsRestKeeps,
           SearchNextKeeps, SelectionNextKeeps DEF SearchesIInv

LEMMA SearchesInvHolds == SearchesSpec => []SearchesIInv
BY SearchesStartSound, SearchesNextKeeps, PTL DEF SearchesSpec

\* Every part's variables keep their types, whichever part moves.
THEOREM SearchesTypeCorrect == SearchesSpec => []SearchesTypesOK
<1>1. SearchesIInv => SearchesTypesOK
  BY PruneIsTyped, SlotsAreTyped, SearchIInvIsSound
     DEF SearchesIInv, SearchesTypesOK, IndexIInv, SelIInv, SelShapes
<1> QED BY <1>1, SearchesInvHolds, PTL

\* What a question is answered with is what the stores hold and its caller may
\* read, or the answer says what is missing: the composition of NodeIndexIsHonest,
\* PrunedSearchIsExact, NearestAreFound, SelectionStaysSound and
\* StoreIsWhatCallsLeft, with a threshold that a spelled-out name reaches.
THEOREM AnswersStayHonest ==
    ASSUME MinScore <= 100
    PROVE  SearchesSpec => []AnswersAreHonest
<1>1. SearchesIInv => AnswersAreHonest
  <2> SUFFICES ASSUME SearchesIInv PROVE AnswersAreHonest
    OBVIOUS
  <2>1. SlotsAreSettled /\ AbsentMeansGone /\ ImportsAreOurs
    BY DEF SearchesIInv, VectorIInv, ImportsAreOurs, AllOurs, Ours
  <2> QED BY <2>1, IndexIInvIsHonest, ChosenIsExact, SearchIInvIsSound, SelIInvIsSound
             DEF SearchesIInv, AnswersAreHonest
<1> QED BY <1>1, SearchesInvHolds, PTL
=============================================================================
