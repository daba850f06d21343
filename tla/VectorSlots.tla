------------------------------ MODULE VectorSlots ------------------------------
(***************************************************************************)
(* The slots of the vector store: upsert_texts, add_texts, import_vectors, *)
(* delete and get_by_id of the three backends.                             *)
(*                                                                         *)
(* A slot is named by the node alone, so packs meet in it: a slot a pack   *)
(* owns may only be rewritten by that pack.  sqlite-vec and pgvector look  *)
(* first and repeat the question in the statement that writes; chroma has  *)
(* no transaction: it holds the lock of the collection, replaces a record  *)
(* in two calls where a metadata key goes, and puts back by hand what a    *)
(* failed batch had changed.                                               *)
(*                                                                         *)
(* The writers of chroma are threads of one process (against others the    *)
(* callers hold write.lock); those of the SQL stores may be anywhere.      *)
(* Texts, embeddings and metadata values are one value, the batch that     *)
(* wrote them.                                                             *)
(***************************************************************************)
EXTENDS Naturals, FiniteSets, Sequences

CONSTANTS
    VectorKinds,        \* the backends looked at, of "sqlite", "pg" and "chroma"
    SlotIds, VectorPacks,
    VectorKeys,         \* of the metadata, the owner aside
    RetiredKey,         \* the former name of the owner, not to be planted again
    Unowned, NoVector,
    VectorWriters, VectorReaders,
    VectorBatches,      \* what each writer may be asked to do
    SlotSeeds,          \* what the store may hold at the start
    MaxVectorFaults,    \* bound on failing calls and crashes
    NoVectorWriter

VectorRecords == [owner : VectorPacks \cup {Unowned}, keys : SUBSET VectorKeys,
                  uri : BOOLEAN, by : VectorWriters \cup {NoVectorWriter}]

\* The records of a call, and the pack it is made for.
VectorItems == [id : SlotIds, owner : VectorPacks \cup {Unowned}, keys : SUBSET VectorKeys]
VectorCalls == [op : {"upsert", "add", "import", "delete"}, pack : VectorPacks,
                items : Seq(VectorItems)]

ASSUME VectorAssumption ==
    /\ VectorKinds \subseteq {"sqlite", "pg", "chroma"}
    /\ NoVector \notin VectorRecords /\ NoVectorWriter \notin VectorWriters
    /\ \A w \in VectorWriters : VectorBatches[w] \subseteq VectorCalls
    /\ \A seed \in SlotSeeds :
          /\ seed \in [SlotIds -> VectorRecords \cup {NoVector}]
          /\ \A id \in SlotIds : seed[id] # NoVector => seed[id].by = NoVectorWriter

VARIABLES
    vectorKind,
    slots,          \* what a reader finds: committed, in chroma whatever is there
    settled,        \* what the calls that ended left in a slot
    batch, vpc, result,
    nextItem,             \* pg: the next item; chroma import: the next chunk
    staged,         \* pg: the rows of an open transaction, which it holds locked
    snapshot,       \* chroma: the batch's records as the write found them
    collectionLock,
    asked, sawGone, answer,     \* readers: the id, whether its slot was once empty, the reply
    vectorFaults

vectorVars == <<vectorKind, slots, settled, batch, vpc, result, nextItem, staged, snapshot,
                collectionLock, asked, sawGone, answer, vectorFaults>>

-----------------------------------------------------------------------------
Ids(b) == {b.items[i].id : i \in DOMAIN b.items}
Last(b, id) == b.items[CHOOSE i \in DOMAIN b.items :
                          b.items[i].id = id /\ \A j \in DOMAIN b.items : b.items[j].id = id => j <= i]
Vector(w, item) == [owner |-> item.owner, keys |-> item.keys, uri |-> FALSE, by |-> w]

\* reject_batch_pack_conflicts: one batch names two owners for one slot.
ConflictInBatch(b) ==
    \E i, j \in DOMAIN b.items : b.items[i].id = b.items[j].id /\ b.items[i].owner # b.items[j].owner
TwiceInBatch(b) == \E i, j \in DOMAIN b.items : i # j /\ b.items[i].id = b.items[j].id

\* validate_import_records: a record that names another pack refuses the batch;
\* the others get the target's name, and lose the retired alias of it.
NamesOther(b) == \E i \in DOMAIN b.items : b.items[i].owner \notin {Unowned, b.pack}
Stamped(b) == [b EXCEPT !.items = [i \in DOMAIN b.items |->
                 [b.items[i] EXCEPT !.owner = b.pack, !.keys = @ \ {RetiredKey}]]]
RefusedAtOnce(b) == \/ b.op = "upsert" /\ ConflictInBatch(b)
                    \/ b.op = "import" /\ (NamesOther(b) \/ TwiceInBatch(b))

IsVector(v) == v # NoVector

\* Mutant: a slot may be handed to nobody.
MayWriteOrDisown(v, owner) == IsVector(v) => v.owner \in {Unowned, owner} \/ owner = Unowned

\* The rule of the slots, reject_foreign_slot_writes: an owned slot is rewritten
\* by its owner only.
MayWrite(v, owner) == IsVector(v) => v.owner \in {Unowned, owner}

ForeignSlot(b) == \E i \in DOMAIN b.items : ~MayWrite(slots[b.items[i].id], b.items[i].owner)

\* Mutant: the statement does not ask again.
StatementTakesAny(v, owner) == TRUE

\* The same question in the statement that writes (DELETE .. AND pack_id ..,
\* DO UPDATE .. WHERE ..).
StatementTakes(v, owner) == MayWrite(v, owner)

VectorTypeOK ==
    /\ vectorKind \in VectorKinds
    /\ slots \in [SlotIds -> VectorRecords \cup {NoVector}]
    /\ settled \in [SlotIds -> VectorRecords \cup {NoVector}]
    /\ vpc \in [VectorWriters -> {"idle", "check", "write", "merge", "remove", "add", "undo", "replay", "done"}]
    /\ result \in [VectorWriters -> {"none", "ok", "refused", "failed", "lost"}]
    /\ \A w \in VectorWriters : /\ nextItem[w] \in 1 .. Len(batch[w].items) + 1
                                /\ DOMAIN staged[w] \subseteq Ids(batch[w])
                                /\ DOMAIN snapshot[w] \subseteq Ids(batch[w])
    /\ collectionLock \in VectorWriters \cup {NoVectorWriter}
    /\ answer \in [VectorReaders -> {"reading", "missed", "found", "absent"}]
    /\ \A id \in SlotIds : Cardinality({w \in VectorWriters : id \in DOMAIN staged[w]}) <= 1

VectorInit ==
    /\ vectorKind \in VectorKinds
    /\ slots \in SlotSeeds /\ settled = slots
    /\ \A id \in SlotIds : IsVector(slots[id]) /\ slots[id].uri => vectorKind = "chroma"
    /\ batch \in {f \in [VectorWriters -> UNION {VectorBatches[w] : w \in VectorWriters}] :
                    \A w \in VectorWriters : f[w] \in VectorBatches[w]}
    /\ vpc = [w \in VectorWriters |-> "idle"] /\ result = [w \in VectorWriters |-> "none"]
    /\ nextItem = [w \in VectorWriters |-> 1]
    /\ staged = [w \in VectorWriters |-> <<>>] /\ snapshot = [w \in VectorWriters |-> <<>>]
    /\ collectionLock = NoVectorWriter
    /\ asked \in [VectorReaders -> SlotIds]
    /\ sawGone = [r \in VectorReaders |-> ~IsVector(slots[asked[r]])]
    /\ answer = [r \in VectorReaders |-> "reading"]
    /\ vectorFaults = 0

-----------------------------------------------------------------------------
EndBatch(w, r) == vpc' = [vpc EXCEPT ![w] = "done"] /\ result' = [result EXCEPT ![w] = r]

\* A reader under way learns of a slot that was emptied for good.
Notice(now) ==
    sawGone' = [r \in VectorReaders |->
                  sawGone[r] \/ (answer[r] \in {"reading", "missed"} /\ ~IsVector(now[asked[r]]))]

\* The call ended: this is what it stands for from now on.
Settle(new) == /\ settled' = [id \in SlotIds |-> IF id \in DOMAIN new THEN new[id] ELSE settled[id]]
               /\ Notice(settled')

Replacement(w) == [id \in Ids(batch[w]) |-> Vector(w, Last(batch[w], id))]
Gone(ids) == [id \in ids |-> NoVector]
Store(new) == slots' = [id \in SlotIds |-> IF id \in DOMAIN new THEN new[id] ELSE slots[id]]

VectorFault == vectorFaults < MaxVectorFaults /\ vectorFaults' = vectorFaults + 1

\* What every backend refuses before it looks at the store; the embedding
\* (sqlite-vec and pgvector compute it here) may fail, with nothing touched.
Start(w) ==
    /\ vpc[w] = "idle"
    /\ \/ /\ RefusedAtOnce(batch[w])
          /\ EndBatch(w, "refused") /\ UNCHANGED <<batch, vectorFaults>>
       \/ /\ ~RefusedAtOnce(batch[w])
          /\ vpc' = [vpc EXCEPT ![w] = IF batch[w].op = "upsert" THEN "check" ELSE "write"]
          /\ batch' = [batch EXCEPT ![w] = IF @.op = "import" THEN Stamped(@) ELSE @]
          /\ UNCHANGED <<result, vectorFaults>>
       \/ /\ ~RefusedAtOnce(batch[w]) /\ VectorFault
          /\ vectorKind # "chroma" /\ batch[w].op \in {"upsert", "add"}
          /\ EndBatch(w, "failed") /\ UNCHANGED batch
    /\ UNCHANGED <<vectorKind, slots, settled, nextItem, staged, snapshot, collectionLock,
                   asked, sawGone, answer>>

\* The first layer: the batch is judged against the owners of its slots.
LookAtSlots(w) ==
    /\ vpc[w] = "check" /\ vectorKind # "chroma"
    /\ IF ForeignSlot(batch[w]) THEN EndBatch(w, "refused")
       ELSE vpc' = [vpc EXCEPT ![w] = "write"] /\ UNCHANGED result
    /\ UNCHANGED <<vectorKind, slots, settled, batch, nextItem, staged, snapshot,
                   collectionLock, asked, sawGone, answer, vectorFaults>>

\* ADD semantics: an id that is there already refuses the batch.
Occupied(b) == \E id \in Ids(b) : IsVector(slots[id])

-----------------------------------------------------------------------------
\* sqlite-vec: DELETE with the predicate and INSERT, one writing transaction.
SqliteWrite(w) ==
    /\ vpc[w] = "write" /\ vectorKind = "sqlite" /\ batch[w].op # "delete"
    /\ LET blocked == IF batch[w].op = "upsert"
                      THEN \E i \in DOMAIN batch[w].items :
                              ~StatementTakes(slots[batch[w].items[i].id], batch[w].items[i].owner)
                      ELSE Occupied(batch[w]) \/ TwiceInBatch(batch[w])
       IN IF blocked
          THEN EndBatch(w, "failed") /\ UNCHANGED <<slots, settled, sawGone>>
          ELSE EndBatch(w, "ok") /\ Store(Replacement(w)) /\ Settle(Replacement(w))
    /\ UNCHANGED <<vectorKind, batch, nextItem, staged, snapshot, collectionLock, asked, answer,
                   vectorFaults>>

SqlDelete(w) ==
    /\ vpc[w] = "write" /\ vectorKind # "chroma" /\ batch[w].op = "delete"
    /\ \A v \in VectorWriters : DOMAIN staged[v] \cap Ids(batch[w]) = {}
    /\ EndBatch(w, "ok") /\ Store(Gone(Ids(batch[w]))) /\ Settle(Gone(Ids(batch[w])))
    /\ UNCHANGED <<vectorKind, batch, nextItem, staged, snapshot, collectionLock, asked, answer,
                   vectorFaults>>

\* pgvector: one statement for each record, which waits for the row's lock and
\* judges the row as it then is; a statement that takes no row rolls back.
Waits(w) == /\ vpc[w] = "write" /\ nextItem[w] <= Len(batch[w].items)
            /\ \E v \in VectorWriters \ {w} : batch[w].items[nextItem[w]].id \in DOMAIN staged[v]
RowSeen(w, id) == IF id \in DOMAIN staged[w] THEN staged[w][id] ELSE slots[id]

PgStatement(w) ==
    /\ vpc[w] = "write" /\ vectorKind = "pg" /\ batch[w].op # "delete"
    /\ nextItem[w] <= Len(batch[w].items) /\ ~Waits(w)
    /\ LET item == batch[w].items[nextItem[w]]
           row == RowSeen(w, item.id)
           takes == IF batch[w].op = "upsert" THEN StatementTakes(row, item.owner) ELSE ~IsVector(row)
       IN IF takes
          THEN /\ staged' = [staged EXCEPT ![w] = [id \in DOMAIN @ \cup {item.id} |->
                                                     IF id = item.id THEN Vector(w, item) ELSE @[id]]]
               /\ nextItem' = [nextItem EXCEPT ![w] = @ + 1] /\ UNCHANGED <<vpc, result>>
          ELSE staged' = [staged EXCEPT ![w] = <<>>] /\ EndBatch(w, "failed") /\ UNCHANGED nextItem
    /\ UNCHANGED <<vectorKind, slots, settled, batch, snapshot, collectionLock, asked, sawGone,
                   answer, vectorFaults>>

PgCommit(w) ==
    /\ vpc[w] = "write" /\ vectorKind = "pg" /\ batch[w].op # "delete" /\ nextItem[w] > Len(batch[w].items)
    /\ EndBatch(w, "ok") /\ Store(staged[w]) /\ Settle(staged[w])
    /\ staged' = [staged EXCEPT ![w] = <<>>]
    /\ UNCHANGED <<vectorKind, batch, nextItem, snapshot, collectionLock, asked, answer,
                   vectorFaults>>

\* The server ends one of two transactions that wait for each other.
PgDeadlock(w) ==
    /\ vectorKind = "pg" /\ Waits(w)
    /\ \E v \in VectorWriters \ {w} : Waits(v) /\ batch[w].items[nextItem[w]].id \in DOMAIN staged[v]
                                               /\ batch[v].items[nextItem[v]].id \in DOMAIN staged[w]
    /\ staged' = [staged EXCEPT ![w] = <<>>] /\ EndBatch(w, "failed")
    /\ UNCHANGED <<vectorKind, slots, settled, batch, nextItem, snapshot, collectionLock, asked,
                   sawGone, answer, vectorFaults>>

-----------------------------------------------------------------------------
\* chroma.  Under the collection's lock: get() refuses a repeated id, finds the
\* owners and is the snapshot for the way back; empty metadata is refused first.
EmptySlots(b) == \E i \in DOMAIN b.items : b.items[i].keys = {} /\ b.items[i].owner = Unowned

ChromaBegin(w) ==
    /\ vpc[w] = "check" /\ vectorKind = "chroma" /\ collectionLock = NoVectorWriter
    /\ IF EmptySlots(batch[w]) \/ TwiceInBatch(batch[w]) \/ ForeignSlot(batch[w])
       THEN EndBatch(w, "refused") /\ UNCHANGED <<collectionLock, snapshot>>
       ELSE /\ vpc' = [vpc EXCEPT ![w] = "merge"] /\ UNCHANGED result
            /\ collectionLock' = w
            /\ snapshot' = [snapshot EXCEPT ![w] = [id \in Ids(batch[w]) |-> slots[id]]]
    /\ UNCHANGED <<vectorKind, slots, settled, batch, nextItem, staged, asked, sawGone, answer,
                   vectorFaults>>

\* Mutant: every record is merged.
IsMerged(old, item) == TRUE

\* _is_atomic: upsert() merges the metadata, so it may be used where no key
\* would stay behind, and must be where a uri would be lost.
IsAtomic(old, item) == IsVector(old) => old.uri \/ old.keys \subseteq item.keys

MergedIds(w) == {id \in Ids(batch[w]) : IsAtomic(snapshot[w][id], Last(batch[w], id))}
Merge(old, new) == IF IsVector(old) THEN [new EXCEPT !.keys = @ \cup old.keys, !.uri = old.uri] ELSE new
MergeOf(w, ids) == [id \in ids |-> Merge(slots[id], Replacement(w)[id])]

\* What the call stands for: the caller's metadata alone, save that a record
\* with a uri keeps its keys (documented as the exception).
Promise(w) == [id \in Ids(batch[w]) |->
                 LET old == snapshot[w][id] IN
                 IF IsVector(old) /\ old.uri THEN Merge(old, Replacement(w)[id]) ELSE Replacement(w)[id]]

Unlock(w) == collectionLock' = NoVectorWriter /\ snapshot' = [snapshot EXCEPT ![w] = <<>>]
Fails(w) == VectorFault /\ vpc' = [vpc EXCEPT ![w] = "undo"] /\ UNCHANGED result

ChromaMerge(w) ==
    /\ vpc[w] = "merge"
    /\ \/ /\ Store(MergeOf(w, MergedIds(w))) /\ UNCHANGED vectorFaults
          /\ IF MergedIds(w) = Ids(batch[w])
             THEN EndBatch(w, "ok") /\ Settle(Promise(w)) /\ Unlock(w)
             ELSE /\ vpc' = [vpc EXCEPT ![w] = "remove"]
                  /\ UNCHANGED <<result, settled, sawGone, collectionLock, snapshot>>
       \/ /\ MergedIds(w) # {} /\ Fails(w)
          /\ UNCHANGED <<slots, settled, sawGone, collectionLock, snapshot>>
    /\ UNCHANGED <<vectorKind, batch, nextItem, staged, asked, answer>>

ChromaRemove(w) ==
    /\ vpc[w] = "remove"
    /\ \/ Store(Gone(Ids(batch[w]) \ MergedIds(w))) /\ vpc' = [vpc EXCEPT ![w] = "add"] /\ UNCHANGED <<result, vectorFaults>>
       \/ Fails(w) /\ UNCHANGED slots
    /\ UNCHANGED <<vectorKind, settled, batch, nextItem, staged, snapshot, collectionLock,
                   asked, sawGone, answer>>

\* add() embeds the texts: a dead embedding server raises here, after the delete.
ChromaAdd(w) ==
    /\ vpc[w] = "add"
    /\ \/ /\ Store([id \in Ids(batch[w]) \ MergedIds(w) |-> Replacement(w)[id]])
          /\ EndBatch(w, "ok") /\ Settle(Promise(w)) /\ Unlock(w) /\ UNCHANGED vectorFaults
       \/ Fails(w) /\ UNCHANGED <<slots, settled, sawGone, collectionLock, snapshot>>
    /\ UNCHANGED <<vectorKind, batch, nextItem, staged, asked, answer>>

\* Mutant: only the records that were to be replaced are cleared.
ClearedReplaced(w) == Ids(batch[w]) \ MergedIds(w)

\* _rollback: the whole batch is deleted before the snapshot is added again,
\* since add() leaves a record alone that is there.
Cleared(w) == Ids(batch[w])

\* The way back failed: the slots are what they are, and the log says so.
GiveUpUndo(w) == VectorFault /\ EndBatch(w, "lost") /\ Settle(slots) /\ Unlock(w) /\ UNCHANGED slots

ChromaUndo(w) ==
    /\ vpc[w] = "undo"
    /\ \/ /\ Store(Gone(Cleared(w))) /\ vpc' = [vpc EXCEPT ![w] = "replay"]
          /\ UNCHANGED <<result, settled, sawGone, collectionLock, snapshot, vectorFaults>>
       \/ GiveUpUndo(w)
    /\ UNCHANGED <<vectorKind, batch, nextItem, staged, asked, answer>>

ChromaReplay(w) ==
    /\ vpc[w] = "replay"
    /\ \/ /\ Store([id \in {x \in Ids(batch[w]) : ~IsVector(slots[x])} |-> snapshot[w][id]])
          /\ EndBatch(w, "failed") /\ Unlock(w) /\ UNCHANGED <<settled, sawGone, vectorFaults>>
       \/ GiveUpUndo(w)
    /\ UNCHANGED <<vectorKind, batch, nextItem, staged, asked, answer>>

\* add_texts and delete: one call each, under the lock.  add() leaves a record
\* that is there as it is, without a word.
ChromaCall(w) ==
    /\ vpc[w] = "write" /\ vectorKind = "chroma" /\ batch[w].op \in {"add", "delete"} /\ collectionLock = NoVectorWriter
    /\ \/ /\ batch[w].op = "delete"
          /\ EndBatch(w, "ok") /\ Store(Gone(Ids(batch[w]))) /\ Settle(Gone(Ids(batch[w])))
       \/ /\ batch[w].op = "add" /\ ~TwiceInBatch(batch[w]) /\ ~EmptySlots(batch[w])
          /\ LET new == [id \in {x \in Ids(batch[w]) : ~IsVector(slots[x])} |-> Replacement(w)[id]]
             IN EndBatch(w, "ok") /\ Store(new) /\ Settle(new)
       \/ /\ batch[w].op = "add" /\ (TwiceInBatch(batch[w]) \/ EmptySlots(batch[w]))
          /\ EndBatch(w, "refused") /\ UNCHANGED <<slots, settled, sawGone>>
    /\ UNCHANGED <<vectorKind, batch, nextItem, staged, snapshot, collectionLock, asked, answer,
                   vectorFaults>>

\* Mutant: chroma is trusted to refuse.
ImportBegins(b) == TRUE

\* import_vectors: add() would be silent, so the lock is held while the ids are
\* looked up, the chunks (here of one record) added and read back.
ImportMayBegin(b) == ~Occupied(b)

ChromaImport(w) ==
    /\ vpc[w] = "write" /\ vectorKind = "chroma" /\ batch[w].op = "import"
    /\ \/ /\ collectionLock = NoVectorWriter
          /\ IF ~ImportMayBegin(batch[w])
             THEN EndBatch(w, "refused") /\ UNCHANGED collectionLock
             ELSE collectionLock' = w /\ UNCHANGED <<vpc, result>>
          /\ UNCHANGED <<slots, settled, nextItem, sawGone, snapshot, vectorFaults>>
       \/ /\ collectionLock = w /\ nextItem[w] <= Len(batch[w].items)
          /\ LET item == batch[w].items[nextItem[w]]
             IN Store([id \in {x \in {item.id} : ~IsVector(slots[x])} |-> Vector(w, item)])
          /\ nextItem' = [nextItem EXCEPT ![w] = @ + 1]
          /\ UNCHANGED <<vpc, result, settled, sawGone, snapshot, collectionLock, vectorFaults>>
       \/ /\ collectionLock = w /\ nextItem[w] > Len(batch[w].items)
          /\ EndBatch(w, "ok") /\ Settle(Replacement(w)) /\ Unlock(w)
          /\ UNCHANGED <<slots, nextItem, vectorFaults>>
       \/ /\ collectionLock = w /\ nextItem[w] > 1 /\ GiveUpUndo(w) /\ UNCHANGED nextItem
    /\ UNCHANGED <<vectorKind, batch, staged, asked, answer>>

\* The process of chroma's writers ends: the replace path has no way back.
ProcessDies ==
    /\ VectorFault /\ vectorKind = "chroma" /\ collectionLock # NoVectorWriter
    /\ vpc' = [w \in VectorWriters |-> "done"]
    /\ result' = [w \in VectorWriters |-> IF vpc[w] = "done" THEN result[w] ELSE "lost"]
    /\ Settle(slots)
    /\ collectionLock' = NoVectorWriter /\ snapshot' = [w \in VectorWriters |-> <<>>]
    /\ UNCHANGED <<vectorKind, slots, batch, nextItem, staged, asked, answer>>

-----------------------------------------------------------------------------
\* Mutant: a miss is a miss.
NeverAsksAgain == FALSE

\* get_by_id: chroma asks again under the lock before it reports a miss.
AsksAgain == vectorKind = "chroma"

ReadById(r) ==
    /\ answer[r] = "reading"
    /\ answer' = [answer EXCEPT ![r] = IF IsVector(slots[asked[r]]) THEN "found"
                                       ELSE IF AsksAgain THEN "missed" ELSE "absent"]
    /\ UNCHANGED <<vectorKind, slots, settled, batch, vpc, result, nextItem, staged, snapshot,
                   collectionLock, asked, sawGone, vectorFaults>>

ReadSlotAgain(r) ==
    /\ answer[r] = "missed" /\ collectionLock = NoVectorWriter
    /\ answer' = [answer EXCEPT ![r] = IF IsVector(slots[asked[r]]) THEN "found" ELSE "absent"]
    /\ UNCHANGED <<vectorKind, slots, settled, batch, vpc, result, nextItem, staged, snapshot,
                   collectionLock, asked, sawGone, vectorFaults>>

VectorNext ==
    \/ \E w \in VectorWriters :
          \/ Start(w) \/ LookAtSlots(w) \/ SqliteWrite(w) \/ SqlDelete(w)
          \/ PgStatement(w) \/ PgCommit(w) \/ PgDeadlock(w)
          \/ ChromaBegin(w) \/ ChromaMerge(w) \/ ChromaRemove(w) \/ ChromaAdd(w)
          \/ ChromaUndo(w) \/ ChromaReplay(w) \/ ChromaCall(w) \/ ChromaImport(w)
    \/ ProcessDies
    \/ \E r \in VectorReaders : ReadById(r) \/ ReadSlotAgain(r)

VectorSpec == VectorInit /\ [][VectorNext]_vectorVars

-----------------------------------------------------------------------------
\* Outside a write of chroma the store holds what the calls that ended left in
\* it, exactly: a batch that failed left nothing and took nothing away, and no
\* metadata key survives that the last caller did not pass.
SlotsAreSettled == collectionLock = NoVectorWriter => slots = settled

\* get_by_id reports a record absent only if no call had left one there at some
\* time since it began: the two calls of a replacement are not seen as a gap.
AbsentMeansGone == \A r \in VectorReaders : answer[r] = "absent" => sawGone[r]

\* An imported record belongs to the pack it was imported into, and carries no
\* other pack's name.
ImportsAreOurs ==
    \A w \in VectorWriters, id \in SlotIds :
        batch[w].op = "import" /\ IsVector(settled[id]) /\ settled[id].by = w
            => settled[id].owner = batch[w].pack /\ RetiredKey \notin settled[id].keys

\* An owned slot changes hands only by being emptied first.
OwnersKeepTheirSlots ==
    [][\A id \in SlotIds :
          IsVector(settled[id]) /\ settled[id].owner # Unowned /\ IsVector(settled'[id])
              => settled'[id].owner = settled[id].owner]_vectorVars
=============================================================================
