------------------------------ MODULE SourceText ------------------------------
(***************************************************************************)
(* The text of a source: its row in the document store with the helper row *)
(* that says whether the text is whole, its node, its vector, and who      *)
(* moves them: write_source, the copy of a fork, the loader's rewrite of   *)
(* metadata, the deletion of sources, and recover_source_vectors.          *)
(*                                                                         *)
(* With SQLite every caller holds write.lock of the data directory.  The   *)
(* callers of PostgreSQL and MongoDB may be on several hosts: there only   *)
(* the store's own transaction keeps them apart.  A digest is the text it  *)
(* is computed from.                                                       *)
(***************************************************************************)
EXTENDS Naturals, Sequences, FiniteSets

CONSTANTS
    SourceIds, LongIds,      \* source ids; those too long for a node id
    SourceTexts, SourcePacks,
    Movers,                  \* the callers
    Missing,                 \* no row
    SourceRank,              \* the place of each id where sorted() puts it
    Deletions,               \* the lists of ids that may be deleted, in order
    SourceWorlds,            \* what the stores hold at first
    MaxMoves, MaxMishaps     \* bounds: calls, failures and crashes

\* A row with its helper row, what the graph and the vector store have beside
\* it, and the state that a caller reads.
SourceRows == [text : SourceTexts, pack : SourcePacks, helper : {"absent", "unknown"} \cup SourceTexts, n : 0 .. MaxMoves]
Copies == [text : SourceTexts, pack : SourcePacks, n : 0 .. MaxMoves]
SourceStates == [text : SourceTexts, complete : BOOLEAN]
\* A target of a recovery in its manifest.
Targets == [source : [text : SourceTexts, pack : SourcePacks], vector : Copies,
            state : {"planned", "written", "verified"}]

\* delete_sources_with_state takes sorted(set(source_ids)).
ASSUME SourceAssumption ==
    /\ LongIds \subseteq SourceIds
    /\ Missing \notin SourceTexts \cup SourceRows \cup Copies \cup SourceStates
    /\ \A ids \in SUBSET SourceIds : Missing \notin [ids -> Targets]
    /\ {"absent", "unknown"} \cap SourceTexts = {}
    /\ {"free", "recovery"} \cap Movers = {}
    /\ {MaxMoves, MaxMishaps} \subseteq Nat
    /\ Deletions \subseteq Seq(SourceIds)
    /\ SourceRank \in [SourceIds -> Nat]
    /\ \A s \in Deletions : \A k, l \in DOMAIN s : k < l => SourceRank[s[k]] < SourceRank[s[l]]

ASSUME WorldsAssumption ==
    \A w \in SourceWorlds :
        /\ w.rows \in [SourceIds -> {r \in SourceRows : r.n = 0} \cup {Missing}]
        /\ w.vectors \in [SourceIds -> {v \in Copies : v.n = 0} \cup {Missing}]

VARIABLES
    docKind,       \* the document store: "sqlite", "pg" or "mongo"
    srow,       \* doc_sources with doc_source_integrity
    snode,      \* the TextUnit node of each source
    svec,       \* its vector
    move,       \* what each caller is doing
    rowLock,    \* PostgreSQL's row locks, of the two tables
    hostLock,   \* write.lock
    item,       \* a search result that waits for its proof
    given,      \* the source locators handed out
    served,     \* the ranges answered
    manifest,   \* of recover_source_vectors
    recovery,   \* the run of it
    recovered,  \* vectors it has written
    vouched,    \* texts that a writer has given as a whole
    moves, mishaps

readVars == <<item, given, served>>
recoverVars == <<manifest, recovery, recovered>>
rowVars == <<srow, snode, svec>>
sourceVars == <<docKind, rowVars, move, rowLock, hostLock, readVars, recoverVars, vouched, moves, mishaps>>

-----------------------------------------------------------------------------
RestingMove == [op |-> "none", at |-> "none", ids |-> <<>>, id |-> Missing,
                from |-> Missing, text |-> Missing,
                pack |-> Missing, state |-> Missing, dumped |-> Missing, n |-> 0, locks |-> 0]
Resting == [at |-> "none", todo |-> {}, target |-> Missing]
Free == "free"

\* classify_integrity: no helper row means a row from before helpers, complete.
Whole(row) == row.helper \in {"absent", row.text}

\* _source_state_from_row and read_source_state_exact.
StateOf(i) == IF srow[i] = Missing THEN Missing ELSE [text |-> srow[i].text, complete |-> Whole(srow[i])]

SourceTypeOK ==
    /\ docKind \in {"sqlite", "pg", "mongo"}
    /\ srow \in [SourceIds -> SourceRows \cup {Missing}]
    /\ snode \in [SourceIds -> Copies \cup {Missing}] /\ svec \in [SourceIds -> Copies \cup {Missing}]
    /\ \A c \in Movers : move[c].op \in {"none", "write", "copy", "rewrite", "delete"}
    /\ rowLock \in [{"source", "helper"} \X SourceIds -> Movers \cup {Free}]
    /\ hostLock \in Movers \cup {Free, "recovery"}
    /\ given \subseteq [id : SourceIds, pack : SourcePacks, text : SourceTexts]
    /\ vouched \subseteq SourceTexts /\ moves \in 0 .. MaxMoves /\ mishaps \in 0 .. MaxMishaps

SourceInit ==
    /\ docKind \in {"sqlite", "pg", "mongo"}
    /\ \E w \in SourceWorlds : srow = w.rows /\ svec = w.vectors
    /\ snode = [i \in SourceIds |-> Missing]
    /\ move = [c \in Movers |-> RestingMove]
    /\ rowLock = [k \in {"source", "helper"} \X SourceIds |-> Free]
    /\ hostLock = Free
    /\ item = Missing /\ given = {} /\ served = {}
    /\ manifest = Missing /\ recovery = Resting /\ recovered = {}
    /\ vouched = {srow[i].text : i \in {x \in SourceIds : srow[x] # Missing /\ Whole(srow[x])}}
    /\ moves = 0 /\ mishaps = 0

-----------------------------------------------------------------------------
(* Calls. *)

WriteJobs ==
    {[RestingMove EXCEPT !.op = "write", !.at = "identify", !.id = i, !.text = t, !.pack = p] :
        i \in SourceIds, t \in vouched \cup {x \in SourceTexts : \A y \in SourceIds : srow[y] # Missing => srow[y].text # x},
        p \in SourcePacks}
CopyJobs ==
    {[RestingMove EXCEPT !.op = "copy", !.at = "list", !.from = i, !.id = j, !.pack = p] :
        i \in SourceIds, j \in {x \in SourceIds : srow[x] = Missing /\ svec[x] = Missing /\ snode[x] = Missing}, p \in SourcePacks}
RewriteJobs ==
    {[RestingMove EXCEPT !.op = "rewrite", !.at = "state", !.id = i, !.pack = srow[i].pack] :
        i \in {x \in SourceIds : srow[x] # Missing}}
DeleteJobs == {[RestingMove EXCEPT !.op = "delete", !.at = "docs", !.ids = l] : l \in Deletions}
Jobs == WriteJobs \cup CopyJobs \cup RewriteJobs \cup DeleteJobs

CallMover(c, j) ==
    /\ move[c] = RestingMove /\ moves < MaxMoves
    /\ j.op = "copy" => j.from # j.id
    /\ docKind = "sqlite" => hostLock = Free
    /\ hostLock' = IF docKind = "sqlite" THEN c ELSE hostLock
    /\ move' = [move EXCEPT ![c] = [j EXCEPT !.n = moves + 1, !.ids = IF j.op = "delete" THEN @ ELSE <<j.id>>]]
    /\ moves' = moves + 1
    /\ vouched' = IF j.op = "write" THEN vouched \cup {j.text} ELSE vouched
    /\ UNCHANGED <<docKind, rowVars, rowLock, readVars, recoverVars, mishaps>>

Frees(c) ==
    /\ rowLock' = [k \in DOMAIN rowLock |-> IF rowLock[k] = c THEN Free ELSE rowLock[k]]
    /\ hostLock' = IF hostLock = c THEN Free ELSE hostLock
MoveEnds(c) == move' = [move EXCEPT ![c] = RestingMove] /\ Frees(c)
GoesOn(c, j) == move' = [move EXCEPT ![c] = j] /\ UNCHANGED <<rowLock, hostLock>>
Mishap == mishaps < MaxMishaps /\ mishaps' = mishaps + 1

\* source_identity_conflict: a row or a vector of another pack has the id.
ForeignSource(j) ==
    \/ srow[j.id] # Missing /\ srow[j.id].pack # j.pack
    \/ svec[j.id] # Missing /\ svec[j.id].pack # j.pack

NodeIsForeign(j) == snode[j.id] # Missing /\ snode[j.id].pack # j.pack

\* A fork writes neither the node nor, here, the vector.
Identify(c) ==
    LET j == move[c] IN
    /\ j.at = "identify"
    /\ IF ForeignSource(j) THEN MoveEnds(c)
       ELSE GoesOn(c, [j EXCEPT !.at = IF j.op = "write" THEN "graph" ELSE "docs"])
    /\ UNCHANGED <<docKind, rowVars, readVars, recoverVars, vouched, moves, mishaps>>

\* Mutant: a failed node does not keep the documents and the vector back.
GraphLegReported(c) ==
    LET j == move[c] IN
    /\ j.at = "graph"
    /\ \/ snode' = [snode EXCEPT ![j.id] = [text |-> j.text, pack |-> j.pack, n |-> j.n]] /\ UNCHANGED mishaps
       \/ UNCHANGED snode /\ Mishap
    /\ GoesOn(c, [j EXCEPT !.at = "docs"])
    /\ UNCHANGED <<docKind, srow, svec, readVars, recoverVars, vouched, moves>>

\* _graph_leg: the node is replaced, left out where a long id has none, refused
\* by its owner, or not written; then the source is not written either.
GraphLeg(c) ==
    LET j == move[c] IN
    /\ j.at = "graph"
    /\ \/ /\ ~NodeIsForeign(j)
          /\ j.id \in LongIds => snode[j.id] # Missing
          /\ snode' = [snode EXCEPT ![j.id] = [text |-> j.text, pack |-> j.pack, n |-> j.n]]
          /\ GoesOn(c, [j EXCEPT !.at = "docs"])
          /\ UNCHANGED mishaps
       \/ /\ j.id \in LongIds /\ snode[j.id] = Missing
          /\ GoesOn(c, [j EXCEPT !.at = "docs"])
          /\ UNCHANGED <<snode, mishaps>>
       \/ /\ NodeIsForeign(j)
          /\ MoveEnds(c)
          /\ UNCHANGED <<snode, mishaps>>
       \/ Mishap /\ MoveEnds(c) /\ UNCHANGED snode
    /\ UNCHANGED <<docKind, srow, svec, readVars, recoverVars, vouched, moves>>

\* The copy of a fork: the text from list_sources_scoped, the vector from the
\* dump, and the state of the origin, read twice.
ListSource(c) ==
    LET j == move[c] IN
    /\ j.at = "list"
    /\ IF srow[j.from] = Missing THEN MoveEnds(c)
       ELSE GoesOn(c, [j EXCEPT !.at = "first", !.text = srow[j.from].text, !.dumped = svec[j.from]])
    /\ UNCHANGED <<docKind, rowVars, readVars, recoverVars, vouched, moves, mishaps>>

FirstState(c) ==
    LET j == move[c] IN
    /\ j.at = "first" \/ (j.at = "state" /\ j.op = "rewrite")
    /\ IF StateOf(IF j.op = "copy" THEN j.from ELSE j.id) = Missing THEN MoveEnds(c)
       ELSE GoesOn(c, [j EXCEPT !.state = StateOf(IF j.op = "copy" THEN j.from ELSE j.id),
                                !.at = IF j.op = "copy" THEN "final" ELSE IF docKind = "mongo" THEN "again" ELSE "docs"])
    /\ UNCHANGED <<docKind, rowVars, readVars, recoverVars, vouched, moves, mishaps>>

\* _verified_source_copy_state.
FinalState(c) ==
    LET j == move[c] IN
    /\ j.at = "final"
    /\ IF StateOf(j.from) # j.state \/ j.state.text # j.text THEN MoveEnds(c)
       ELSE GoesOn(c, [j EXCEPT !.at = "identify"])
    /\ UNCHANGED <<docKind, rowVars, readVars, recoverVars, vouched, moves, mishaps>>

\* MongoDB: the state is read again, and its raw helper with it.
RereadState(c) ==
    LET j == move[c] IN
    /\ j.at = "again"
    /\ IF StateOf(j.id) # j.state THEN MoveEnds(c)
       ELSE GoesOn(c, [j EXCEPT !.at = "docs", !.dumped = srow[j.id].helper])
    /\ UNCHANGED <<docKind, rowVars, readVars, recoverVars, vouched, moves, mishaps>>

-----------------------------------------------------------------------------
(* The document store. *)

\* Mutant: the order of _sql_doc_base.
HelperFirst(op) == IF op = "delete" THEN <<"helper", "source">> ELSE <<"source", "helper">>

\* PgDocStore takes the source's row before the helper's, whatever it does.
LockOrder(op) == <<"source", "helper">>

LocksOf(j) == [k \in 1 .. 2 * Len(j.ids) |-> <<LockOrder(j.op)[2 - (k % 2)], j.ids[(k + 1) \div 2]>>]
NeedsLock(c) == docKind = "pg" /\ move[c].at = "docs" /\ move[c].locks < Len(LocksOf(move[c]))
NextLock(c) == LocksOf(move[c])[move[c].locks + 1]

\* A row that is not there is neither locked nor waited for: DELETE passes it
\* by, the rewrite's SELECT FOR UPDATE finds nothing.  INSERT takes its key.
LockRow(c) ==
    LET j == move[c] IN
    /\ NeedsLock(c)
    /\ IF j.op \in {"delete", "rewrite"} /\ j.locks % 2 = 0 /\ srow[NextLock(c)[2]] = Missing
       THEN IF j.op = "rewrite" THEN MoveEnds(c) ELSE GoesOn(c, [j EXCEPT !.locks = @ + 2])
       ELSE /\ rowLock[NextLock(c)] = Free
            /\ rowLock' = [rowLock EXCEPT ![NextLock(c)] = c]
            /\ move' = [move EXCEPT ![c].locks = @ + 1]
            /\ UNCHANGED hostLock
    /\ UNCHANGED <<docKind, rowVars, readVars, recoverVars, vouched, moves, mishaps>>

\* Mutant: the copy is complete whenever the texts agree.
CopyIsTaken(j) == IF j.state.text = j.text THEN j.text ELSE "unknown"

\* write_source_copy.
CopyHelper(j) == IF j.state.complete /\ j.state.text = j.text THEN j.text ELSE "unknown"

\* Mutant: the rewrite puts back what it read.
RewritesState(j) ==
    [text |-> j.state.text, pack |-> j.pack, n |-> j.n,
     helper |-> IF j.state.complete THEN j.state.text ELSE "unknown"]

\* rewrite_source_metadata of the SQL stores: refused where the state is no
\* longer the one read, else the text stays and its helper says what it said.
SqlRewrite(j) ==
    IF StateOf(j.id) # j.state THEN srow[j.id]
    ELSE [srow[j.id] EXCEPT !.pack = j.pack, !.helper = IF j.state.complete THEN j.state.text ELSE "unknown"]

\* MongoDB: one conditional update on the text and the raw helper.
MongoRewrite(j) ==
    IF srow[j.id].text # j.state.text \/ srow[j.id].helper # j.dumped THEN srow[j.id]
    ELSE [srow[j.id] EXCEPT !.pack = j.pack]

Rewrite(j) ==
    IF srow[j.id] = Missing THEN Missing ELSE IF docKind = "mongo" THEN MongoRewrite(j) ELSE SqlRewrite(j)

IdsOf(s) == {s[k] : k \in DOMAIN s}
RowAfter(j, i) ==
    CASE j.op = "write" -> [text |-> j.text, pack |-> j.pack, helper |-> j.text, n |-> j.n]
      [] j.op = "copy" -> [text |-> j.text, pack |-> j.pack, helper |-> CopyHelper(j), n |-> j.n]
      [] j.op = "rewrite" -> Rewrite(j)
      [] OTHER -> Missing

\* One transaction of both tables, one document of MongoDB.
CommitSource(c) ==
    LET j == move[c] IN
    /\ j.at = "docs" /\ ~NeedsLock(c)
    /\ srow' = [i \in SourceIds |-> IF i \in IdsOf(j.ids) THEN RowAfter(j, i) ELSE srow[i]]
    /\ rowLock' = [k \in DOMAIN rowLock |-> IF rowLock[k] = c THEN Free ELSE rowLock[k]]
    /\ IF j.op \in {"write", "copy"}
       THEN move' = [move EXCEPT ![c].at = "vector", ![c].locks = 0] /\ UNCHANGED hostLock
       ELSE move' = [move EXCEPT ![c] = RestingMove] /\ hostLock' = IF hostLock = c THEN Free ELSE hostLock
    /\ UNCHANGED <<docKind, snode, svec, readVars, recoverVars, vouched, moves, mishaps>>

\* The store raises: nothing is written, and the vector is not either.
DocsFail(c) ==
    /\ move[c].at = "docs" /\ Mishap
    /\ MoveEnds(c)
    /\ UNCHANGED <<docKind, rowVars, readVars, recoverVars, vouched, moves>>

\* hybrid.ingest, or import_vectors of what the fork dumped.
VectorLeg(c) ==
    LET j == move[c] IN
    /\ j.at = "vector"
    /\ \/ /\ j.op = "write" \/ j.dumped # Missing
          /\ svec' = [svec EXCEPT ![j.id] = [text |-> IF j.op = "write" THEN j.text ELSE j.dumped.text,
                                             pack |-> j.pack, n |-> j.n]]
          /\ UNCHANGED mishaps
       \/ j.op = "copy" /\ j.dumped = Missing /\ UNCHANGED <<svec, mishaps>>
       \/ Mishap /\ UNCHANGED svec
    /\ MoveEnds(c)
    /\ UNCHANGED <<docKind, srow, snode, readVars, recoverVars, vouched, moves>>

MoverDies(c) ==
    /\ move[c] # RestingMove /\ Mishap
    /\ MoveEnds(c)
    /\ UNCHANGED <<docKind, rowVars, readVars, recoverVars, vouched, moves>>

-----------------------------------------------------------------------------
(* Readers. *)

\* A search finds a vector's text.
FindItem(i) ==
    /\ item = Missing /\ svec[i] # Missing
    /\ item' = [id |-> i, text |-> svec[i].text]
    /\ UNCHANGED <<docKind, rowVars, move, rowLock, hostLock, given, served, recoverVars,
                   vouched, moves, mishaps>>

\* _source_provenance: the row as it is now bears the text out, or there is no
\* locator.  The reader's scope is one pack.
ProveItem(scope) ==
    /\ item # Missing
    /\ LET row == srow[item.id] IN
       given' = IF row # Missing /\ row.pack = scope /\ row.text = item.text /\ Whole(row)
                THEN given \cup {[id |-> item.id, pack |-> row.pack, text |-> row.text]} ELSE given
    /\ item' = Missing
    /\ UNCHANGED <<docKind, rowVars, move, rowLock, hostLock, served, recoverVars, vouched,
                   moves, mishaps>>

\* Mutant: the digest in the locator is not compared.
RowOfTheId(l) == srow[l.id] # Missing /\ srow[l.id].pack = l.pack /\ Whole(srow[l.id])

\* ontology_get_source_range, validate_source_row_payload.
Answerable(l) ==
    /\ srow[l.id] # Missing /\ srow[l.id].pack = l.pack /\ Whole(srow[l.id])
    /\ srow[l.id].text = l.text

ReadRange(l) ==
    /\ Answerable(l)
    /\ served' = served \cup {[locator |-> l, text |-> srow[l.id].text]}
    /\ UNCHANGED <<docKind, rowVars, move, rowLock, hostLock, item, given, recoverVars, vouched,
                   moves, mishaps>>

-----------------------------------------------------------------------------
(* recover_source_vectors: SQLite, a dry run and an apply.                  *)

Recoverable == {i \in SourceIds : srow[i] # Missing /\ svec[i] # Missing /\ svec[i].pack = srow[i].pack}
SourceDigest(i) == [text |-> srow[i].text, pack |-> srow[i].pack]

\* plan, outside the lock: apply compares.
PlanRecovery(ids) ==
    /\ docKind = "sqlite" /\ manifest = Missing
    /\ ids # {} /\ ids \subseteq Recoverable
    /\ manifest' = [i \in ids |-> [source |-> SourceDigest(i), vector |-> svec[i], state |-> "planned"]]
    /\ UNCHANGED <<docKind, rowVars, move, rowLock, hostLock, readVars, recovery, recovered,
                   vouched, moves, mishaps>>

\* apply: the approved file, the principal, the store and the backup are right.
ApplyRecovery ==
    /\ manifest # Missing /\ recovery = Resting /\ hostLock = Free
    /\ hostLock' = "recovery"
    /\ recovery' = [Resting EXCEPT !.at = "check", !.todo = DOMAIN manifest]
    /\ UNCHANGED <<docKind, rowVars, move, rowLock, readVars, manifest, recovered, vouched,
                   moves, mishaps>>

Marks(i, state) == manifest' = [manifest EXCEPT ![i].state = state]
StopsRecovery == recovery' = Resting /\ hostLock' = Free

\* Mutant: a target that was marked written has been written.
WrittenIsDone(i) == manifest[i].state \in {"written", "verified"}

\* A target of an earlier apply: verified only if its vector is the source's.
Verifies(i) ==
    /\ manifest[i].state \in {"written", "verified"}
    /\ SourceDigest(i) = manifest[i].source
    /\ svec[i].text = srow[i].text

\* checked_source, checked_vector: nothing has moved since the dry run.
AsPlanned(i) ==
    /\ manifest[i].state = "planned"
    /\ SourceDigest(i) = manifest[i].source /\ svec[i] = manifest[i].vector

\* The manifest says written before the vector is.
CheckTarget(i) ==
    LET recoverable == i \in Recoverable IN
    /\ recovery.at = "check" /\ i \in recovery.todo
    /\ \/ /\ recoverable /\ Verifies(i)
          /\ Marks(i, "verified")
          /\ recovery' = [recovery EXCEPT !.todo = @ \ {i}]
          /\ UNCHANGED hostLock
       \/ /\ recoverable /\ AsPlanned(i)
          /\ Marks(i, "written")
          /\ recovery' = [recovery EXCEPT !.at = "upsert", !.target = i]
          /\ UNCHANGED hostLock
       \/ /\ ~(recoverable /\ (Verifies(i) \/ AsPlanned(i)))
          /\ StopsRecovery
          /\ UNCHANGED manifest
    /\ UNCHANGED <<docKind, rowVars, move, rowLock, readVars, recovered, vouched, moves, mishaps>>

\* upsert_texts and verify_current_target.
RecoverVector(i) ==
    /\ recovery.at = "upsert" /\ recovery.target = i
    /\ svec' = [svec EXCEPT ![i] = [text |-> srow[i].text, pack |-> srow[i].pack, n |-> srow[i].n]]
    /\ recovered' = recovered \cup {[id |-> i, before |-> svec[i], after |-> SourceDigest(i)]}
    /\ Marks(i, "verified")
    /\ recovery' = [Resting EXCEPT !.at = "check", !.todo = recovery.todo \ {i}]
    /\ UNCHANGED <<docKind, srow, snode, move, rowLock, hostLock, readVars, vouched, moves,
                   mishaps>>

RecoveryDone == recovery.at = "check" /\ recovery.todo = {}

FinishRecovery ==
    /\ RecoveryDone
    /\ StopsRecovery
    /\ UNCHANGED <<docKind, rowVars, move, rowLock, readVars, manifest, recovered, vouched,
                   moves, mishaps>>

RecoveryDies ==
    /\ recovery # Resting /\ Mishap
    /\ StopsRecovery
    /\ UNCHANGED <<docKind, rowVars, move, rowLock, readVars, manifest, recovered, vouched, moves>>

-----------------------------------------------------------------------------
MoverStep(c) ==
    \/ Identify(c) \/ GraphLeg(c) \/ ListSource(c) \/ FirstState(c) \/ FinalState(c) \/ RereadState(c)
    \/ LockRow(c) \/ CommitSource(c) \/ DocsFail(c) \/ VectorLeg(c) \/ MoverDies(c)

SourceNext ==
    \/ \E c \in Movers : (\E j \in Jobs : CallMover(c, j)) \/ MoverStep(c)
    \/ \E i \in SourceIds : FindItem(i) \/ CheckTarget(i) \/ RecoverVector(i)
    \/ \E p \in SourcePacks : ProveItem(p)
    \/ \E l \in given : ReadRange(l)
    \/ \E ids \in SUBSET SourceIds : PlanRecovery(ids)
    \/ ApplyRecovery \/ FinishRecovery \/ RecoveryDies

SourceSpec == SourceInit /\ [][SourceNext]_sourceVars

-----------------------------------------------------------------------------
(* Properties. *)

\* A text counts as whole only if a writer gave it as a whole: no copy, rewrite
\* or recovery makes one of a text that was cut or never verified, in any store.
\* So a locator, too, is only given for such a text.
ProofsAreEarned ==
    /\ \A i \in SourceIds : srow[i] # Missing /\ Whole(srow[i]) => srow[i].text \in vouched
    /\ \A l \in given : l.text \in vouched

\* The ranges that a client puts together with one locator are of one text,
\* however often the source is written, deleted and written again between them.
RangesAreOneText == \A r \in served : r.text = r.locator.text

\* Under write.lock the node is never behind the row nor the row behind the
\* vector, whatever leg failed and wherever a writer died.
LegsAreInOrder ==
    docKind = "sqlite" => \A i \in SourceIds :
        /\ srow[i] # Missing /\ snode[i] # Missing => snode[i].n >= srow[i].n
        /\ svec[i] # Missing /\ srow[i] # Missing => srow[i].n >= svec[i].n

\* No two transactions of PostgreSQL wait for each other.
Waits(c, d) == NeedsLock(c) /\ rowLock[NextLock(c)] = d
NoLockCircle == \A c, d \in Movers : c # d => ~(Waits(c, d) /\ Waits(d, c))

\* A recovery overwrites only the vector that the dry run saw, with the source
\* that it saw, and reports the end only while every target's vector is its
\* source's text, also after a crash between the manifest and the vector.
RecoveryIsApproved ==
    /\ \A r \in recovered : r.before = manifest[r.id].vector /\ r.after = manifest[r.id].source
    /\ RecoveryDone => \A i \in DOMAIN manifest : i \in Recoverable /\ svec[i].text = srow[i].text

SourcesAreSound == ProofsAreEarned /\ RangesAreOneText /\ LegsAreInOrder /\ NoLockCircle /\ RecoveryIsApproved

\* A rewrite of metadata never changes a text, never makes a text whole that was
\* not, and never brings a deleted source back.
RewritesKeepTheText ==
    [][\A c \in Movers : move[c].op = "rewrite" /\ move'[c] = RestingMove => \A i \in SourceIds : srow'[i] # srow[i] =>
          /\ srow[i] # Missing /\ srow'[i] # Missing
          /\ srow'[i].text = srow[i].text /\ (Whole(srow'[i]) => Whole(srow[i]))]_sourceVars
=============================================================================
