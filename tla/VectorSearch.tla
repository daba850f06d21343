----------------------------- MODULE VectorSearch -----------------------------
(***************************************************************************)
(* Nearest-neighbour search of the sqlite-vec store: the choice of the     *)
(* strategy (one scan for each pack of the filter, one scan of the whole   *)
(* table, or the two-stage search over the cache in memory) and the        *)
(* cache, which the threads of a process share and nobody but the writes   *)
(* of the same process invalidates; and the one statement of pgvector.     *)
(*                                                                         *)
(* Every thread has its own connection.  A scan is one statement; the      *)
(* cache is read from the shadow tables in one step and published in       *)
(* another.  Distances to the question are fixed; the coarse stage keeps   *)
(* all candidates, as it does where they are no more than ann_coarse_k,    *)
(* and the refined pool is no smaller, so what remains of the two stages   *)
(* is where their candidates come from.                                    *)
(***************************************************************************)
EXTENDS Naturals, FiniteSets, FiniteSetsExt

CONSTANTS
    SearchRows, RowDistance, RowPack, RowSpace,     \* what each vector's row holds
    AnyPack, AnySpace,
    Questions,          \* what each thread may ask: the packs or AnyPack, a space or AnySpace
    ResultLimit,        \* n_results
    ScanLimit,          \* _VEC0_K_MAX: the most rows one scan yields
    PackScanLimit,      \* _PACK_KNN_MAX: more packs than this are one scan
    SearchThreads, OutsideConnections,
    MaxVectorWrites,    \* bound on committed writes
    MaxQuestions,       \* bound on questions
    MaxCacheFaults      \* bound on failing builds of the cache

ASSUME SearchAssumption ==
    /\ IsFiniteSet(SearchRows) /\ RowDistance \in [SearchRows -> Nat]
    /\ \A x, y \in SearchRows : RowDistance[x] = RowDistance[y] => x = y
    /\ {ResultLimit, ScanLimit, PackScanLimit, MaxVectorWrites} \subseteq Nat
    /\ ResultLimit <= ScanLimit /\ \A t \in SearchThreads : Questions[t] # {}

Connections == SearchThreads \cup OutsideConnections
NoCache == [ids |-> {}, max |-> 0, built |-> FALSE]

VARIABLES
    rowOf,          \* the rowid of each row, 0 where there is none
    lastRow,        \* rowids are never given twice
    commitsOf,      \* committed writes of each connection
    allCommits,     \* and of all of them
    engine,         \* "exact", "binary" (ann, and the table has the bit column) or "pg"
    annCache, annLock,
    connVersion,    \* _conn_dv: the data_version a connection has noted, 0 before
    spc, question, inHand,      \* a thread, its question, the cache it uses
    packsLeft, found,           \* scans to come, rows found
    mayDiffer,      \* rows written since the question was asked
    deletedSince,   \* rows deleted since the thread's connection first noted a version
    cacheFaults, questionsAsked

storedRows == <<rowOf, lastRow, commitsOf, allCommits>>
searchVars == <<storedRows, engine, annCache, annLock, connVersion, spc, question,
                inHand, packsLeft, found, mayDiffer, deletedSince, cacheFaults, questionsAsked>>

-----------------------------------------------------------------------------
Live == {x \in SearchRows : rowOf[x] # 0}
MaxRow == Max({0} \cup {rowOf[x] : x \in SearchRows})
NearestOf(xs, n) == {x \in xs : Cardinality({y \in xs : RowDistance[y] < RowDistance[x]}) < n}

\* PRAGMA data_version: moves with the commits of the other connections.
DataVersion(c) == 1 + allCommits - commitsOf[c]

\* What the filter asks for, row by row.
MatchesFilter(x, q) == (q.packs = AnyPack \/ RowPack[x] \in q.packs) /\ (q.space = AnySpace \/ RowSpace[x] = q.space)
Unfiltered(q) == q.packs = AnyPack /\ q.space = AnySpace
\* Too many packs for a scan of each: one scan of the table, filtered after.
LargeScope(q) == q.packs # AnyPack /\ Cardinality(q.packs) > PackScanLimit
Pushed(q) == q.packs # AnyPack /\ ~LargeScope(q)

\* Mutant: the scan stays as short as that of a filter that is pushed down.
ShortFetch(q) == IF Unfiltered(q) \/ q.space = AnySpace THEN ResultLimit ELSE ScanLimit

\* fetch_k: exact only if nothing is left to filter after the scan.
Fetch(q) == IF Unfiltered(q) \/ (Pushed(q) /\ q.space = AnySpace) THEN ResultLimit ELSE ScanLimit

SearchTypeOK ==
    /\ rowOf \in [SearchRows -> 0 .. lastRow] /\ engine \in {"exact", "binary", "pg"}
    /\ annCache.ids \subseteq SearchRows /\ annCache.max \in 0 .. lastRow
    /\ annLock \subseteq SearchThreads /\ Cardinality(annLock) <= 1
    /\ spc \in [SearchThreads -> {"idle", "look", "wait", "again", "publish", "refine", "scan",
                                "packs", "whole", "answered", "invalidate"}]
    /\ \A t \in SearchThreads : /\ question[t] \in Questions[t] /\ found[t] \subseteq SearchRows
                                /\ connVersion[t] \in 0 .. MaxVectorWrites + 1

SearchInit ==
    /\ \E xs \in {ys \in SUBSET SearchRows : Cardinality(ys) + 1 >= Cardinality(SearchRows)} :
          rowOf = [x \in SearchRows |-> IF x \in xs THEN 1 + Cardinality({y \in xs : RowDistance[y] > RowDistance[x]}) ELSE 0]
    /\ lastRow = Cardinality(Live)
    /\ commitsOf = [c \in Connections |-> 0] /\ allCommits = 0
    /\ engine \in {"exact", "binary", "pg"}
    /\ annCache = NoCache /\ annLock = {}
    /\ connVersion = [t \in SearchThreads |-> 0]
    /\ spc = [t \in SearchThreads |-> "idle"]
    /\ question = [t \in SearchThreads |-> CHOOSE q \in Questions[t] : TRUE]
    /\ inHand = [t \in SearchThreads |-> NoCache]
    /\ packsLeft = [t \in SearchThreads |-> {}] /\ found = [t \in SearchThreads |-> {}]
    /\ mayDiffer = [t \in SearchThreads |-> {}] /\ deletedSince = [t \in SearchThreads |-> {}]
    /\ cacheFaults = 0 /\ questionsAsked = 0

-----------------------------------------------------------------------------
GoTo(t, l) == spc' = [spc EXCEPT ![t] = l]

\* A committed transaction of any connection: a row put in (an upsert deletes
\* and inserts, so it gets a new rowid) or deleted.
Commits(c, x) ==
    /\ lastRow < Cardinality(SearchRows) + MaxVectorWrites
    /\ allCommits < MaxVectorWrites /\ allCommits' = allCommits + 1
    /\ commitsOf' = [commitsOf EXCEPT ![c] = @ + 1]
    /\ \/ rowOf' = [rowOf EXCEPT ![x] = lastRow + 1] /\ lastRow' = lastRow + 1
          /\ deletedSince' = [t \in SearchThreads |-> deletedSince[t] \ {x}]
       \/ rowOf[x] # 0 /\ rowOf' = [rowOf EXCEPT ![x] = 0] /\ UNCHANGED lastRow
          /\ deletedSince' = [t \in SearchThreads |->
                                 IF connVersion[t] # 0 THEN deletedSince[t] \cup {x} ELSE {}]
    /\ mayDiffer' = [t \in SearchThreads |-> IF spc[t] \in {"idle", "invalidate"} THEN mayDiffer[t] ELSE mayDiffer[t] \cup {x}]

OutsideWrite(c, x) ==
    /\ Commits(c, x)
    /\ UNCHANGED <<engine, annCache, annLock, connVersion, spc, question, inHand, packsLeft,
                   found, cacheFaults, questionsAsked>>

\* upsert_texts and delete of this process: the cache goes after the commit.
Write(t, x) ==
    /\ spc[t] = "idle" /\ Commits(t, x) /\ GoTo(t, "invalidate")
    /\ UNCHANGED <<engine, annCache, annLock, connVersion, question, inHand, packsLeft, found,
                   cacheFaults, questionsAsked>>

Invalidate(t) ==
    /\ spc[t] = "invalidate" /\ annCache' = NoCache /\ GoTo(t, "idle")
    /\ UNCHANGED <<storedRows, engine, annLock, connVersion, question, inHand,
                   packsLeft, found, mayDiffer, deletedSince, cacheFaults, questionsAsked>>

-----------------------------------------------------------------------------
\* query and _select_query_mode.
Ask(t, q) ==
    /\ spc[t] \in {"idle", "answered"}
    /\ questionsAsked < MaxQuestions /\ questionsAsked' = questionsAsked + 1
    /\ question' = [question EXCEPT ![t] = q]
    /\ found' = [found EXCEPT ![t] = {}] /\ mayDiffer' = [mayDiffer EXCEPT ![t] = {}]
    /\ packsLeft' = [packsLeft EXCEPT ![t] = IF Pushed(q) THEN q.packs ELSE {}]
    /\ GoTo(t, IF engine = "pg" THEN "whole"
               ELSE IF Pushed(q) THEN "packs"
               ELSE IF engine = "binary" /\ (Unfiltered(q) \/ LargeScope(q)) THEN "look" ELSE "scan")
    /\ UNCHANGED <<storedRows, engine, annCache, annLock, connVersion, inHand,
                   deletedSince, cacheFaults>>

\* hits: the rows that satisfy the whole filter, the nearest first.
GiveAnswer(t, rows) ==
    /\ found' = [found EXCEPT ![t] = NearestOf({x \in rows : MatchesFilter(x, question[t])}, ResultLimit)]
    /\ GoTo(t, "answered")

\* One scan of each pack's partition.
ScanPack(t) ==
    /\ spc[t] = "packs"
    /\ \E p \in packsLeft[t] :
          LET rows == found[t] \cup NearestOf({x \in Live : RowPack[x] = p}, Fetch(question[t])) IN
          /\ packsLeft' = [packsLeft EXCEPT ![t] = @ \ {p}]
          /\ IF packsLeft[t] = {p} THEN GiveAnswer(t, rows)
             ELSE found' = [found EXCEPT ![t] = rows] /\ UNCHANGED spc
    /\ UNCHANGED <<storedRows, engine, annCache, annLock, connVersion, question,
                   inHand, mayDiffer, deletedSince, cacheFaults, questionsAsked>>

Scan(t) ==
    /\ spc[t] = "scan" /\ GiveAnswer(t, NearestOf(Live, Fetch(question[t])))
    /\ UNCHANGED <<storedRows, engine, annCache, annLock, connVersion, question,
                   inHand, packsLeft, mayDiffer, deletedSince, cacheFaults, questionsAsked>>

\* pgvector: _build_where_sql puts the whole filter into the statement.
FilteredRows(q) == {x \in Live : MatchesFilter(x, q)}
PgScan(t) ==
    /\ spc[t] = "whole" /\ GiveAnswer(t, NearestOf(FilteredRows(question[t]), ResultLimit))
    /\ UNCHANGED <<storedRows, engine, annCache, annLock, connVersion, question,
                   inHand, packsLeft, mayDiffer, deletedSince, cacheFaults, questionsAsked>>

\* Mutant: the version of the connection decides alone.
FreshByVersion(t) == connVersion[t] = 0 \/ connVersion[t] = DataVersion(t)

\* _ann_cache_fresh: the version this connection noted last, then the last rowid.
Fresh(t) == (connVersion[t] = 0 \/ connVersion[t] = DataVersion(t)) /\ annCache.max = MaxRow

\* The version is noted by every look, also by one that finds the cache stale.
Noted(t) == connVersion' = [connVersion EXCEPT ![t] = DataVersion(t)]

Use(t) == inHand' = [inHand EXCEPT ![t] = annCache] /\ GoTo(t, "refine")

LookAtCache(t) ==
    /\ spc[t] = "look"
    /\ IF annCache.built THEN Noted(t) ELSE UNCHANGED connVersion
    /\ IF annCache.built /\ Fresh(t) THEN Use(t) ELSE GoTo(t, "wait") /\ UNCHANGED inHand
    /\ UNCHANGED <<storedRows, engine, annCache, annLock, question, packsLeft,
                   found, mayDiffer, deletedSince, cacheFaults, questionsAsked>>

\* The same under the lock; if it must be built, the shadow tables are read.
LookAgain(t) ==
    /\ spc[t] = "wait" /\ annLock = {}
    /\ IF annCache.built THEN Noted(t) ELSE UNCHANGED connVersion
    /\ IF annCache.built /\ Fresh(t)
       THEN Use(t) /\ UNCHANGED annLock
       ELSE /\ annLock' = {t} /\ GoTo(t, "publish")
            /\ inHand' = [inHand EXCEPT ![t] = [ids |-> Live, max |-> MaxRow, built |-> TRUE]]
    /\ UNCHANGED <<storedRows, engine, annCache, question, packsLeft, found,
                   mayDiffer, deletedSince, cacheFaults, questionsAsked>>

PublishCache(t) ==
    /\ spc[t] = "publish" /\ annLock' = {}
    /\ annCache' = inHand[t] /\ GoTo(t, "refine")
    /\ UNCHANGED <<storedRows, engine, connVersion, question, inHand, packsLeft,
                   found, mayDiffer, deletedSince, cacheFaults, questionsAsked>>

\* The cache cannot be built (a layout that does not fit): an exact scan.
BuildFails(t) ==
    /\ spc[t] = "publish" /\ cacheFaults < MaxCacheFaults /\ cacheFaults' = cacheFaults + 1
    /\ annLock' = {} /\ annCache' = NoCache /\ GoTo(t, "scan")
    /\ inHand' = [inHand EXCEPT ![t] = NoCache]
    /\ UNCHANGED <<storedRows, engine, connVersion, question, packsLeft, found,
                   mayDiffer, deletedSince, questionsAsked>>

\* The candidates of the cache that are still there, with their true distances;
\* of a large scope those of its packs.
Refine(t) ==
    /\ spc[t] = "refine" /\ GiveAnswer(t, inHand[t].ids \cap Live)
    /\ inHand' = [inHand EXCEPT ![t] = NoCache]
    /\ UNCHANGED <<storedRows, engine, annCache, annLock, connVersion, question,
                   packsLeft, mayDiffer, deletedSince, cacheFaults, questionsAsked>>

SearchNext ==
    \/ \E c \in OutsideConnections, x \in SearchRows : OutsideWrite(c, x)
    \/ \E t \in SearchThreads :
          \/ \E x \in SearchRows : Write(t, x)
          \/ \E q \in Questions[t] : Ask(t, q)
          \/ Invalidate(t) \/ ScanPack(t) \/ Scan(t) \/ PgScan(t)
          \/ LookAtCache(t) \/ LookAgain(t) \/ PublishCache(t) \/ BuildFails(t) \/ Refine(t)

SearchSpec == SearchInit /\ [][SearchNext]_searchVars

-----------------------------------------------------------------------------
\* A row that was there all the time and that the filter asks for is among the
\* hits, or as many nearer ones are: always for a filter pushed down to its
\* packs and for no filter, else if it is among the nearest ScanLimit of all.
NothingNearIsMissed ==
    \A t \in SearchThreads : spc[t] = "answered" =>
        \A x \in (Live \ mayDiffer[t]) :
            /\ MatchesFilter(x, question[t])
            /\ \/ Unfiltered(question[t])
               \/ Pushed(question[t]) /\ question[t].space = AnySpace
               \/ Cardinality({y \in SearchRows : RowDistance[y] < RowDistance[x]}) < ScanLimit
            => \/ x \in found[t]
               \/ Cardinality({y \in found[t] : RowDistance[y] < RowDistance[x]}) >= ResultLimit

\* Every hit is of the packs and the space asked for.
HitsAreAskedFor ==
    \A t \in SearchThreads : spc[t] = "answered" =>
        /\ Cardinality(found[t]) <= ResultLimit
        /\ \A x \in found[t] : MatchesFilter(x, question[t])

SearchIsSound == NothingNearIsMissed /\ HitsAreAskedFor

\* The comment on _ann_cache_fresh: the only change it may miss is a deletion
\* of another process seen by a connection that is new.  So a search uses no
\* cache with a row that was deleted before the question was asked, and after
\* its connection had noted a version.  The code does not keep this (README, 5).
DeletesAreNoticed ==
    \A t \in SearchThreads :
        spc[t] = "refine" => inHand[t].ids \cap (deletedSince[t] \ mayDiffer[t]) = {}
=============================================================================
