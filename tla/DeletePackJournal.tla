-------------------------- MODULE DeletePackJournal --------------------------
(***************************************************************************)
(* Deleting the content of one pack (opencrab/pack/load.py, delete_pack)   *)
(* and the journal that survives a run that stopped half way               *)
(* (opencrab/pack/delete_journal.py).                                      *)
(*                                                                         *)
(* The graph, document and vector stores commit separately.  A run holds   *)
(* the pack's own lock file, writes the journal before it deletes          *)
(* anything, and records each of four axes when it has finished it:        *)
(*   twins    node_twin_loop              documents of the graph rows      *)
(*   docs     doc_node_extra_and_sources  documents and sources by pack_id *)
(*   nodes    graph_nodes                 graph rows, only after twins     *)
(*   vectors  vectors                     independent of the others        *)
(* A journal that is there stops the next run unless it is told to resume. *)
(* Writers of the pack hold other locks and go on meanwhile.               *)
(***************************************************************************)
EXTENDS Integers, FiniteSets

CONSTANTS
    Deleters,     \* processes that call delete_pack, again and again
    Users,        \* who may own the pack
    Principal,    \* the user each deleter acts for
    Nodes, Sources, Vectors,  \* what the pack may hold
    Legacy,       \* nodes whose document was written without a pack_id
    OldJournals,  \* journals without an identity, left by an older version
    MaxWrites,    \* bound: pieces of content written while deleters run
    MaxFaults,    \* bound: store or journal calls that raise
    MaxOutages,   \* bound: times the vector store goes away
    MaxCrashes,   \* bound: deleters that die
    MaxRows,      \* bound: registrations of the pack's id
    MaxTears,     \* bound: damaged journal files
    MaxClears     \* bound: journals cleared by hand

Axes == {"twins", "docs", "nodes", "vectors"}
Nobody == "nobody"
NoSnapshot == 0   \* created_at of a journal without an identity, and of no row

ASSUME DeletersAssumption ==
    /\ Nobody \notin Deleters \cup Users
    /\ Principal \in [Deleters -> Users]
ASSUME ContentAssumption ==
    /\ Legacy \subseteq Nodes
    /\ OldJournals \subseteq [state : {"kept"}, created : {NoSnapshot}, done : SUBSET Axes]
ASSUME LimitsAssumption ==
    /\ MaxWrites \in Nat
    /\ MaxFaults \in Nat
    /\ MaxOutages \in Nat
    /\ MaxCrashes \in Nat
    /\ MaxRows \in Nat \ {0}
    /\ MaxTears \in Nat
    /\ MaxClears \in Nat

VARIABLES
    row,       \* the registry row: owner and created_at
    graph,     \* graph rows of the pack
    twin,      \* the document of each node: none, tagged with the pack_id, legacy
    owed,      \* nodes whose writer has written the graph row, not the document
    sources,   \* document sources (chunks)
    vecs,      \* vectors
    shaped,    \* the vector backend is of a kind the code can delete from
    vecUp,     \* its available property
    journal,   \* the journal file
    lock,      \* holder of delete-pack-<slug>.lock
    pc, loc,   \* each deleter's place and local variables
    old,       \* history: content there when the running call began, not rewritten
    writes, faults, outages, crashes, rows, tears, clears

content == <<graph, twin, sources, vecs>>
bounds == <<outages, crashes, rows, tears, clears>>
vars == <<row, graph, twin, owed, sources, vecs, shaped, vecUp, journal, lock,
          pc, loc, old, writes, faults, outages, crashes, rows, tears, clears>>

-----------------------------------------------------------------------------
NoRow == [owner |-> Nobody, created |-> NoSnapshot]
NoJournal == [state |-> "none", created |-> NoSnapshot, done |-> {}]
Torn == [state |-> "torn", created |-> NoSnapshot, done |-> {}]
Journals == [state : {"none", "kept", "torn"}, created : 0..MaxRows, done : SUBSET Axes]

\* Locals: the resume argument, whether this call began the journal, created_at
\* as authorized under the lock, the graph rows read, those still to visit, a
\* failure so far in the axis, documents or sources found, availability of the
\* vector store, and vector drift.
Locals == [resume : BOOLEAN, began : BOOLEAN, created : 0..MaxRows,
           rows : SUBSET Nodes, todo : SUBSET Nodes, failed : BOOLEAN,
           docsLive : BOOLEAN, avail : {"yes", "no", "unknown"}, drift : BOOLEAN]
Fresh == [resume |-> FALSE, began |-> FALSE, created |-> NoSnapshot, rows |-> {},
          todo |-> {}, failed |-> FALSE, docsLive |-> FALSE, avail |-> "unknown",
          drift |-> FALSE]

Reading == {"rows", "docsLive", "vecLive"}
Deleting == {"twins", "twinLoop", "docs", "docNodes", "docSources", "docsCommit",
             "nodes", "nodeLoop", "vectors", "vecDelete", "vecCommit", "end"}
Labels == {"idle", "wait", "check"} \cup Reading \cup Deleting

\* Every variable stays in its domain.
TypeOK ==
    /\ row \in [owner : Users \cup {Nobody}, created : 0..MaxRows]
    /\ graph \subseteq Nodes
    /\ twin \in [Nodes -> {"none", "tagged", "legacy"}]
    /\ owed \subseteq Nodes
    /\ sources \subseteq Sources
    /\ vecs \subseteq Vectors
    /\ shaped \in BOOLEAN
    /\ vecUp \in BOOLEAN
    /\ journal \in Journals
    /\ lock \in Deleters \cup {Nobody}
    /\ pc \in [Deleters -> Labels]
    /\ loc \in [Deleters -> Locals]
    /\ old \subseteq ({"graph", "twin"} \X Nodes) \cup ({"source"} \X Sources)
                        \cup ({"vector"} \X Vectors)
    /\ writes \in 0..MaxWrites
    /\ faults \in 0..MaxFaults
    /\ outages \in 0..MaxOutages
    /\ crashes \in 0..MaxCrashes
    /\ rows \in 1..MaxRows
    /\ tears \in 0..MaxTears
    /\ clears \in 0..MaxClears

\* The pack is registered and holds content, each graph row with its document.
Init ==
    /\ \E u \in Users : row = [owner |-> u, created |-> 1]
    /\ graph = Nodes
    /\ twin = [n \in Nodes |-> IF n \in Legacy THEN "legacy" ELSE "tagged"]
    /\ owed = {}
    /\ sources = Sources
    /\ vecs = Vectors
    /\ shaped \in BOOLEAN
    /\ vecUp = TRUE
    /\ journal \in {NoJournal} \cup OldJournals
    /\ lock = Nobody
    /\ pc = [p \in Deleters |-> "idle"]
    /\ loc = [p \in Deleters |-> Fresh]
    /\ old = {}
    /\ writes = 0
    /\ faults = 0
    /\ outages = 0
    /\ crashes = 0
    /\ rows = 1
    /\ tears = 0
    /\ clears = 0

-----------------------------------------------------------------------------
Tagged == {n \in Nodes : twin[n] = "tagged"}
Content ==
    ({"graph"} \X graph) \cup ({"twin"} \X {n \in Nodes : twin[n] # "none"})
        \cup ({"source"} \X sources) \cup ({"vector"} \X vecs)

NoFault == UNCHANGED faults
Fault == faults < MaxFaults /\ faults' = faults + 1

Goto(p, label) == pc' = [pc EXCEPT ![p] = label]
SetLoc(p, l) == loc' = [loc EXCEPT ![p] = l]

\* delete_pack returns or raises: the lock file is given back.
Finish(p) ==
    /\ Goto(p, "idle")
    /\ lock' = Nobody
    /\ SetLoc(p, Fresh)
Raise(p) == Finish(p) /\ Fault

\* authorize_delete: only the owner of the row, whatever its status.
Authorized(p) == row.owner = Principal[p]

\* An axis runs unless it is done, and again when what it deletes is back.
Pending(axis) == axis \notin journal.done

\* Mutant: a finished axis is finished for good.
TwinsPending(p) == Pending("twins")

TwinsDue(p) == Pending("twins") \/ loc[p].rows # {}
DocsDue(p) == Pending("docs") \/ loc[p].docsLive
VectorsDue(p) == Pending("vectors") \/ loc[p].drift

\* Mutant: the graph rows go although a document could not be deleted.
NodesUngated(p) == Pending("nodes") \/ loc[p].rows # {}

NodesDue(p) == ~Pending("twins") /\ (Pending("nodes") \/ loc[p].rows # {})

\* save_journal replaces the file atomically; when it raises, the new file may
\* be in place or not.
Record(axis, ok) ==
    [journal EXCEPT !.done = IF ok THEN @ \cup {axis} ELSE @ \ {axis}]
CommitAxis(p, axis, ok, next) ==
    /\ \/ /\ NoFault
          /\ journal' = Record(axis, ok)
          /\ Goto(p, next)
          /\ UNCHANGED <<lock, loc>>
       \/ Raise(p) /\ journal' \in {journal, Record(axis, ok)}
    /\ UNCHANGED <<row, content, owed, shaped, vecUp, old, writes, bounds>>

-----------------------------------------------------------------------------
(* Entering: authorization, the lock, authorization again, the journal.    *)

Start(p, resume) ==
    /\ pc[p] = "idle"
    /\ Authorized(p)
    /\ Goto(p, "wait")
    /\ SetLoc(p, [Fresh EXCEPT !.resume = resume])
    /\ UNCHANGED <<row, content, owed, shaped, vecUp, journal, lock, old,
                  writes, faults, bounds>>

TakeLock(p) ==
    /\ pc[p] = "wait"
    /\ lock = Nobody
    /\ lock' = p
    /\ Goto(p, "check")
    /\ UNCHANGED <<row, content, owed, shaped, vecUp, journal, loc, old,
                  writes, faults, bounds>>

\* lock_timeout ran out.
GiveUp(p) ==
    /\ pc[p] = "wait"
    /\ lock # Nobody
    /\ Goto(p, "idle")
    /\ SetLoc(p, Fresh)
    /\ UNCHANGED <<row, content, owed, shaped, vecUp, journal, lock, old,
                  writes, faults, bounds>>

\* Mutant: the identity of the pack is not compared.
SameName == TRUE

SameIdentity == journal.created \in {NoSnapshot, row.created}

\* The journal this call works under: a new one, or the one it resumes.
Opened(p) ==
    IF journal.state = "none"
    THEN [state |-> "kept", created |-> row.created, done |-> {}]
    ELSE journal

\* Mutant: the journal is first written when an axis is finished.
OpenInMemory(p) ==
    /\ NoFault
    /\ UNCHANGED <<journal, lock>>
    /\ Goto(p, "rows")
    /\ SetLoc(p, [loc[p] EXCEPT !.created = row.created,
                                !.began = (journal.state = "none")])

\* A new journal is on disk before anything is deleted.
Open(p) ==
    \/ /\ NoFault
       /\ journal' = Opened(p)
       /\ UNCHANGED lock
       /\ Goto(p, "rows")
       /\ SetLoc(p, [loc[p] EXCEPT !.created = row.created,
                                   !.began = (journal.state = "none")])
    \/ /\ journal.state = "none"
       /\ Raise(p)
       /\ journal' \in {journal, Opened(p)}

\* The call may go on: no journal, or told to resume a readable one of this pack.
MayProceed(p) ==
    /\ Authorized(p)
    /\ \/ journal.state = "none"
       \/ journal.state = "kept" /\ loc[p].resume /\ SameIdentity

Check(p) ==
    /\ pc[p] = "check"
    /\ IF MayProceed(p)
       THEN Open(p) /\ old' = Content
       ELSE Finish(p) /\ UNCHANGED <<journal, faults, old>>
    /\ UNCHANGED <<row, content, owed, shaped, vecUp, writes, bounds>>

-----------------------------------------------------------------------------
(* Reading what is there.  A read of graph or documents that raises ends   *)
(* the call.                                                               *)

ReadRows(p) ==
    /\ pc[p] = "rows"
    /\ \/ /\ NoFault
          /\ SetLoc(p, [loc[p] EXCEPT !.rows = graph])
          /\ Goto(p, "docsLive")
          /\ UNCHANGED lock
       \/ Raise(p)
    /\ UNCHANGED <<row, content, owed, shaped, vecUp, journal, old, writes, bounds>>

ReadDocs(p) ==
    /\ pc[p] = "docsLive"
    /\ \/ /\ NoFault
          /\ SetLoc(p, [loc[p] EXCEPT !.docsLive = (sources # {} \/ Tagged # {})])
          /\ Goto(p, "vecLive")
          /\ UNCHANGED lock
       \/ Raise(p)
    /\ UNCHANGED <<row, content, owed, shaped, vecUp, journal, old, writes, bounds>>

\* available is read once.  What cannot be read counts as drift.
ProbeVectors(p) ==
    /\ pc[p] = "vecLive"
    /\ \/ /\ NoFault
          /\ SetLoc(p, [loc[p] EXCEPT
                !.avail = IF vecUp THEN "yes" ELSE "no",
                !.drift = shaped /\ (~vecUp \/ (~Pending("vectors") /\ vecs # {}))])
       \/ /\ Fault
          /\ \E avail \in {"unknown", IF vecUp THEN "yes" ELSE "no"} :
                SetLoc(p, [loc[p] EXCEPT !.avail = avail, !.drift = TRUE])
    /\ Goto(p, "twins")
    /\ UNCHANGED <<row, content, owed, shaped, vecUp, journal, lock, old, writes, bounds>>

-----------------------------------------------------------------------------
(* The four axes.                                                          *)

Enter(p, here, due, body, skip) ==
    /\ pc[p] = here
    /\ Goto(p, IF due THEN body ELSE skip)
    /\ SetLoc(p, [loc[p] EXCEPT !.todo = loc[p].rows, !.failed = FALSE])
    /\ UNCHANGED <<row, content, owed, shaped, vecUp, journal, lock, old,
                  writes, faults, bounds>>

EnterTwins(p) == Enter(p, "twins", TwinsDue(p), "twinLoop", "docs")

\* delete_node_doc of one graph row, whatever its document is tagged with.  A
\* failure is remembered and the loop goes on.
DeleteTwin(p, n) ==
    LET gone == [twin EXCEPT ![n] = "none"]
    IN  /\ pc[p] = "twinLoop"
        /\ n \in loc[p].todo
        /\ \/ /\ NoFault
              /\ twin' = gone
              /\ SetLoc(p, [loc[p] EXCEPT !.todo = @ \ {n}])
           \/ /\ Fault
              /\ twin' \in {twin, gone}
              /\ SetLoc(p, [loc[p] EXCEPT !.todo = @ \ {n}, !.failed = TRUE])
        /\ UNCHANGED <<row, graph, owed, sources, vecs, shaped, vecUp, journal,
                      lock, pc, old, writes, bounds>>

CommitTwins(p) ==
    pc[p] = "twinLoop" /\ loc[p].todo = {} /\ CommitAxis(p, "twins", ~loc[p].failed, "docs")

EnterDocs(p) == Enter(p, "docs", DocsDue(p), "docNodes", "nodes")

\* DELETE FROM doc_nodes by pack_id: a legacy document is not matched.
DeleteDocNodes(p) ==
    LET gone == [n \in Nodes |-> IF twin[n] = "tagged" THEN "none" ELSE twin[n]]
    IN  /\ pc[p] = "docNodes"
        /\ \/ /\ NoFault
              /\ twin' = gone
              /\ Goto(p, "docSources")
              /\ UNCHANGED <<lock, loc>>
           \/ Raise(p) /\ twin' \in {twin, gone}
        /\ UNCHANGED <<row, graph, owed, sources, vecs, shaped, vecUp, journal,
                      old, writes, bounds>>

\* The pack's sources, deleted in batches.
DeleteSources(p) ==
    /\ pc[p] = "docSources"
    /\ \/ /\ NoFault
          /\ sources' = {}
          /\ Goto(p, "docsCommit")
          /\ UNCHANGED <<lock, loc>>
       \/ Raise(p) /\ sources' \in SUBSET sources
    /\ UNCHANGED <<row, graph, twin, owed, vecs, shaped, vecUp, journal, old,
                  writes, bounds>>

CommitDocs(p) == pc[p] = "docsCommit" /\ CommitAxis(p, "docs", TRUE, "nodes")

EnterNodes(p) == Enter(p, "nodes", NodesDue(p), "nodeLoop", "vectors")

DeleteNode(p, n) ==
    /\ pc[p] = "nodeLoop"
    /\ n \in loc[p].todo
    /\ \/ /\ NoFault
          /\ graph' = graph \ {n}
          /\ SetLoc(p, [loc[p] EXCEPT !.todo = @ \ {n}])
       \/ /\ Fault
          /\ graph' \in {graph, graph \ {n}}
          /\ SetLoc(p, [loc[p] EXCEPT !.todo = @ \ {n}, !.failed = TRUE])
    /\ UNCHANGED <<row, twin, owed, sources, vecs, shaped, vecUp, journal, lock,
                  pc, old, writes, bounds>>

CommitNodes(p) ==
    pc[p] = "nodeLoop" /\ loc[p].todo = {} /\ CommitAxis(p, "nodes", ~loc[p].failed, "vectors")

EnterVectors(p) == Enter(p, "vectors", VectorsDue(p), "vecDelete", "end")

\* _delete_pack_vectors.  Confirmed: the store deleted and said so, or its
\* backend is of a kind with nothing to delete.
DeleteVectors(p) ==
    LET tries == shaped /\ loc[p].avail = "yes"
        confirmed == loc[p].avail = "yes" \/ (loc[p].avail = "no" /\ ~shaped)
    IN  /\ pc[p] = "vecDelete"
        /\ Goto(p, "vecCommit")
        /\ \/ /\ NoFault
              /\ tries => vecUp
              /\ vecs' = IF tries THEN {} ELSE vecs
              /\ SetLoc(p, [loc[p] EXCEPT !.failed = ~confirmed])
           \/ /\ \/ Fault
                 \/ tries /\ ~vecUp /\ NoFault
              /\ vecs' \in IF tries /\ vecUp THEN {vecs, {}} ELSE {vecs}
              /\ SetLoc(p, [loc[p] EXCEPT !.failed = TRUE])
        /\ UNCHANGED <<row, graph, twin, owed, sources, shaped, vecUp, journal,
                      lock, old, writes, bounds>>

\* Mutant: the last axis goes on to an axis there is not.
CommitVectorsAndGoOn(p) == pc[p] = "vecCommit" /\ CommitAxis(p, "vectors", ~loc[p].failed, "edges")

CommitVectors(p) == pc[p] = "vecCommit" /\ CommitAxis(p, "vectors", ~loc[p].failed, "end")

\* The call returns.  The journal stays, finished or not.
Return(p) ==
    /\ pc[p] = "end"
    /\ Finish(p)
    /\ UNCHANGED <<row, content, owed, shaped, vecUp, journal, old, writes, faults,
                  bounds>>

\* The process dies; the operating system gives its lock file back.
Crash(p) ==
    /\ pc[p] # "idle"
    /\ crashes < MaxCrashes
    /\ crashes' = crashes + 1
    /\ Goto(p, "idle")
    /\ lock' = IF lock = p THEN Nobody ELSE lock
    /\ SetLoc(p, Fresh)
    /\ UNCHANGED <<row, content, owed, shaped, vecUp, journal, old, writes, faults,
                  outages, rows, tears, clears>>

-----------------------------------------------------------------------------
(* The others.  Writers of the pack hold locks that delete_pack does not.  *)

Write(item) ==
    /\ writes < MaxWrites
    /\ writes' = writes + 1
    /\ old' = old \ {item}
    /\ UNCHANGED <<row, shaped, vecUp, journal, lock, pc, loc, faults, bounds>>

\* The builder writes the graph row first, the document after it.
WriteNode(n) ==
    /\ Write(<<"graph", n>>)
    /\ graph' = graph \cup {n}
    /\ owed' = owed \cup {n}
    /\ UNCHANGED <<twin, sources, vecs>>

WriteTwin(n) ==
    /\ n \in owed
    /\ owed' = owed \ {n}
    /\ twin' = [twin EXCEPT ![n] = "tagged"]
    /\ old' = old \ {<<"twin", n>>}
    /\ UNCHANGED <<row, graph, sources, vecs, shaped, vecUp, journal, lock, pc, loc,
                  writes, faults, bounds>>

WriteSource(c) ==
    /\ Write(<<"source", c>>)
    /\ sources' = sources \cup {c}
    /\ UNCHANGED <<graph, twin, owed, vecs>>

WriteVector(v) ==
    /\ vecUp
    /\ Write(<<"vector", v>>)
    /\ vecs' = vecs \cup {v}
    /\ UNCHANGED <<graph, twin, owed, sources>>

VectorsGoDown ==
    /\ vecUp
    /\ outages < MaxOutages
    /\ outages' = outages + 1
    /\ vecUp' = FALSE
    /\ UNCHANGED <<row, content, owed, shaped, journal, lock, pc, loc, old, writes,
                  faults, crashes, rows, tears, clears>>

VectorsComeBack ==
    /\ ~vecUp
    /\ vecUp' = TRUE
    /\ UNCHANGED <<row, content, owed, shaped, journal, lock, pc, loc, old, writes,
                  faults, bounds>>

Unregister ==
    /\ row # NoRow
    /\ rows < MaxRows
    /\ row' = NoRow
    /\ UNCHANGED <<content, owed, shaped, vecUp, journal, lock, pc, loc, old, writes,
                  faults, bounds>>

\* created_at has whole seconds, so it may be the one of the row before.
Register ==
    /\ row = NoRow
    /\ rows < MaxRows
    /\ rows' = rows + 1
    /\ \E u \in Users, at \in {rows, rows + 1} : row' = [owner |-> u, created |-> at]
    /\ UNCHANGED <<content, owed, shaped, vecUp, journal, lock, pc, loc, old, writes,
                  faults, outages, crashes, tears, clears>>

\* Something outside the program damages the journal between two runs.
Tear ==
    /\ journal.state = "kept"
    /\ lock = Nobody
    /\ tears < MaxTears
    /\ tears' = tears + 1
    /\ journal' = Torn
    /\ UNCHANGED <<row, content, owed, shaped, vecUp, lock, pc, loc, old, writes,
                  faults, outages, crashes, rows, clears>>

\* The caller removes the journal of a finished deletion.
ClearJournal ==
    /\ journal.state = "kept"
    /\ journal.done = Axes
    /\ lock = Nobody
    /\ clears < MaxClears
    /\ clears' = clears + 1
    /\ journal' = NoJournal
    /\ UNCHANGED <<row, content, owed, shaped, vecUp, lock, pc, loc, old, writes,
                  faults, outages, crashes, rows, tears>>

-----------------------------------------------------------------------------
\* The steps of a running call.
Working(p) ==
    \/ Check(p)
    \/ ReadRows(p)
    \/ ReadDocs(p)
    \/ ProbeVectors(p)
    \/ EnterTwins(p)
    \/ \E n \in Nodes : DeleteTwin(p, n)
    \/ CommitTwins(p)
    \/ EnterDocs(p)
    \/ DeleteDocNodes(p)
    \/ DeleteSources(p)
    \/ CommitDocs(p)
    \/ EnterNodes(p)
    \/ \E n \in Nodes : DeleteNode(p, n)
    \/ CommitNodes(p)
    \/ EnterVectors(p)
    \/ DeleteVectors(p)
    \/ CommitVectors(p)
    \/ Return(p)

DeleterNext(p) ==
    \/ \E resume \in BOOLEAN : Start(p, resume)
    \/ TakeLock(p)
    \/ GiveUp(p)
    \/ Working(p)
    \/ Crash(p)

OthersNext ==
    \/ \E n \in Nodes : WriteNode(n)
    \/ \E n \in Nodes : WriteTwin(n)
    \/ \E c \in Sources : WriteSource(c)
    \/ \E v \in Vectors : WriteVector(v)
    \/ VectorsGoDown
    \/ VectorsComeBack
    \/ Unregister
    \/ Register
    \/ Tear
    \/ ClearJournal

Next == (\E p \in Deleters : DeleterNext(p)) \/ OthersNext

Spec == Init /\ [][Next]_vars

\* A running call is scheduled; the vector store comes back; the operator goes
\* on resuming, with a lock_timeout that in the end outlasts the calls before it.
Fairness ==
    /\ \A p \in Deleters : WF_vars(Working(p)) /\ WF_vars(TakeLock(p))
    /\ \A p \in Deleters : SF_vars(Start(p, TRUE)) /\ SF_vars(loc[p].resume /\ TakeLock(p))
    /\ WF_vars(VectorsComeBack)
Patience ==
    \A p \in Deleters : <>[][~(loc[p].resume /\ GiveUp(p))]_vars

LiveSpec == Spec /\ Fairness /\ Patience

-----------------------------------------------------------------------------
\* A graph row whose document is gone, and no writer about to write it.
HalfDeleted == {n \in graph : twin[n] = "none" /\ n \notin owed}

\* A document without a pack_id can only be found through its graph row.  No
\* interleaving, failure or crash deletes the row and leaves that document:
\* the gate of delete_pack between node_twin_loop and graph_nodes.
NoLostTwin == \A n \in Nodes : twin[n] = "legacy" => n \in graph

\* As long as nobody cleared a journal by hand, a node that was deleted half way
\* has a journal that the next run meets, whatever failed or died in between.
HalfDeletedIsRecorded == clears = 0 /\ HalfDeleted # {} => journal.state # "none"

\* When a call ends with all four axes done, everything the pack held when the
\* call began is gone, except what was written again meanwhile, and vectors in a
\* backend that delete_pack cannot delete from.
CompleteMeansGone ==
    \A p \in Deleters : pc[p] = "end" /\ journal.done = Axes =>
        \A item \in old \cap Content : item[1] = "vector" /\ ~shaped

\* Content disappears only in the hands of the lock holder, under a readable
\* journal it began itself or was told to resume, made for the registration of
\* the pack that it was authorized for (or by a version that kept none).
DeletionIsLicensed ==
    [][~(Content \subseteq Content') =>
        \E p \in Deleters :
            /\ lock = p
            /\ journal.state = "kept"
            /\ loc[p].began \/ loc[p].resume
            /\ journal.created \in {NoSnapshot, loc[p].created}]_vars

\* If the pack has an owner who goes on resuming, an unfinished deletion ends:
\* some time later nothing of the pack is left (but for vectors in a backend
\* that delete_pack cannot delete from), or the journal was cleared.
ResidueGoes ==
    journal.state = "kept" ~>
        \/ journal.state # "kept"
        \/ \A item \in Content : item[1] = "vector" /\ ~shaped

\* A journal that marks every axis done while no call is running says that the
\* deletion is complete: no node is deleted half way.
AllDoneMeansWhole ==
    journal.state = "kept" /\ journal.done = Axes /\ lock = Nobody => HalfDeleted = {}

-----------------------------------------------------------------------------
(* The inductive invariant behind the proofs.                              *)

Inside(p) == pc[p] \notin {"idle", "wait"}
Running(p) == pc[p] \in Reading \cup Deleting

\* The journal of a running call is there, fits the pack, and was meant for it.
Licensed(p) ==
    /\ journal.state = "kept"
    /\ journal.created \in {NoSnapshot, loc[p].created}
    /\ loc[p].began \/ loc[p].resume

\* No graph row the call may still delete has an untagged document.
TwinsFirst(p) ==
    /\ pc[p] = "twinLoop" /\ ~loc[p].failed =>
          \A n \in loc[p].rows \ loc[p].todo : twin[n] # "legacy"
    /\ pc[p] \in {"docs", "docNodes", "docSources", "docsCommit", "nodes"} /\ ~Pending("twins") =>
          \A n \in loc[p].rows : twin[n] # "legacy"
    /\ pc[p] = "nodeLoop" =>
          \A n \in loc[p].todo : twin[n] # "legacy"

InOrder(p) ==
    /\ Inside(p) => lock = p
    /\ Running(p) => Licensed(p)
    /\ TwinsFirst(p)

IInv ==
    /\ TypeOK
    /\ \A p \in Deleters : InOrder(p)
    /\ NoLostTwin
    /\ HalfDeletedIsRecorded

\* What is left of the content the running call found: graph rows, documents
\* with a pack_id, sources and vectors; and the documents without one.
GraphLeft == {n \in graph : <<"graph", n>> \in old}
TaggedLeft == {n \in Tagged : <<"twin", n>> \in old}
SourcesLeft == {c \in sources : <<"source", c>> \in old}
VectorsLeft == {v \in vecs : <<"vector", v>> \in old}
LegacyDocs == {n \in Nodes : twin[n] = "legacy"}

\* Behind CompleteMeansGone: what each read and each axis of a call established.
Last == {"vectors", "vecDelete", "vecCommit", "end"}
RowsSeen(p) ==
    Running(p) /\ pc[p] # "rows" => GraphLeft \cup LegacyDocs \subseteq loc[p].rows
DocsSeen(p) ==
    pc[p] \in {"vecLive"} \cup Deleting /\ ~loc[p].docsLive =>
        TaggedLeft = {} /\ SourcesLeft = {}
VectorsSeen(p) ==
    /\ pc[p] \in Deleting \ {"vecDelete", "vecCommit", "end"}
    /\ shaped /\ ~loc[p].drift /\ ~Pending("vectors")
    => VectorsLeft = {}
TwinsDone(p) ==
    pc[p] \in Deleting \ {"twins", "twinLoop"} /\ ~Pending("twins") => LegacyDocs = {}
DocsDone(p) ==
    /\ pc[p] \in {"docSources", "docsCommit"} => TaggedLeft = {}
    /\ pc[p] = "docsCommit" => SourcesLeft = {}
    /\ pc[p] \in {"nodes", "nodeLoop"} \cup Last /\ ~Pending("docs") =>
           TaggedLeft = {} /\ SourcesLeft = {}
NodesDone(p) ==
    /\ pc[p] = "nodeLoop" /\ ~loc[p].failed => GraphLeft \subseteq loc[p].todo
    /\ pc[p] \in Last /\ ~Pending("twins") /\ ~Pending("nodes") => GraphLeft = {}
VectorsDone(p) ==
    /\ pc[p] = "vecCommit" /\ shaped /\ ~loc[p].failed => VectorsLeft = {}
    /\ pc[p] = "end" /\ shaped /\ ~Pending("vectors") => VectorsLeft = {}

Swept(p) ==
    /\ RowsSeen(p) /\ DocsSeen(p) /\ VectorsSeen(p)
    /\ TwinsDone(p) /\ DocsDone(p) /\ NodesDone(p) /\ VectorsDone(p)

SweepInv == IInv /\ \A p \in Deleters : Swept(p)
=============================================================================
