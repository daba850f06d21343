------------------------------ MODULE PackLoad ------------------------------
(***************************************************************************)
(* The pack loaders of pack/load.py over the stores they fill: a full load *)
(* into an empty pack, and incremental loads that compare a file with a    *)
(* snapshot of the live pack, write what differs, and then delete what the *)
(* file no longer lists.                                                   *)
(*                                                                         *)
(* One node write goes to three stores with no common transaction (graph,  *)
(* documents, vectors), so a store that fails, or a process that dies,     *)
(* leaves any of them behind; the next run has to notice.  A node and a    *)
(* chunk with the same id share ONE slot in the vector store.              *)
(***************************************************************************)
EXTENDS Integers, FiniteSets

CONSTANTS
    Nodes,        \* ids of nodes, the pack's anchor not among them
    Chunks,       \* ids of chunks; an id in both has one vector slot
    Edges,        \* pairs of node ids
    Types, Spaces, Values,   \* what a node may say of itself
    Absent,       \* a row that is not there
    Files,        \* what a pack file may hold: [nodes, chunks, edges]
    Refused,      \* what the grammar or the validation does not let in
    Recover,      \* recover_vectors=True on a store that reads one id
    MaxRuns, MaxFaults, MaxOutside   \* bounds of the instance

Version == [type : Types, space : Spaces, value : Values]
ChunkRow == [text : Values, meta : Values]
Ids == Nodes \cup Chunks

\* A slot says which text was embedded and whose metadata it carries.
NodeSlot(v) == [text |-> <<v.type, v.value>>, meta |-> {}]
ChunkSlot(r) == [text |-> <<"chunk", r.text>>, meta |-> {r.meta}]
Slot == [text : (Types \X Values) \cup ({"chunk"} \X Values), meta : SUBSET Values]

Listed(f, kind) == {i \in DOMAIN f[kind] : f[kind][i] # Absent}

ASSUME LoadAssumption ==
    /\ Edges \subseteq Nodes \X Nodes
    /\ Recover \in BOOLEAN /\ Refused \subseteq Version
    /\ {MaxRuns, MaxFaults, MaxOutside} \subseteq Nat
    /\ Absent \notin Version \cup ChunkRow \cup Values \cup Slot
    /\ Files # {}
    /\ \A f \in Files : /\ f.nodes \in [Nodes -> Version \cup {Absent}]
                        /\ f.chunks \in [Chunks -> ChunkRow \cup {Absent}]
                        /\ f.edges \in [Edges -> Values \cup {Absent}]

VARIABLES
    nodeRows,     \* the graph: one row per node id
    edgeRows,     \* the graph: one row per edge key
    docRows,      \* documents: per node id, at most one row per space
    sourceRows,   \* documents: one row per chunk
    slots,        \* vectors: one slot per id
    live,         \* live_pack_state: the snapshot an incremental run compares with
    run,          \* the call that is running: its options and its progress
    faults, outside, runs    \* what has been used of the bounds

loadVars == <<nodeRows, edgeRows, docRows, sourceRows, slots, live, run,
              faults, outside, runs>>
stores == <<nodeRows, edgeRows, docRows, sourceRows, slots>>

NoSnapshot == [nodes |-> [n \in Nodes |-> Absent],
               chunks |-> [c \in Chunks |-> Absent],
               edges |-> {}, vectors |-> {}, docs |-> [n \in Nodes |-> {}]]

\* seen: the vector ids, when the store could list them; agrees: the nodes whose
\* document, by the fingerprints read at the start, is not stale; clean: no fault,
\* error, skip or unconfirmed vector, no comparison left out, no outside step, so far.
Idle == [at |-> "idle", file |-> CHOOSE f \in Files : TRUE, full |-> FALSE,
         force |-> FALSE, replace |-> FALSE, todo |-> {}, pending |-> {},
         applied |-> {}, seen |-> {}, agrees |-> {}, listed |-> TRUE, clean |-> FALSE]

LoadInit ==
    /\ nodeRows = [n \in Nodes |-> Absent]
    /\ edgeRows = [e \in Edges |-> Absent]
    /\ docRows = [n \in Nodes |-> {}]
    /\ sourceRows = [c \in Chunks |-> Absent]
    /\ slots = [i \in Ids |-> Absent]
    /\ live = NoSnapshot
    /\ run = Idle
    /\ faults = 0 /\ outside = 0 /\ runs = 0

Snapshot == [nodes |-> nodeRows, chunks |-> sourceRows,
             edges |-> {e \in Edges : edgeRows[e] # Absent},
             vectors |-> {i \in Ids : slots[i] # Absent},
             docs |-> [n \in Nodes |-> {r.space : r \in docRows[n]}]]

SpendFault == faults < MaxFaults /\ faults' = faults + 1

\* The stores a write reached, when the legs that follow may fail or never run.
WriteDoc(n, v) ==
    docRows' = [docRows EXCEPT ![n] = {r \in @ : r.space # v.space} \cup {v}]

Stops == run' = Idle /\ live' = NoSnapshot

------------------------------------------------------------------------------
\* load_nodes and its siblings on a pack that holds nothing yet.
StartFull(f) ==
    /\ run.at = "idle" /\ runs < MaxRuns
    /\ Snapshot = NoSnapshot
    /\ live' = NoSnapshot
    /\ run' = [Idle EXCEPT !.at = "nodes", !.file = f, !.full = TRUE,
                           !.todo = Listed(f, "nodes"), !.clean = TRUE]
    /\ runs' = runs + 1
    /\ UNCHANGED <<stores, faults, outside>>

\* live_pack_state, then load_nodes_incremental reads, once, the fingerprints of the
\* documents and the vector ids.  Without the fingerprints no document's value is
\* compared, which is a warning and no error; a store that cannot list its vectors
\* leaves every one of them unconfirmed.
StartIncremental(f, force, replace) ==
    /\ run.at = "idle" /\ runs < MaxRuns
    /\ live' = Snapshot
    /\ \E compared, listed \in BOOLEAN :
        /\ IF compared /\ listed THEN UNCHANGED faults ELSE SpendFault
        /\ run' = [Idle EXCEPT !.at = "nodes", !.file = f, !.force = force,
                       !.replace = replace, !.todo = Listed(f, "nodes"),
                       !.seen = IF listed THEN Snapshot.vectors ELSE {},
                       !.agrees = {n \in Listed(f, "nodes") : compared => f.nodes[n] \in docRows[n]},
                       !.listed = listed, !.clean = compared]
    /\ runs' = runs + 1
    /\ UNCHANGED <<stores, outside>>

\* How the vector of an unchanged row is looked for: in the listed ids, else
\* one by one, else it stays unconfirmed.
Found(i) == IF run.listed THEN i \in run.seen ELSE Recover => slots[i] # Absent
Confirmable == run.listed \/ Recover

FileRow(n) == run.file.nodes[n]

\* _cleanup_stale_doc_spaces, over the spaces the snapshot knows.
OtherSpaces(n) == live.docs[n] \ {FileRow(n).space}
CleanDocs(n, rows) == [rows EXCEPT ![n] = {r \in @ : r.space \notin OtherSpaces(n)}]

\* Mutant: a document is compared by its space only
SameSpace(n) == ~run.full /\ live.nodes[n] = FileRow(n) /\ FileRow(n).space \in live.docs[n]

\* Graph and document are as the file says, as far as was read at the start.
SameRow(n) == /\ ~run.full
              /\ live.nodes[n] = FileRow(n)
              /\ FileRow(n).space \in live.docs[n]
              /\ n \in run.agrees

\* A row whose graph, document and vector are as the file says is not written:
\* only what it left in other spaces goes.
KeepNode(n) ==
    /\ run.at = "nodes" /\ n \in run.todo
    /\ SameRow(n) /\ Found(n)
    /\ \/ docRows' = CleanDocs(n, docRows) /\ UNCHANGED faults
          /\ run' = [run EXCEPT !.todo = @ \ {n}, !.clean = @ /\ Confirmable]
       \/ /\ SpendFault /\ UNCHANGED docRows
          /\ run' = [run EXCEPT !.todo = @ \ {n}, !.clean = FALSE]
    /\ UNCHANGED <<nodeRows, edgeRows, sourceRows, slots, live, outside, runs>>

\* _same_pack_source: the chunk of that id owns the slot (incremental only).
SharedSlot(n) == ~run.full /\ n \in Chunks /\ sourceRows[n] # Absent

\* builder.add_node refuses to overwrite a row it was given no digest for.
Conflict(n) ==
    /\ nodeRows[n] \notin {Absent, FileRow(n)}
    /\ run.full \/ live.nodes[n] = Absent

\* The row at hand is to be written; a row that is refused is skipped.
Writes(n) == run.at = "nodes" /\ n \in run.todo /\ ~(SameRow(n) /\ Found(n))

SkipNode(n) ==
    /\ Writes(n) /\ FileRow(n) \in Refused
    /\ run' = [run EXCEPT !.todo = @ \ {n}, !.clean = FALSE]
    /\ UNCHANGED <<stores, live, faults, outside, runs>>

Legs == {"graph", "docs", "vector"}
\* The graph is first; without it the other legs are skipped.
Landings == {{}, {"graph"}, {"graph", "docs"}, {"graph", "vector"}, Legs}

Land(n, legs) ==
    LET v == FileRow(n) IN
    /\ nodeRows' = IF "graph" \in legs THEN [nodeRows EXCEPT ![n] = v] ELSE nodeRows
    /\ IF "docs" \in legs THEN WriteDoc(n, v) ELSE UNCHANGED docRows
    /\ slots' = IF "vector" \in legs /\ ~SharedSlot(n)
                THEN [slots EXCEPT ![n] = NodeSlot(v)] ELSE slots

\* Every leg landed: the rows the node left in other spaces go.
WriteNode(n) ==
    /\ Writes(n) /\ FileRow(n) \notin Refused /\ ~Conflict(n)
    /\ LET v == FileRow(n)
           written == [docRows EXCEPT ![n] = {r \in @ : r.space # v.space} \cup {v}]
       IN /\ nodeRows' = [nodeRows EXCEPT ![n] = v]
          /\ docRows' = CleanDocs(n, written)
          /\ slots' = IF SharedSlot(n) THEN slots ELSE [slots EXCEPT ![n] = NodeSlot(v)]
    /\ run' = [run EXCEPT !.todo = @ \ {n}]
    /\ UNCHANGED <<edgeRows, sourceRows, live, faults, outside, runs>>

\* A leg fails, or lands and reports a failure: an error is counted and the row
\* is done with; or the process dies behind the legs that landed.
FailNode(n) ==
    /\ Writes(n) /\ FileRow(n) \notin Refused /\ ~Conflict(n)
    /\ SpendFault
    /\ \E legs \in Landings : Land(n, legs)
    /\ \/ run' = [run EXCEPT !.todo = @ \ {n}, !.clean = FALSE] /\ UNCHANGED live
       \/ Stops
    /\ UNCHANGED <<edgeRows, sourceRows, outside, runs>>

ConflictNode(n) ==
    /\ Writes(n) /\ FileRow(n) \notin Refused /\ Conflict(n)
    /\ run' = [run EXCEPT !.todo = @ \ {n}, !.clean = FALSE]
    /\ UNCHANGED <<stores, live, faults, outside, runs>>

NodesDone ==
    /\ run.at = "nodes" /\ run.todo = {}
    /\ run' = [run EXCEPT !.at = "edges", !.todo = Listed(run.file, "edges")]
    /\ UNCHANGED <<stores, live, faults, outside, runs>>

------------------------------------------------------------------------------
\* load_edges.
EndsListed(e) == {e[1], e[2]} \subseteq Listed(run.file, "nodes")
EndsLive(e) == nodeRows[e[1]] # Absent /\ nodeRows[e[2]] # Absent

SkipEdge(e) ==
    /\ run.at = "edges" /\ e \in run.todo /\ ~EndsListed(e)
    /\ run' = [run EXCEPT !.todo = @ \ {e}, !.clean = FALSE]
    /\ UNCHANGED <<stores, live, faults, outside, runs>>

\* The key counts as applied before the write, whatever becomes of the write.
Applied(e) == [run EXCEPT !.todo = @ \ {e}, !.applied = @ \cup {e}]

Replaceable(e) == edgeRows[e] \in {Absent, run.file.edges[e]} \/ run.replace

WriteEdge(e) ==
    /\ run.at = "edges" /\ e \in run.todo /\ EndsListed(e)
    /\ EndsLive(e) /\ Replaceable(e)
    /\ edgeRows' = [edgeRows EXCEPT ![e] = run.file.edges[e]]
    /\ run' = Applied(e)
    /\ UNCHANGED <<nodeRows, docRows, sourceRows, slots, live, faults, outside, runs>>

\* An endpoint is missing from the graph, the row differs and may not be
\* replaced, or the store fails before or after it committed.
FailEdge(e) ==
    /\ run.at = "edges" /\ e \in run.todo /\ EndsListed(e)
    /\ IF EndsLive(e) /\ Replaceable(e)
       THEN SpendFault /\ edgeRows' \in {edgeRows, [edgeRows EXCEPT ![e] = run.file.edges[e]]}
       ELSE UNCHANGED <<edgeRows, faults>>
    /\ run' = [Applied(e) EXCEPT !.clean = FALSE]
    /\ UNCHANGED <<nodeRows, docRows, sourceRows, slots, live, outside, runs>>

\* load_chunks_incremental lists the vector ids anew.
EdgesDone ==
    /\ run.at = "edges" /\ run.todo = {}
    /\ \E listed \in BOOLEAN :
        /\ IF listed THEN UNCHANGED faults ELSE ~run.full /\ SpendFault
        /\ run' = [run EXCEPT !.at = "chunks", !.listed = listed,
                              !.seen = IF listed /\ ~run.full THEN Snapshot.vectors ELSE {},
                              !.todo = Listed(run.file, "chunks")]
    /\ UNCHANGED <<stores, live, outside, runs>>

------------------------------------------------------------------------------
\* load_chunks and load_chunks_incremental: a new chunk, a changed text or a
\* lost vector is embedded again; a changed metadata is rewritten in place.
FileChunk(c) == run.file.chunks[c]
TextDiffers(c) ==
    run.full \/ live.chunks[c] \notin {r \in ChunkRow : r.text = FileChunk(c).text}
MetaDiffers(c) == ~TextDiffers(c) /\ live.chunks[c] # FileChunk(c)

QueueChunk(c) ==
    /\ run.at = "chunks" /\ c \in run.todo
    /\ \/ TextDiffers(c)
       \/ MetaDiffers(c) /\ slots[c] = Absent     \* _vec_meta_update: no row to update
       \/ ~TextDiffers(c) /\ ~MetaDiffers(c) /\ ~Found(c)
    /\ run' = [run EXCEPT !.todo = @ \ {c}, !.pending = @ \cup {c}]
    /\ UNCHANGED <<stores, live, faults, outside, runs>>

KeepChunk(c) ==
    /\ run.at = "chunks" /\ c \in run.todo
    /\ ~TextDiffers(c) /\ ~MetaDiffers(c) /\ Found(c)
    /\ run' = [run EXCEPT !.todo = @ \ {c}, !.clean = @ /\ Confirmable]
    /\ UNCHANGED <<stores, live, faults, outside, runs>>

\* _vec_meta_update then rewrite_source_metadata; when the second one fails the
\* document keeps its old metadata and the next run tries again.
RewriteMeta(c) ==
    /\ run.at = "chunks" /\ c \in run.todo
    /\ MetaDiffers(c) /\ slots[c] # Absent
    /\ slots' = [slots EXCEPT ![c].meta = {FileChunk(c).meta}]
    /\ \/ /\ sourceRows' = [sourceRows EXCEPT ![c] = FileChunk(c)]
          /\ run' = [run EXCEPT !.todo = @ \ {c}]
          /\ UNCHANGED <<faults, live>>
       \/ /\ SpendFault /\ UNCHANGED sourceRows
          /\ \/ run' = [run EXCEPT !.todo = @ \ {c}, !.clean = FALSE] /\ UNCHANGED live
             \/ Stops
    /\ UNCHANGED <<nodeRows, edgeRows, docRows, outside, runs>>

\* An update that fails, even one that already took the row out, falls back on
\* embedding the chunk again.
FailMeta(c) ==
    /\ run.at = "chunks" /\ c \in run.todo
    /\ MetaDiffers(c) /\ slots[c] # Absent
    /\ SpendFault
    /\ slots' \in {slots, [slots EXCEPT ![c] = Absent]}
    /\ run' = [run EXCEPT !.todo = @ \ {c}, !.pending = @ \cup {c}]
    /\ UNCHANGED <<nodeRows, edgeRows, docRows, sourceRows, live, outside, runs>>

ChunksRead ==
    /\ run.at = "chunks" /\ run.todo = {}
    /\ run' = [run EXCEPT !.at = "batch"]
    /\ UNCHANGED <<stores, live, faults, outside, runs>>

Embedded(cs) == [i \in Ids |-> IF i \in cs THEN ChunkSlot(FileChunk(i)) ELSE slots[i]]

\* flush: all vectors at once, then the documents; a batch that fails is taken
\* apart and every chunk tried by itself.
FlushVectors ==
    /\ run.at = "batch"
    /\ \/ /\ slots' = Embedded(run.pending) /\ UNCHANGED faults
          /\ run' = [run EXCEPT !.at = "sources"]
       \/ /\ run.pending # {} /\ SpendFault /\ UNCHANGED slots
          /\ run' = [run EXCEPT !.at = "single"]
    /\ UNCHANGED <<nodeRows, edgeRows, docRows, sourceRows, live, outside, runs>>

\* A document that fails leaves the old baseline for the next run to see.
FlushSource(c) ==
    /\ run.at = "sources" /\ c \in run.pending
    /\ \/ /\ sourceRows' = [sourceRows EXCEPT ![c] = FileChunk(c)] /\ UNCHANGED faults
          /\ run' = [run EXCEPT !.pending = @ \ {c}]
       \/ /\ SpendFault /\ UNCHANGED sourceRows
          /\ run' = [run EXCEPT !.pending = @ \ {c}, !.clean = FALSE]
    /\ UNCHANGED <<nodeRows, edgeRows, docRows, slots, live, outside, runs>>

\* One by one, after the batch failed: a chunk may fail for the same reason.
FlushSingle(c) ==
    /\ run.at = "single" /\ c \in run.pending
    /\ UNCHANGED faults
    /\ \/ /\ slots' = Embedded({c})
          /\ sourceRows' = [sourceRows EXCEPT ![c] = FileChunk(c)]
       \/ /\ UNCHANGED sourceRows
          /\ slots' \in {slots, Embedded({c})}
    /\ run' = [run EXCEPT !.pending = @ \ {c}, !.clean = FALSE]
    /\ UNCHANGED <<nodeRows, edgeRows, docRows, live, outside, runs>>

ChunksDone ==
    /\ run.at \in {"sources", "single"} /\ run.pending = {}
    /\ run' = [run EXCEPT !.at = IF run.full THEN "done" ELSE "finalize"]
    /\ UNCHANGED <<stores, live, faults, outside, runs>>

------------------------------------------------------------------------------
\* incremental_finalize: the pins, then one axis after the other; a deletion
\* that fails is only logged.
GoneNodes == {n \in Nodes : live.nodes[n] # Absent} \ Listed(run.file, "nodes")
GoneChunks == {c \in Chunks : live.chunks[c] # Absent} \ Listed(run.file, "chunks")
GoneDocs == {n \in Nodes : live.docs[n] # {}} \ Listed(run.file, "nodes")

Over30(gone, all) == 10 * Cardinality(gone) > 3 * Cardinality(all)

Pinned ==
    \/ Listed(run.file, "nodes") = {} /\ \E n \in Nodes : live.nodes[n] # Absent
    \/ Listed(run.file, "chunks") = {} /\ \E c \in Chunks : live.chunks[c] # Absent
    \/ ~run.force /\ \/ Over30(GoneNodes, {n \in Nodes : live.nodes[n] # Absent})
                     \/ Over30(GoneChunks, {c \in Chunks : live.chunks[c] # Absent})
                     \/ Over30(GoneDocs, {n \in Nodes : live.docs[n] # {}})

StopAtPin ==
    /\ run.at = "finalize" /\ Pinned
    /\ Stops
    /\ UNCHANGED <<stores, faults, outside, runs>>

PassPins ==
    /\ run.at = "finalize" /\ ~Pinned
    /\ run' = [run EXCEPT !.at = "dropNodes"]
    /\ UNCHANGED <<stores, live, faults, outside, runs>>

\* delete_node takes the incident edges with it, if the row is of the type the
\* snapshot saw.
DropNodes ==
    /\ run.at = "dropNodes"
    /\ \E kept \in SUBSET GoneNodes :
        LET gone == {n \in GoneNodes \ kept :
                        nodeRows[n] # Absent /\ nodeRows[n].type = live.nodes[n].type} IN
        /\ IF kept = {} THEN UNCHANGED faults ELSE SpendFault
        /\ nodeRows' = [n \in Nodes |-> IF n \in gone THEN Absent ELSE nodeRows[n]]
        /\ edgeRows' = [e \in Edges |-> IF {e[1], e[2]} \cap gone # {} THEN Absent
                                        ELSE edgeRows[e]]
        /\ run' = [run EXCEPT !.at = "dropDocs", !.clean = @ /\ kept = {}]
    /\ UNCHANGED <<docRows, sourceRows, slots, live, outside, runs>>

DropDocs ==
    /\ run.at = "dropDocs"
    /\ \E kept \in SUBSET GoneDocs :
        /\ IF kept = {} THEN UNCHANGED faults ELSE SpendFault
        /\ docRows' = [n \in Nodes |-> IF n \in GoneDocs \ kept
                          THEN {r \in docRows[n] : r.space \notin live.docs[n]}
                          ELSE docRows[n]]
        /\ run' = [run EXCEPT !.at = "dropSources", !.clean = @ /\ kept = {}]
    /\ UNCHANGED <<nodeRows, edgeRows, sourceRows, slots, live, outside, runs>>

\* Mutant: the vectors of all chunks that are gone.
ChunkVectorsAll == GoneChunks

\* One batch: the rows, then the vectors, except those a node of the file uses.
ChunkVectors == GoneChunks \ Listed(run.file, "nodes")

DropSources ==
    /\ run.at = "dropSources"
    /\ \E kept \in {{}, GoneChunks}, vkept \in {{}, ChunkVectors} :
        /\ IF kept = {} /\ vkept = {} THEN UNCHANGED faults ELSE SpendFault
        /\ sourceRows' = [c \in Chunks |-> IF c \in GoneChunks \ kept THEN Absent
                                           ELSE sourceRows[c]]
        /\ slots' = [i \in Ids |-> IF i \in ChunkVectors \ vkept THEN Absent ELSE slots[i]]
        /\ run' = [run EXCEPT !.at = "dropEdges", !.clean = @ /\ kept = {} /\ vkept = {}]
    /\ UNCHANGED <<nodeRows, edgeRows, docRows, live, outside, runs>>

StaleEdges == IF run.applied = {} THEN {} ELSE live.edges \ run.applied

DropEdges ==
    /\ run.at = "dropEdges"
    /\ \E kept \in SUBSET StaleEdges :
        /\ IF kept = {} THEN UNCHANGED faults ELSE SpendFault
        /\ edgeRows' = [e \in Edges |-> IF e \in StaleEdges \ kept THEN Absent ELSE edgeRows[e]]
        /\ run' = [run EXCEPT !.at = "dropVectors", !.clean = @ /\ kept = {}]
    /\ UNCHANGED <<nodeRows, docRows, sourceRows, slots, live, outside, runs>>

Orphans == live.vectors \ (Listed(run.file, "nodes") \cup Listed(run.file, "chunks"))

DropVectors ==
    /\ run.at = "dropVectors"
    /\ \E kept \in {{}, Orphans} :
        /\ IF kept = {} THEN UNCHANGED faults ELSE SpendFault
        /\ slots' = [i \in Ids |-> IF i \in Orphans \ kept THEN Absent ELSE slots[i]]
        /\ run' = [run EXCEPT !.at = "done", !.clean = @ /\ kept = {}]
    /\ UNCHANGED <<nodeRows, edgeRows, docRows, sourceRows, live, outside, runs>>

ReturnFromLoad ==
    /\ run.at = "done"
    /\ Stops
    /\ UNCHANGED <<stores, faults, outside, runs>>

------------------------------------------------------------------------------
\* The process dies between two steps.
CrashLoad ==
    /\ run.at \notin {"idle", "done"}
    /\ SpendFault
    /\ Stops
    /\ UNCHANGED <<stores, outside, runs>>

\* The vector store loses a slot (a partial restore), or another writer of the
\* pack adds a node, at any time.  (A node with a chunk's id would take over the
\* slot of the chunk, which _live_vec_ids names as a limit of the loader.)
LoseVector(i) ==
    /\ slots[i] # Absent
    /\ outside < MaxOutside /\ outside' = outside + 1
    /\ slots' = [slots EXCEPT ![i] = Absent]
    /\ run' = [run EXCEPT !.clean = FALSE]
    /\ UNCHANGED <<nodeRows, edgeRows, docRows, sourceRows, live, faults, runs>>

OutsideAdd(n, v) ==
    /\ nodeRows[n] = Absent
    /\ outside < MaxOutside /\ outside' = outside + 1
    /\ nodeRows' = [nodeRows EXCEPT ![n] = v]
    /\ WriteDoc(n, v)
    /\ slots' = [slots EXCEPT ![n] = NodeSlot(v)]
    /\ run' = [run EXCEPT !.clean = FALSE]
    /\ UNCHANGED <<edgeRows, sourceRows, live, faults, runs>>

LoadStep ==
    \/ \E f \in Files : \/ StartFull(f)
                        \/ \E force, replace \in BOOLEAN : StartIncremental(f, force, replace)
    \/ \E n \in Nodes : KeepNode(n) \/ SkipNode(n) \/ WriteNode(n) \/ FailNode(n) \/ ConflictNode(n)
    \/ NodesDone
    \/ \E e \in Edges : SkipEdge(e) \/ WriteEdge(e) \/ FailEdge(e)
    \/ EdgesDone
    \/ \E c \in Chunks : \/ QueueChunk(c) \/ KeepChunk(c) \/ RewriteMeta(c)
                         \/ FailMeta(c) \/ FlushSource(c) \/ FlushSingle(c)
    \/ ChunksRead \/ FlushVectors \/ ChunksDone
    \/ StopAtPin \/ PassPins
    \/ DropNodes \/ DropDocs \/ DropSources \/ DropEdges \/ DropVectors
    \/ ReturnFromLoad \/ CrashLoad

LoadNext ==
    \/ LoadStep
    \/ \E i \in Ids : LoseVector(i)
    \/ \E n \in Nodes \ Chunks, v \in Version \ Refused : OutsideAdd(n, v)

LoadSpec == LoadInit /\ [][LoadNext]_loadVars

------------------------------------------------------------------------------
LoadTypeOK ==
    /\ nodeRows \in [Nodes -> Version \cup {Absent}]
    /\ edgeRows \in [Edges -> Values \cup {Absent}]
    /\ docRows \in [Nodes -> SUBSET Version]
    /\ sourceRows \in [Chunks -> ChunkRow \cup {Absent}]
    /\ slots \in [Ids -> Slot \cup {Absent}]
    /\ run.file \in Files

\* A run that met no failure, error, refused row, unconfirmed vector or other
\* writer and read the fingerprints of the documents leaves the stores as its
\* file says, whatever earlier runs left half done: the rows
\* of the graph, one document per node in the right space, the chunks, the
\* edges, a vector for each listed node, and for each listed chunk its own.  (A
\* node whose id names a chunk that this run drops may wait for the next one: it
\* was not embedded, because at that moment the slot was still the chunk's.  And
\* of a file without any edge the loader does not believe that all must go.)
Converges ==
    run.at = "done" /\ run.clean =>
        /\ nodeRows = run.file.nodes
        /\ docRows = [n \in Nodes |-> {run.file.nodes[n]} \ {Absent}]
        /\ sourceRows = run.file.chunks
        /\ \/ run.file.edges = edgeRows
           \/ Listed(run.file, "edges") = {} /\ live.edges # {}
        /\ \A i \in Listed(run.file, "nodes") \ GoneChunks : slots[i] # Absent
        /\ \A c \in Listed(run.file, "chunks") : slots[c] # Absent /\ slots[c].meta # {}

\* After such a run the vector of a node stands for what the node now says:
\* the code does not keep this after a failed write (README, 5).
EmbeddingIsCurrent ==
    run.at = "done" /\ run.clean =>
        \A n \in Listed(run.file, "nodes") \ Chunks :
            slots[n] = NodeSlot(run.file.nodes[n])

\* No step of a load takes away what its file lists, nor what another writer
\* added behind its snapshot, and without --force-delete no more of the nodes
\* than the pin allows.
LosesNode(n) == nodeRows[n] # Absent /\ nodeRows'[n] = Absent
LosesOnlyStale ==
    [][outside' = outside =>
        /\ \A n \in Nodes : LosesNode(n) =>
              /\ run.file.nodes[n] = Absent /\ live.nodes[n] # Absent
              /\ run.force \/ ~Over30(GoneNodes, {m \in Nodes : live.nodes[m] # Absent})
        /\ \A n \in Nodes : \A r \in docRows[n] \ docRows'[n] :
              \/ \E w \in docRows'[n] : w.space = r.space
              \/ r.space \in live.docs[n] /\ ( \/ run.file.nodes[n] = Absent
                                               \/ run.file.nodes[n].space # r.space)
        /\ \A c \in Chunks : sourceRows[c] # Absent /\ sourceRows'[c] = Absent =>
              run.file.chunks[c] = Absent /\ live.chunks[c] # Absent
        /\ \A i \in Ids : slots[i] # Absent /\ slots'[i] = Absent =>
              \/ i \notin Listed(run.file, "nodes") \cup Listed(run.file, "chunks")
              \/ i \in run'.pending          \* it is about to be embedded again
        /\ \A e \in Edges : edgeRows[e] # Absent /\ edgeRows'[e] = Absent =>
              \/ run.file.edges[e] = Absent
              \/ LosesNode(e[1]) \/ LosesNode(e[2])
              \/ ~EndsListed(e)]_loadVars
==============================================================================
