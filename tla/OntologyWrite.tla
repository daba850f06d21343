---------------------------- MODULE OntologyWrite ----------------------------
(***************************************************************************)
(* The write path of the ontology: ontology_add_node and ontology_add_edge *)
(* (src/opencrab/mcp/tools/graph.py) through OntologyBuilder               *)
(* (ontology/builder.py) and the write gate (pack/write_gate.py) into the  *)
(* graph, document, SQL and vector stores, beside the other writers of the *)
(* graph: batches of another store's rows, deletion, and the assignment of *)
(* packs to rows that have none.                                           *)
(*                                                                         *)
(* Every transaction of the SQL graph store is one step: SQLite begins it  *)
(* IMMEDIATE and PostgreSQL takes one advisory lock for all of them        *)
(* (_run_graph_tx).  A call is several steps.  The file lock around a tool *)
(* serializes the calls of one host; two hosts may share a PostgreSQL, and *)
(* the other writers do not take that lock.  Properties are abstracted to  *)
(* the pack they name and a text; a digest is then the whole row.          *)
(***************************************************************************)
EXTENDS Naturals

CONSTANTS
    Writers,       \* the tool calls that may run at once
    Links,         \* the pairs of nodes that may be joined
    WriteNodes, NodeTypes, NodeSpaces, WritePacks,
    Texts, EdgeTexts,  \* what rows may say
    SpaceOfType,   \* the grammar: the space of each type
    PackOf,        \* the pack each writer's user owns and writes to
    NoRow,         \* the absence of a row
    Unattributed,  \* the pack of a row that names none
    NodeBatches, EdgeBatches,  \* the batches of rows that may come
    Holdings,      \* what the stores may hold at the start
    MaxWriteCalls, MaxGraphChanges,   \* bounds
    MaxStoreFaults     \* of failing calls; the read after one may fail as well

RowOwners == WritePacks \cup {Unattributed}
NodeRows == [type : NodeTypes, pack : RowOwners, text : Texts]
EdgeRows == [fromType : NodeTypes, toType : NodeTypes, pack : RowOwners, text : EdgeTexts]
Vectors == [pack : RowOwners, text : Texts]
Foreign(row, pack) == row # NoRow /\ row.pack \notin {Unattributed, pack}

ASSUME WriteAssumption ==
    /\ SpaceOfType \in [NodeTypes -> NodeSpaces]
    /\ PackOf \in [Writers -> WritePacks]
    /\ Unattributed \notin WritePacks
    /\ NoRow \notin NodeTypes \cup NodeRows \cup EdgeRows \cup Vectors
    /\ Links \subseteq WriteNodes \X WriteNodes /\ Links \cap WriteNodes = {}
    /\ \A rows \in NodeBatches : DOMAIN rows \subseteq WriteNodes /\ rows \in [DOMAIN rows -> NodeRows]
    /\ \A edges \in EdgeBatches : DOMAIN edges \subseteq Links /\ edges \in [DOMAIN edges -> EdgeRows]
    /\ {MaxWriteCalls, MaxGraphChanges, MaxStoreFaults} \subseteq Nat

\* The edges that the stores hold at first have their ends, of their own pack.
ASSUME HoldingsAssumption ==
    \A h \in Holdings :
        /\ h.nodes \in [WriteNodes -> NodeRows \cup {NoRow}] /\ h.edges \in [Links -> EdgeRows \cup {NoRow}]
        /\ h.docs \in [NodeSpaces \X WriteNodes -> NodeRows \cup {NoRow}]
        /\ h.vectors \in [WriteNodes -> Vectors \cup {NoRow}]
        /\ \A l \in Links : h.edges[l] # NoRow =>
              /\ h.nodes[l[1]] # NoRow /\ h.nodes[l[1]].type = h.edges[l].fromType
              /\ h.nodes[l[2]] # NoRow /\ h.nodes[l[2]].type = h.edges[l].toType
              /\ \A k \in {1, 2} : ~Foreign(h.nodes[l[k]], h.edges[l].pack)

VARIABLES
    gnode,       \* graph_nodes: node id -> row, its space that of its type
    gedge,       \* graph_edges: (from, to) -> row, of one relation
    doc,         \* doc_nodes: (space, node id) -> row
    edgeRegistry, \* ontology_edges: the links with a row
    registry,    \* ontology_nodes: (space, node id) -> type
    vec,         \* the vector of each node id
    writing,     \* what each writer is doing
    oneHost,     \* whether the writers share a host, and so the file lock
    billed,      \* billing_events: the rows billed
    settled,     \* the ids whose row the last call answered ok for every store
    replaced,    \* the rows a call replaced
    touched,     \* the ids and links that another writer of the graph changed
    surveyed,    \* whether the graph is as the dry run of the assignment saw it
    writeCalls, storeFaults, graphChanges    \* counters of the bounds

writeVars == <<gnode, gedge, doc, registry, edgeRegistry, vec, writing, oneHost,
               billed, settled, replaced, touched, surveyed, writeCalls, storeFaults, graphChanges>>
copies == <<doc, registry, vec>>
history == <<billed, settled, replaced, touched>>

Rest == [at |-> "rest"]
NodeStages == {"digest", "probeGraph", "probeDocs", "probeVectors", "probeIds",
               "graph", "held", "docs", "sql", "vector", "bill"}
EdgeStages == {"fromType", "toType", "fromPack", "toPack", "edgePack", "edge",
               "edgeDigest", "replaceEdge", "heldEdge", "registerEdge", "billEdge"}

WriteTypeOK ==
    /\ gnode \in [WriteNodes -> NodeRows \cup {NoRow}]
    /\ gedge \in [Links -> EdgeRows \cup {NoRow}]
    /\ doc \in [NodeSpaces \X WriteNodes -> NodeRows \cup {NoRow}]
    /\ registry \in [NodeSpaces \X WriteNodes -> NodeTypes \cup {NoRow}]
    /\ vec \in [WriteNodes -> Vectors \cup {NoRow}]
    /\ \A w \in Writers : writing[w].at \in {"rest"} \cup NodeStages \cup EdgeStages
    /\ edgeRegistry \subseteq Links
    /\ settled \subseteq WriteNodes /\ touched \subseteq WriteNodes \cup Links
    /\ writeCalls <= MaxWriteCalls
    /\ storeFaults <= MaxStoreFaults
    /\ graphChanges <= MaxGraphChanges

WriteInit ==
    /\ \E h \in Holdings :
          gnode = h.nodes /\ gedge = h.edges /\ doc = h.docs /\ vec = h.vectors
    /\ edgeRegistry = {}
    /\ registry = [k \in NodeSpaces \X WriteNodes |-> NoRow]
    /\ writing = [w \in Writers |-> Rest]
    /\ oneHost \in BOOLEAN
    /\ billed = {} /\ settled = {} /\ replaced = {} /\ touched = {}
    /\ surveyed = FALSE
    /\ writeCalls = 0 /\ storeFaults = 0 /\ graphChanges = 0

-----------------------------------------------------------------------------
Goto(w, stage) == writing' = [writing EXCEPT ![w].at = stage]
Ends(w) == writing' = [writing EXCEPT ![w] = Rest]
Faulty == storeFaults < MaxStoreFaults /\ storeFaults' = storeFaults + 1

Wanted(w) == writing[w].row          \* the row a call is to write
Named(w) == writing[w].id            \* the node id, or the two ends of an edge
SpaceOf(row) == SpaceOfType[row.type]

SurveyAges == surveyed' = (surveyed /\ gnode' = gnode /\ gedge' = gedge)

\* What no step of a call's own reading changes.
JustReads(w) == UNCHANGED <<gnode, gedge, copies, edgeRegistry, oneHost, history,
                            surveyed, writeCalls, graphChanges>>

\* A tool call takes the host's file lock, and its user's own pack is ready; the
\* row is stamped with that pack and its space is its type's.  A call that
\* replaces a row (the loader's and the ingest's) first reads its digest.
Begins(w, stage, id, row, replaces) ==
    /\ writing[w] = Rest
    /\ oneHost => \A v \in Writers : writing[v] = Rest
    /\ writeCalls < MaxWriteCalls
    /\ writeCalls' = writeCalls + 1
    /\ writing' = [writing EXCEPT ![w] =
           [at |-> stage, id |-> id, row |-> row, replaces |-> replaces,
            seen |-> NoRow, landed |-> FALSE, ok |-> TRUE]]
    /\ UNCHANGED <<gnode, gedge, copies, edgeRegistry, oneHost, history, surveyed,
                   storeFaults, graphChanges>>

BeginNode(w, i, type, text, replaces) ==
    Begins(w, IF replaces THEN "digest" ELSE "probeGraph", i,
           [type |-> type, pack |-> PackOf[w], text |-> text], replaces)

ReadDigest(w) ==
    /\ writing[w].at = "digest"
    /\ IF gnode[Named(w)] = NoRow THEN Ends(w)
       ELSE writing' = [writing EXCEPT ![w].at = "probeGraph",
                                       ![w].seen = gnode[Named(w)]]
    /\ JustReads(w) /\ UNCHANGED storeFaults

\* Mutant: the vector store is not asked whose id it is.
VectorUnasked(w) == FALSE

VectorIsForeign(w) == Foreign(vec[Named(w)], PackOf[w])

\* node_identity_conflict, one read of a store at a time: the id must not name a
\* row of another pack there.
Conflicts(w) ==
    CASE writing[w].at = "probeGraph" ->
           /\ Foreign(gnode[Named(w)], PackOf[w])
           /\ gnode[Named(w)].type = Wanted(w).type
      [] writing[w].at = "probeDocs" ->
           Foreign(doc[<<SpaceOf(Wanted(w)), Named(w)>>], PackOf[w])
      [] writing[w].at = "probeVectors" -> VectorIsForeign(w)
      [] writing[w].at = "probeIds" -> Foreign(gnode[Named(w)], PackOf[w])

AfterProbe ==
    [probeGraph |-> "probeDocs", probeDocs |-> "probeVectors",
     probeVectors |-> "probeIds", probeIds |-> "graph"]

Probe(w) ==
    /\ writing[w].at \in DOMAIN AfterProbe
    /\ IF Conflicts(w) THEN Ends(w) ELSE Goto(w, AfterProbe[writing[w].at])
    /\ JustReads(w) /\ UNCHANGED storeFaults

\* A store that cannot answer: what is not verified is refused.
ReadFails(w) ==
    /\ writing[w].at \in DOMAIN AfterProbe \cup
           {"digest", "fromType", "toType", "fromPack", "toPack", "edgePack", "edgeDigest"}
    /\ Faulty /\ Ends(w)
    /\ JustReads(w)

\* Mutant: the edges of a node keep the type it had.
EdgesUntouched(types) == gedge

\* update_node gives the edges of a node its new type.
Retyped(types) ==
    [l \in Links |->
        IF gedge[l] = NoRow THEN NoRow
        ELSE [gedge[l] EXCEPT !.fromType = IF l[1] \in DOMAIN types THEN types[l[1]] ELSE @,
                              !.toType = IF l[2] \in DOMAIN types THEN types[l[2]] ELSE @]]

\* upsert_node makes the row or finds the row asked for; update_node replaces
\* the row whose digest the call read.  Another row is a conflict.
GraphAccepts(w) ==
    \/ writing[w].seen = NoRow /\ gnode[Named(w)] \in {NoRow, Wanted(w)}
    \/ writing[w].seen # NoRow /\ gnode[Named(w)] = writing[w].seen

GraphTakes(w) ==
    LET i == Named(w) IN
    /\ gnode' = [gnode EXCEPT ![i] = Wanted(w)]
    /\ gedge' = IF writing[w].seen = NoRow THEN gedge ELSE Retyped([n \in {i} |-> Wanted(w).type])
    /\ settled' = IF gnode[i] = Wanted(w) THEN settled ELSE settled \ {i}
    /\ replaced' = IF gnode[i] \in {NoRow, Wanted(w)} THEN replaced ELSE replaced \cup {i}

WriteGraph(w) ==
    /\ writing[w].at = "graph"
    /\ IF GraphAccepts(w)
       THEN GraphTakes(w) /\ writing' = [writing EXCEPT ![w].at = "docs", ![w].landed = TRUE]
       ELSE Ends(w) /\ UNCHANGED <<gnode, gedge, settled, replaced>>
    /\ UNCHANGED <<copies, edgeRegistry, oneHost, billed, touched, writeCalls,
                   storeFaults, graphChanges>>
    /\ SurveyAges

\* The write raises, before its commit or, its answer being lost, after it.
WriteGraphFails(w) ==
    /\ writing[w].at = "graph"
    /\ Faulty
    /\ \/ UNCHANGED <<gnode, gedge, settled, replaced>>
       \/ GraphAccepts(w) /\ GraphTakes(w)
    /\ writing' = [writing EXCEPT ![w].at = "held", ![w].ok = FALSE]
    /\ UNCHANGED <<copies, edgeRegistry, oneHost, billed, touched, writeCalls,
                   graphChanges>>
    /\ SurveyAges

\* Mutant: some row of the id is enough.
HoldsSome(w) == gnode[Named(w)] # NoRow

\* _graph_holds_node: the graph's digest of the id is that of the row wanted.
HoldsRow(w) == gnode[Named(w)] = Wanted(w)

\* After a write that raised, the other stores are written only if the graph is
\* seen to hold the row; that read may fail as well.
Held(w) ==
    /\ writing[w].at = "held"
    /\ UNCHANGED storeFaults
    /\ \/ Goto(w, IF HoldsRow(w) THEN "docs" ELSE "bill")
       \/ Goto(w, "bill")
    /\ JustReads(w)

-----------------------------------------------------------------------------
\* The document, the registry row and the vector: a store that fails or is away
\* costs its own row, and the answer says so.
WriteCopy(w, stage, next, writes, keeps) ==
    /\ writing[w].at = stage
    /\ \/ writes /\ Goto(w, next) /\ UNCHANGED storeFaults
       \/ Faulty /\ keeps /\ writing' = [writing EXCEPT ![w].at = next, ![w].ok = FALSE]
    /\ UNCHANGED <<gnode, gedge, edgeRegistry, oneHost, history, surveyed, writeCalls,
                   graphChanges>>

WriteDoc(w) ==
    /\ WriteCopy(w, "docs", "sql",
           doc' = [doc EXCEPT ![<<SpaceOf(Wanted(w)), Named(w)>>] = Wanted(w)],
           UNCHANGED doc)
    /\ UNCHANGED <<registry, vec>>

RegisterNode(w) ==
    /\ WriteCopy(w, "sql", "vector",
           registry' = [registry EXCEPT ![<<SpaceOf(Wanted(w)), Named(w)>>] = Wanted(w).type],
           UNCHANGED registry)
    /\ UNCHANGED <<doc, vec>>

WriteVector(w) ==
    /\ WriteCopy(w, "vector", "bill",
           vec' = [vec EXCEPT ![Named(w)] = [pack |-> Wanted(w).pack, text |-> Wanted(w).text]],
           UNCHANGED vec)
    /\ UNCHANGED <<doc, registry>>

\* Mutant: whatever the graph answered.
BillsAlways(w) == TRUE

\* graph_write_failed: only a call whose graph write was answered ok is billed.
Billable(w) == writing[w].landed

\* The answer, and the billing event, which may fail without the caller hearing.
\* A call that only found the graph to hold its row answers an error for the graph.
Bill(w) ==
    /\ \/ /\ Billable(w)
          /\ billed' = billed \cup {[id |-> Named(w), row |-> Wanted(w)]}
          /\ UNCHANGED storeFaults
       \/ Billable(w) /\ Faulty /\ UNCHANGED billed
       \/ ~Billable(w) /\ UNCHANGED <<billed, storeFaults>>
    /\ Ends(w)
    /\ UNCHANGED <<gnode, gedge, copies, edgeRegistry, oneHost, replaced, touched, surveyed,
                   writeCalls, graphChanges>>

AnswerNode(w) ==
    /\ writing[w].at = "bill"
    /\ Bill(w)
    /\ settled' = IF writing[w].ok THEN settled \cup {Named(w)} ELSE settled

-----------------------------------------------------------------------------
\* An edge between two nodes, whose types the call looks up.
BeginEdge(w, link, text, replaces) ==
    Begins(w, "fromType", link,
           [fromType |-> NoRow, toType |-> NoRow, pack |-> PackOf[w], text |-> text], replaces)

\* lookup_node_type, for each end: an end that is not there costs the edge.
LookUpEnd(w, stage, end, field, next) ==
    LET node == gnode[Named(w)[end]] IN
    /\ writing[w].at = stage
    /\ IF node = NoRow THEN Ends(w)
       ELSE writing' = [writing EXCEPT ![w].at = next, ![w].row[field] = node.type]
    /\ JustReads(w) /\ UNCHANGED storeFaults

LookUpEnds(w) ==
    \/ LookUpEnd(w, "fromType", 1, "fromType", "toType")
    \/ LookUpEnd(w, "toType", 2, "toType", "fromPack")

\* resolved_endpoint_pack_conflict and edge_identity_conflict: neither end, nor
\* an edge that is there already, may be of another pack.
ForeignEnd(w, end, type) ==
    LET node == gnode[Named(w)[end]] IN Foreign(node, PackOf[w]) /\ node.type = type

SameEnds(w, edge) ==
    /\ edge # NoRow
    /\ edge.fromType = Wanted(w).fromType
    /\ edge.toType = Wanted(w).toType

EdgeConflicts(w) ==
    CASE writing[w].at = "fromPack" -> ForeignEnd(w, 1, Wanted(w).fromType)
      [] writing[w].at = "toPack" -> ForeignEnd(w, 2, Wanted(w).toType)
      [] writing[w].at = "edgePack" ->
           SameEnds(w, gedge[Named(w)]) /\ Foreign(gedge[Named(w)], PackOf[w])

AfterEdgeProbe == [fromPack |-> "toPack", toPack |-> "edgePack", edgePack |-> "edge"]

ProbeEdge(w) ==
    /\ writing[w].at \in DOMAIN AfterEdgeProbe
    /\ IF EdgeConflicts(w) THEN Ends(w) ELSE Goto(w, AfterEdgeProbe[writing[w].at])
    /\ JustReads(w) /\ UNCHANGED storeFaults

\* Both ends are there, of the types given.
EndsMatch(link, fromType, toType) ==
    /\ gnode[link[1]] # NoRow /\ gnode[link[1]].type = fromType
    /\ gnode[link[2]] # NoRow /\ gnode[link[2]].type = toType

\* Mutant: the types the call looked up are taken as they are.
EndsLookedUp(w) == TRUE

EndsHold(w) == EndsMatch(Named(w), Wanted(w).fromType, Wanted(w).toType)

\* upsert_edge makes the row or finds the one asked for; update_edge replaces the
\* pack's own row whose digest the call read.
EdgeAccepts(w) ==
    LET edge == gedge[Named(w)] IN
    /\ EndsHold(w)
    /\ \/ writing[w].at = "edge" /\ edge \in {NoRow, Wanted(w)}
       \/ /\ writing[w].at = "replaceEdge"
          /\ edge = writing[w].seen /\ edge.pack = PackOf[w]

EdgeTakes(w) == gedge' = [gedge EXCEPT ![Named(w)] = Wanted(w)]

\* An end that is gone or of another type is no match, and another row a
\* conflict: the call is over, unless it may replace its pack's own rows.
WriteEdge(w) ==
    /\ writing[w].at \in {"edge", "replaceEdge"}
    /\ IF EdgeAccepts(w)
       THEN EdgeTakes(w) /\ writing' = [writing EXCEPT ![w].at = "registerEdge", ![w].landed = TRUE]
       ELSE /\ IF writing[w].at = "edge" /\ EndsHold(w) /\ writing[w].replaces
               THEN Goto(w, "edgeDigest") ELSE Ends(w)
            /\ UNCHANGED gedge
    /\ UNCHANGED <<gnode, copies, edgeRegistry, oneHost, history, writeCalls,
                   storeFaults, graphChanges>>
    /\ SurveyAges

WriteEdgeFails(w) ==
    /\ writing[w].at \in {"edge", "replaceEdge"}
    /\ Faulty
    /\ \/ UNCHANGED gedge
       \/ EdgeAccepts(w) /\ EdgeTakes(w)
    /\ Goto(w, "heldEdge")
    /\ UNCHANGED <<gnode, copies, edgeRegistry, oneHost, history, writeCalls,
                   graphChanges>>
    /\ SurveyAges

ReadEdgeDigest(w) ==
    /\ writing[w].at = "edgeDigest"
    /\ IF SameEnds(w, gedge[Named(w)])
       THEN writing' = [writing EXCEPT ![w].at = "replaceEdge", ![w].seen = gedge[Named(w)]]
       ELSE Ends(w)
    /\ JustReads(w) /\ UNCHANGED storeFaults

\* Mutant: the registry row is written whatever the graph holds.
EdgeUnasked(w) == TRUE

\* _graph_holds_edge: some row joins the two ends, whatever its properties.
EdgeIsThere(w) == SameEnds(w, gedge[Named(w)])

HeldEdge(w) ==
    /\ writing[w].at = "heldEdge"
    /\ UNCHANGED storeFaults
    /\ \/ Goto(w, IF EdgeIsThere(w) THEN "registerEdge" ELSE "billEdge")
       \/ Goto(w, "billEdge")
    /\ JustReads(w)

RegisterEdge(w) ==
    /\ writing[w].at = "registerEdge"
    /\ Goto(w, "billEdge")
    /\ \/ edgeRegistry' = edgeRegistry \cup {Named(w)} /\ UNCHANGED storeFaults
       \/ Faulty /\ UNCHANGED edgeRegistry
    /\ UNCHANGED <<gnode, gedge, copies, oneHost, history, surveyed, writeCalls, graphChanges>>

AnswerEdge(w) == writing[w].at = "billEdge" /\ Bill(w) /\ UNCHANGED settled

\* The process of a call dies, and with it the file lock.
CrashWriter(w) ==
    /\ writing[w] # Rest /\ Faulty /\ Ends(w)
    /\ JustReads(w)

-----------------------------------------------------------------------------
\* The writers of the graph alone.
ChangesGraph ==
    /\ graphChanges < MaxGraphChanges
    /\ graphChanges' = graphChanges + 1
    /\ UNCHANGED <<copies, edgeRegistry, writing, oneHost, billed, settled, replaced,
                   writeCalls, storeFaults>>

\* upsert_nodes_batch: every row or none, and no row that is there is changed.
UpsertNodes(rows) ==
    /\ ChangesGraph
    /\ \A i \in DOMAIN rows : gnode[i] \in {NoRow, rows[i]}
    /\ gnode' = [i \in WriteNodes |-> IF i \in DOMAIN rows THEN rows[i] ELSE gnode[i]]
    /\ UNCHANGED <<gedge, touched>>
    /\ SurveyAges

\* upsert_edges_batch: the same, for ends that are there with the types given.
UpsertEdges(edges) ==
    /\ ChangesGraph
    /\ \A l \in DOMAIN edges :
          /\ EndsMatch(l, edges[l].fromType, edges[l].toType)
          /\ gedge[l] \in {NoRow, edges[l]}
    /\ gedge' = [l \in Links |-> IF l \in DOMAIN edges THEN edges[l] ELSE gedge[l]]
    /\ touched' = touched \cup DOMAIN edges
    /\ UNCHANGED <<gnode>>
    /\ SurveyAges

\* update_nodes_batch: every row is there as its digest says, or none is written.
UpdateNodes(rows) ==
    /\ ChangesGraph
    /\ \A i \in DOMAIN rows : gnode[i] # NoRow
    /\ gnode' = [i \in WriteNodes |-> IF i \in DOMAIN rows THEN rows[i] ELSE gnode[i]]
    /\ gedge' = Retyped([i \in DOMAIN rows |-> rows[i].type])
    /\ touched' = touched \cup DOMAIN rows
    /\ SurveyAges

\* Mutant: a node goes without its edges.
LeavesEdges(i) == gedge

\* delete_node takes the edges of the node with it.
WithoutEdgesOf(i) == [l \in Links |-> IF i \in {l[1], l[2]} THEN NoRow ELSE gedge[l]]

DeleteNode(i) ==
    /\ ChangesGraph
    /\ gnode[i] # NoRow
    /\ gnode' = [gnode EXCEPT ![i] = NoRow]
    /\ gedge' = WithoutEdgesOf(i)
    /\ touched' = touched \cup {i} \cup {l \in Links : i \in {l[1], l[2]}}
    /\ SurveyAges

\* delete_edge: only the pack's own.
DeleteEdge(l, pack) ==
    /\ ChangesGraph
    /\ gedge[l] # NoRow /\ gedge[l].pack = pack
    /\ gedge' = [gedge EXCEPT ![l] = NoRow]
    /\ touched' = touched \cup {l}
    /\ UNCHANGED <<gnode>>
    /\ SurveyAges

\* The dry run of the assignment of packs takes the fingerprint of the whole
\* graph; a graph that changes and changes back is taken as another.
Survey ==
    /\ ~surveyed
    /\ surveyed' = TRUE
    /\ UNCHANGED <<gnode, gedge, copies, edgeRegistry, writing, oneHost, history,
                   writeCalls, storeFaults, graphChanges>>

Owned(row, pack) ==
    IF row # NoRow /\ row.pack = Unattributed THEN [row EXCEPT !.pack = pack] ELSE row

\* backfill_pack_provenance: the rows of the plan get its pack, unless one of
\* them has another already; all of them or none.
AssignPacks(ids, links, pack) ==
    /\ surveyed
    /\ ChangesGraph
    /\ \A i \in ids : gnode[i] # NoRow /\ gnode[i].pack \in {Unattributed, pack}
    /\ \A l \in links : gedge[l] # NoRow /\ gedge[l].pack \in {Unattributed, pack}
    /\ gnode' = [i \in WriteNodes |-> IF i \in ids THEN Owned(gnode[i], pack) ELSE gnode[i]]
    /\ gedge' = [l \in Links |-> IF l \in links THEN Owned(gedge[l], pack) ELSE gedge[l]]
    /\ touched' = touched \cup ids \cup links
    /\ SurveyAges

WriteNext ==
    \/ \E w \in Writers :
          \/ \E i \in WriteNodes, type \in NodeTypes, text \in Texts, replaces \in BOOLEAN :
                BeginNode(w, i, type, text, replaces)
          \/ \E link \in Links, text \in EdgeTexts, replaces \in BOOLEAN :
                BeginEdge(w, link, text, replaces)
          \/ ReadDigest(w) \/ Probe(w) \/ ReadFails(w)
          \/ WriteGraph(w) \/ WriteGraphFails(w) \/ Held(w)
          \/ WriteDoc(w) \/ RegisterNode(w) \/ WriteVector(w) \/ AnswerNode(w)
          \/ LookUpEnds(w) \/ ProbeEdge(w) \/ WriteEdge(w) \/ WriteEdgeFails(w)
          \/ ReadEdgeDigest(w) \/ HeldEdge(w) \/ RegisterEdge(w) \/ AnswerEdge(w)
          \/ CrashWriter(w)
    \/ \E rows \in NodeBatches : UpsertNodes(rows)
    \/ \E edges \in EdgeBatches : UpsertEdges(edges)
    \/ \E rows \in NodeBatches : UpdateNodes(rows)
    \/ \E i \in WriteNodes : DeleteNode(i)
    \/ \E l \in Links, pack \in WritePacks : DeleteEdge(l, pack)
    \/ Survey
    \/ \E ids \in SUBSET WriteNodes, links \in SUBSET Links, pack \in WritePacks :
          AssignPacks(ids, links, pack)

WriteSpec == WriteInit /\ [][WriteNext]_writeVars

-----------------------------------------------------------------------------
\* A node whose last call was answered ok by every store is in every store as it
\* is in the graph.  Two hosts that replace the same row may leave the copies of
\* one beside the row of the other; another writer of the graph writes no copy.
AnsweredIsEverywhere ==
    \A i \in settled \ touched :
        oneHost \/ i \notin replaced =>
            /\ gnode[i] # NoRow
            /\ doc[<<SpaceOf(gnode[i]), i>>] = gnode[i]
            /\ registry[<<SpaceOf(gnode[i]), i>>] = gnode[i].type
            /\ vec[i] = [pack |-> gnode[i].pack, text |-> gnode[i].text]

\* No edge without its ends, and the types it names are theirs, whatever is
\* written, replaced or deleted between the look and the write of a call.
EdgesFit ==
    \A l \in Links : gedge[l] # NoRow =>
        /\ gnode[l[1]] # NoRow /\ gedge[l].fromType = gnode[l[1]].type
        /\ gnode[l[2]] # NoRow /\ gedge[l].toType = gnode[l[2]].type

\* A call's edge joins no node of another pack: the checks and the write are
\* apart, and an end may come between them.  A node that had no pack may have
\* been claimed by another since.
EdgesJoinOwn ==
    \A l \in Links : gedge[l] # NoRow /\ {l, l[1], l[2]} \cap (touched \cup replaced) = {} =>
        \A i \in {l[1], l[2]} : ~Foreign(gnode[i], gedge[l].pack)

\* What the registry lists as an edge was one.
RegisteredIsLinked ==
    \A l \in edgeRegistry \ touched : gedge[l] # NoRow

\* What was billed is in the graph, until another call replaces it.
BilledHasLanded ==
    \A b \in billed : b.id \in WriteNodes =>
        b.id \in replaced \cup touched \/ gnode[b.id] = b.row

\* The write path of the ontology keeps its stores together.
WritesAreWhole ==
    /\ AnsweredIsEverywhere
    /\ EdgesFit
    /\ EdgesJoinOwn
    /\ RegisteredIsLinked
    /\ BilledHasLanded

\* A row that names a pack never becomes one of another pack, in any store: not
\* by the calls of its user, nor by the assignment of packs.
KeepsPack(row, next) ==
    row # NoRow /\ next # NoRow /\ row.pack # Unattributed => next.pack = row.pack

PacksKeepTheirRows ==
    [][/\ \A k \in DOMAIN doc : k[2] \notin touched' => KeepsPack(doc[k], doc'[k])
       /\ \A i \in WriteNodes \ touched' : /\ KeepsPack(gnode[i], gnode'[i])
                                        /\ KeepsPack(vec[i], vec'[i])
       /\ \A l \in Links \ touched' : KeepsPack(gedge[l], gedge'[l])]_writeVars
=============================================================================
