----------------------------- MODULE Neo4jGraph -----------------------------
(***************************************************************************)
(* stores/neo4j_store.py: the graph store on Neo4j.  A store object        *)
(* classifies the database once, when it is made, from five queries that   *)
(* share no transaction, and writes only if it found the target schema.    *)
(* Every write is one transaction that first claims the lock node, so      *)
(* transactions are serial; a batch runs its items in the transaction of   *)
(* its caller.  Updates compare a digest read earlier.                     *)
(*                                                                         *)
(* An item is chosen when it runs; what its caller read before is kept.    *)
(***************************************************************************)
EXTENDS Integers, FiniteSets

CONSTANTS
    GraphIds, GraphTypes, GraphPacks,
    EdgeKeys,          \* pairs of ids; a pair has one relation
    GraphClients,      \* processes with one store object each
    MaxGraphCalls,     \* write transactions
    MaxGraphFaults,    \* transient errors, lost commits and kills
    MaxBatchItems

ASSUME Neo4jAssumption ==
    /\ EdgeKeys \subseteq GraphIds \X GraphIds
    /\ <<>> \notin GraphTypes
    /\ MaxGraphCalls \in Nat /\ MaxGraphFaults \in Nat /\ MaxBatchItems \in Nat \ {0}

VARIABLES
    graph,       \* the committed nodes and edges
    ddl,         \* the schema statements in effect
    clientPc,
    classified,  \* the state a store object keeps for life
    found,       \* what the queries of a starting store returned so far
    read,        \* digests a client has read
    tx,          \* the open transaction's view of the graph
    txKind, txItems,
    graphCalls, graphFaults

neoVars == <<graph, ddl, clientPc, classified, found, read, tx, txKind, txItems, graphCalls, graphFaults>>
NoTx == <<>>
NoRecord == <<>>
Unowned == "unowned"

NodeDigest(type, owner) == <<type, owner>>
EdgeDigest(from, to, owner, body) == <<from, to, owner, body>>

NewNode(type, owner) == [type |-> type, owner |-> owner, digest |-> NodeDigest(type, owner)]
NewEdge(from, to, owner, body) ==
    [from |-> from, to |-> to, owner |-> owner, body |-> body, digest |-> EdgeDigest(from, to, owner, body)]

NodeNow(g, i) == IF g.nodes[i] = NoRecord THEN NoRecord ELSE NodeDigest(g.nodes[i].type, g.nodes[i].owner)
EdgeNow(g, k) ==
    IF g.edges[k] = NoRecord THEN NoRecord
    ELSE EdgeDigest(g.edges[k].from, g.edges[k].to, g.edges[k].owner, g.edges[k].body)
Digests(g) == [nodes |-> [i \in GraphIds |-> NodeNow(g, i)], edges |-> [k \in EdgeKeys |-> EdgeNow(g, k)]]

Type(g, i) == IF g.nodes[i] = NoRecord THEN NoRecord ELSE g.nodes[i].type
EmptyGraph == [nodes |-> [i \in GraphIds |-> NoRecord], edges |-> [k \in EdgeKeys |-> NoRecord]]

-----------------------------------------------------------------------------
(* What the start of a store asks of the rows.                             *)

GoodNodes(g) == \A i \in GraphIds : g.nodes[i] # NoRecord => g.nodes[i].digest = NodeNow(g, i)
GoodEdges(g) ==
    \A k \in EdgeKeys : g.edges[k] # NoRecord =>
        /\ g.edges[k].from = Type(g, k[1]) /\ g.edges[k].to = Type(g, k[2])
        /\ g.edges[k].digest = EdgeNow(g, k)

Statements == 1..5              \* three constraints, two lock nodes
HasNames == {1, 2, 3} \subseteq ddl
HasLocks == {4, 5} \subseteq ddl

NeoInit ==
    /\ graph = EmptyGraph /\ ddl = {}
    /\ clientPc = [c \in GraphClients |-> "off"]
    /\ classified = [c \in GraphClients |-> "none"]
    /\ found = [c \in GraphClients |-> NoRecord]
    /\ read = [c \in GraphClients |-> NoRecord]
    /\ tx = NoTx /\ txKind = "none" /\ txItems = 0 /\ graphCalls = 0 /\ graphFaults = 0

\* SHOW CONSTRAINTS and SHOW INDEXES.  whole: the schema was in effect by then.
StartStore(c) ==
    /\ clientPc[c] = "off"
    /\ found' = [found EXCEPT ![c] = [names |-> HasNames, whole |-> HasNames /\ HasLocks,
                                      empty |-> TRUE, good |-> TRUE, locks |-> FALSE]]
    /\ clientPc' = [clientPc EXCEPT ![c] = "owned"]
    /\ UNCHANGED <<graph, ddl, classified, read, tx, txKind, txItems, graphCalls, graphFaults>>

Looks(c, at, next, seen) ==
    /\ clientPc[c] = at
    /\ clientPc' = [clientPc EXCEPT ![c] = next] /\ found' = [found EXCEPT ![c] = seen]
    /\ UNCHANGED <<graph, ddl, classified, read, tx, txKind, txItems, graphCalls, graphFaults>>

HasNodes == \E i \in GraphIds : graph.nodes[i] # NoRecord

QueryOwned(c) ==
    Looks(c, "owned", "edges", [found[c] EXCEPT !.empty = ~HasNodes, !.good = GoodNodes(graph)])
QueryEdges(c) == Looks(c, "edges", "domain", [found[c] EXCEPT !.good = @ /\ GoodEdges(graph)])
QueryDomain(c) == Looks(c, "domain", "locks", [found[c] EXCEPT !.empty = @ /\ ~HasNodes])
QueryLocks(c) == Looks(c, "locks", "judge", [found[c] EXCEPT !.locks = HasLocks])

Judge(c) ==
    /\ clientPc[c] = "judge"
    /\ IF found[c].empty THEN clientPc' = [clientPc EXCEPT ![c] = "create"] /\ UNCHANGED classified
       ELSE /\ clientPc' = [clientPc EXCEPT ![c] = "up"]
            /\ classified' = [classified EXCEPT ![c] =
                  IF ~found[c].names THEN "legacy"
                  ELSE IF found[c].locks /\ found[c].good THEN "target" ELSE "partial"]
    /\ UNCHANGED <<graph, ddl, found, read, tx, txKind, txItems, graphCalls, graphFaults>>

\* The statements run one by one; a failed one leaves the store unusable.
CreateSchema(c) ==
    /\ clientPc[c] = "create"
    /\ IF ddl = Statements
       THEN /\ clientPc' = [clientPc EXCEPT ![c] = "up"]
            /\ classified' = [classified EXCEPT ![c] = "target"] /\ UNCHANGED ddl
       ELSE /\ ddl' = ddl \cup {CHOOSE n \in Statements \ ddl : \A m \in Statements \ ddl : n <= m}
            /\ UNCHANGED <<clientPc, classified>>
    /\ UNCHANGED <<graph, found, read, tx, txKind, txItems, graphCalls, graphFaults>>

-----------------------------------------------------------------------------
(* The items: what each leaves of the view g.  An item that raises fails   *)
(* the transaction and is not in the set.                                  *)

SetNode(g, i, n) == [g EXCEPT !.nodes[i] = n]
SetEdge(g, k, e) == [g EXCEPT !.edges[k] = e]

UpsertNode(g, i, type, owner) ==
    IF g.nodes[i] = NoRecord THEN {SetNode(g, i, NewNode(type, owner))}
    ELSE IF NodeNow(g, i) = NodeDigest(type, owner) THEN {g} ELSE {}

\* Every edge of the node gets the new type and a digest to match.
EdgesRefreshed(g, i, type) ==
    [g EXCEPT !.edges = [k \in EdgeKeys |->
        IF g.edges[k] = NoRecord \/ i \notin {k[1], k[2]} THEN g.edges[k]
        ELSE NewEdge(IF k[1] = i THEN type ELSE g.edges[k].from, IF k[2] = i THEN type ELSE g.edges[k].to,
                     g.edges[k].owner, g.edges[k].body)]]

\* Mutant: the node only has to be there
IsThere(g, i, expected) == g.nodes[i] # NoRecord

\* The computed digest and the stored one both are the one the caller read.
IsAsRead(g, i, expected) ==
    g.nodes[i] # NoRecord /\ NodeNow(g, i) = expected /\ g.nodes[i].digest = expected

UpdateNode(g, i, expected, type, owner) ==
    IF IsAsRead(g, i, expected) THEN {EdgesRefreshed(SetNode(g, i, NewNode(type, owner)), i, type)} ELSE {}

\* DETACH DELETE, if the type is right.
DetachNode(g, i, type) ==
    IF Type(g, i) # type THEN {g}
    ELSE {[SetNode(g, i, NoRecord) EXCEPT !.edges =
             [k \in EdgeKeys |-> IF i \in {k[1], k[2]} THEN NoRecord ELSE g.edges[k]]]}

\* Mutant: the ends only have to be there
EndsExist(g, k, from, to) == g.nodes[k[1]] # NoRecord /\ g.nodes[k[2]] # NoRecord

EndsAre(g, k, from, to) == Type(g, k[1]) = from /\ Type(g, k[2]) = to

\* Ends that do not fit make an edge that is not written, without an error.
UpsertEdge(g, k, from, to, owner, body) ==
    IF ~EndsAre(g, k, from, to) THEN {g}
    ELSE IF g.edges[k] = NoRecord THEN {SetEdge(g, k, NewEdge(from, to, owner, body))}
    ELSE IF EdgeNow(g, k) = EdgeDigest(from, to, owner, body) THEN {g} ELSE {}

OwnedBy(g, k, owner) == g.edges[k] # NoRecord /\ g.edges[k].owner = owner

UpdateEdge(g, k, expected, from, to, owner, body) ==
    IF /\ OwnedBy(g, k, owner) /\ g.edges[k].from = from /\ g.edges[k].to = to
       /\ EdgeNow(g, k) = expected /\ g.edges[k].digest = expected
    THEN {SetEdge(g, k, NewEdge(from, to, owner, body))} ELSE {}

DetachEdge(g, k, owner) == IF OwnedBy(g, k, owner) THEN {SetEdge(g, k, NoRecord)} ELSE {g}

\* One record of a provenance plan: an owner for a row that has none.
AssignNode(g, i, expected, owner) ==
    IF NodeNow(g, i) = NoRecord \/ NodeNow(g, i) # expected THEN {}
    ELSE IF g.nodes[i].owner = Unowned THEN {SetNode(g, i, NewNode(g.nodes[i].type, owner))}
    ELSE IF g.nodes[i].owner = owner THEN {g} ELSE {}
AssignEdge(g, k, expected, owner) ==
    IF EdgeNow(g, k) = NoRecord \/ EdgeNow(g, k) # expected \/ ~EndsAre(g, k, g.edges[k].from, g.edges[k].to) THEN {}
    ELSE IF g.edges[k].owner = Unowned
         THEN {SetEdge(g, k, NewEdge(g.edges[k].from, g.edges[k].to, owner, g.edges[k].body))}
    ELSE IF g.edges[k].owner = owner THEN {g} ELSE {}

GraphOwners == GraphPacks \cup {Unowned}
Bodies == {1, 2}

\* The views a transaction of a kind can have after its next item.
After(c, does, g) ==
    CASE does = "create" ->
            UNION ({UpsertNode(g, i, t, o) : i \in GraphIds, t \in GraphTypes, o \in GraphOwners} \cup
                   {UpsertEdge(g, k, f, t, o, 1) : k \in EdgeKeys, f \in GraphTypes, t \in GraphTypes, o \in GraphOwners})
      [] does = "update" ->
            UNION ({UpdateNode(g, i, read[c].nodes[i], t, o) : i \in GraphIds, t \in GraphTypes, o \in GraphOwners} \cup
                   {UpdateEdge(g, k, read[c].edges[k], f, t, o, b) :
                       k \in EdgeKeys, f \in GraphTypes, t \in GraphTypes, o \in GraphPacks, b \in Bodies})
      [] does = "delete" ->
            UNION ({DetachNode(g, i, t) : i \in GraphIds, t \in GraphTypes} \cup
                   {DetachEdge(g, k, o) : k \in EdgeKeys, o \in GraphPacks})
      [] OTHER ->
            UNION ({AssignNode(g, i, read[c].nodes[i], o) : i \in GraphIds, o \in GraphPacks} \cup
                   {AssignEdge(g, k, read[c].edges[k], o) : k \in EdgeKeys, o \in GraphPacks})

-----------------------------------------------------------------------------
(* Calls.                                                                  *)

\* get_node_digest, get_edge_digest, graph_fingerprint: outside a transaction.
ReadDigests(c) ==
    /\ clientPc[c] = "up" /\ read[c] # Digests(graph)
    /\ read' = [read EXCEPT ![c] = Digests(graph)]
    /\ UNCHANGED <<graph, ddl, clientPc, classified, found, tx, txKind, txItems, graphCalls,
                   graphFaults>>

\* _run_write: the lock node is free of other transactions; a plan's first step
\* compares the whole graph with the one the plan was made from.
BeginWrite(c, does) ==
    /\ clientPc[c] = "up" /\ classified[c] = "target" /\ tx = NoTx /\ HasLocks
    /\ graphCalls < MaxGraphCalls /\ graphCalls' = graphCalls + 1
    /\ does \in {"update", "assign"} => read[c] # NoRecord
    /\ does = "assign" => read[c] = Digests(graph)
    /\ tx' = graph /\ txKind' = does /\ txItems' = 0
    /\ clientPc' = [clientPc EXCEPT ![c] = "write"]
    /\ UNCHANGED <<graph, ddl, classified, found, read, graphFaults>>

WriteItem(c) ==
    /\ clientPc[c] = "write" /\ txItems < MaxBatchItems
    /\ tx' \in After(c, txKind, tx)
    /\ txItems' = txItems + 1
    /\ UNCHANGED <<graph, ddl, clientPc, classified, found, read, txKind, graphCalls, graphFaults>>

\* Mutant: the transaction is not closed.
EndTxLeavesIt(c, g) ==
    /\ graph' = g /\ txItems' = 0 /\ UNCHANGED <<tx, txKind>>

EndTx(c, g) ==
    /\ graph' = g /\ tx' = NoTx /\ txKind' = "none" /\ txItems' = 0

Commit(c) ==
    /\ clientPc[c] = "write" /\ txItems > 0 /\ EndTx(c, tx)
    /\ clientPc' = [clientPc EXCEPT ![c] = "up"]
    /\ UNCHANGED <<ddl, classified, found, read, graphCalls, graphFaults>>

\* An item raised.
RollBack(c) ==
    /\ clientPc[c] = "write" /\ EndTx(c, graph)
    /\ clientPc' = [clientPc EXCEPT ![c] = "up"]
    /\ UNCHANGED <<ddl, classified, found, read, graphCalls, graphFaults>>

\* The connection is lost in the commit: applied or not, the call raises.
LoseCommit(c) ==
    /\ clientPc[c] = "write" /\ txItems > 0 /\ graphFaults < MaxGraphFaults
    /\ graphFaults' = graphFaults + 1
    /\ EndTx(c, tx) \/ EndTx(c, graph)
    /\ clientPc' = [clientPc EXCEPT ![c] = "up"]
    /\ UNCHANGED <<ddl, classified, found, read, graphCalls>>

\* The server rolls back what a dead client left open.
KillClient(c) ==
    /\ clientPc[c] # "off" /\ graphFaults < MaxGraphFaults
    /\ graphFaults' = graphFaults + 1
    /\ IF clientPc[c] = "write" THEN EndTx(c, graph) ELSE UNCHANGED <<graph, tx, txKind, txItems>>
    /\ clientPc' = [clientPc EXCEPT ![c] = "off"] /\ classified' = [classified EXCEPT ![c] = "none"]
    /\ found' = [found EXCEPT ![c] = NoRecord] /\ read' = [read EXCEPT ![c] = NoRecord]
    /\ UNCHANGED <<ddl, graphCalls>>

NeoNext ==
    \E c \in GraphClients :
        \/ StartStore(c) \/ QueryOwned(c) \/ QueryEdges(c) \/ QueryDomain(c) \/ QueryLocks(c)
        \/ Judge(c) \/ CreateSchema(c)
        \/ ReadDigests(c) \/ \E does \in {"create", "update", "delete", "assign"} : BeginWrite(c, does)
        \/ WriteItem(c) \/ Commit(c) \/ RollBack(c) \/ LoseCommit(c) \/ KillClient(c)

NeoSpec == NeoInit /\ [][NeoNext]_neoVars

-----------------------------------------------------------------------------
\* The states of the clients; a transaction is open while a client writes.
NeoTypeOK ==
    /\ \A c \in GraphClients :
         /\ clientPc[c] \in {"off", "owned", "edges", "domain", "locks", "judge", "create", "up", "write"}
         /\ classified[c] \in {"none", "legacy", "partial", "target"}
    /\ ddl \subseteq Statements
    /\ (tx # NoTx) = (\E c \in GraphClients : clientPc[c] = "write")
    /\ Cardinality({c \in GraphClients : clientPc[c] = "write"}) <= 1

\* What the store writes it can read back: no store that starts over a database
\* whose schema is complete finds it in another state than the target one,
\* whatever is committed between its queries.
StartsWritable ==
    \A c \in GraphClients :
        /\ classified[c] # "partial"
        /\ classified[c] = "legacy" => ~found[c].whole

\* No update is lost: the content of a row is replaced only by a caller who read
\* it, and an edge passes from no owner to an owner and never on.
ReplacesWhatWasRead ==
    [][/\ \A i \in GraphIds :
            (/\ NodeNow(graph, i) # NoRecord /\ NodeNow(graph', i) # NoRecord
             /\ NodeNow(graph', i) # NodeNow(graph, i))
            => \E c \in GraphClients : clientPc[c] = "write" /\ read[c].nodes[i] = NodeNow(graph, i)
       /\ \A k \in EdgeKeys :
            (graph.edges[k] # NoRecord /\ graph'.edges[k] # NoRecord) =>
                \/ graph.edges[k].owner = Unowned \/ graph'.edges[k].owner = graph.edges[k].owner]_neoVars
=============================================================================
