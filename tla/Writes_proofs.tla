----------------------------- MODULE Writes_proofs -----------------------------
(***************************************************************************)
(* Proofs about the components that write nodes, edges, source texts and   *)
(* vectors, for any number of writers, clients, rows and packs: Neo4j's    *)
(* transactions (Neo4jGraph), the source texts and their vectors           *)
(* (SourceText), the calls of the ontology builder (OntologyWrite), and    *)
(* the three together (MCWrites).                                          *)
(***************************************************************************)
EXTENDS MCWrites, TLAPS, FiniteSetTheorems

(***************************************************************************)
(* Neo4j: the views of the graph.                                          *)
(***************************************************************************)

NodeRecs ==
    {n \in [type : GraphTypes, owner : GraphOwners, digest : GraphTypes \X GraphOwners] :
        n.digest = NodeDigest(n.type, n.owner)}
EdgeRecs ==
    {e \in [from : GraphTypes, to : GraphTypes, owner : GraphOwners, body : Bodies,
            digest : GraphTypes \X GraphTypes \X GraphOwners \X Bodies] :
        e.digest = EdgeDigest(e.from, e.to, e.owner, e.body)}

\* The edge names the types that its ends have.
Joins(g, k) == g.edges[k].from = Type(g, k[1]) /\ g.edges[k].to = Type(g, k[2])

GraphFits(g) ==
    /\ g = [nodes |-> g.nodes, edges |-> g.edges]
    /\ g.nodes \in [GraphIds -> NodeRecs \cup {NoRecord}]
    /\ g.edges \in [EdgeKeys -> EdgeRecs \cup {NoRecord}]
    /\ \A k \in EdgeKeys : g.edges[k] # NoRecord => Joins(g, k)

LEMMA NewNodeFits ==
    ASSUME NEW t \in GraphTypes, NEW o \in GraphOwners
    PROVE  /\ NewNode(t, o) \in NodeRecs
           /\ NewNode(t, o).type = t /\ NewNode(t, o).owner = o
           /\ NewNode(t, o) # NoRecord
BY DEF NewNode, NodeDigest, NoRecord, NodeRecs

LEMMA NewEdgeFits ==
    ASSUME NEW f \in GraphTypes, NEW t \in GraphTypes, NEW o \in GraphOwners, NEW b \in Bodies
    PROVE  /\ NewEdge(f, t, o, b) \in EdgeRecs
           /\ NewEdge(f, t, o, b).from = f /\ NewEdge(f, t, o, b).to = t
           /\ NewEdge(f, t, o, b).owner = o
           /\ NewEdge(f, t, o, b) # NoRecord
BY DEF NewEdge, EdgeDigest, NoRecord, EdgeRecs

LEMMA RecordParts ==
    /\ \A n \in NodeRecs : n.type \in GraphTypes /\ n.owner \in GraphOwners
    /\ \A e \in EdgeRecs : /\ e.from \in GraphTypes /\ e.to \in GraphTypes
                           /\ e.owner \in GraphOwners /\ e.body \in Bodies
    /\ NoRecord \notin GraphTypes
BY Neo4jAssumption DEF NodeRecs, EdgeRecs, NoRecord

LEMMA EdgeEnds ==
    ASSUME NEW k \in EdgeKeys
    PROVE  k[1] \in GraphIds /\ k[2] \in GraphIds
BY Neo4jAssumption

\* What the store asks of the rows when it starts holds of every view.
LEMMA FittingIsGood ==
    ASSUME NEW g, GraphFits(g)
    PROVE  GoodNodes(g) /\ GoodEdges(g)
BY DEF GraphFits, NodeRecs, NodeNow, Joins, EdgeRecs, EdgeNow, GoodNodes, GoodEdges

LEMMA EmptyFits == GraphFits(EmptyGraph)
BY DEF GraphFits, EmptyGraph

-----------------------------------------------------------------------------
(* What an item changes, of each kind.                                      *)

Kept(row, next) == row = NoRecord \/ next = row
Claimed(row, next) ==
    row # NoRecord /\ next # NoRecord => row.owner = Unowned \/ next.owner = row.owner

OnlyAdds(g, h) ==
    /\ \A i \in GraphIds : Kept(g.nodes[i], h.nodes[i])
    /\ \A k \in EdgeKeys : Kept(g.edges[k], h.edges[k])
OnlyUpdates(g, h, r) ==
    /\ \A i \in GraphIds : h.nodes[i] = g.nodes[i] \/ r.nodes[i] = NodeNow(g, i)
    /\ \A k \in EdgeKeys : Claimed(g.edges[k], h.edges[k])
                           /\ (g.edges[k] = NoRecord <=> h.edges[k] = NoRecord)
OnlyRemoves(g, h) ==
    /\ \A i \in GraphIds : h.nodes[i] \in {g.nodes[i], NoRecord}
    /\ \A k \in EdgeKeys : h.edges[k] \in {g.edges[k], NoRecord}
OnlyClaims(g, h) == \A k \in EdgeKeys : Claimed(g.edges[k], h.edges[k])

LEMMA SetNodeParts ==
    ASSUME NEW g, GraphFits(g), NEW i \in GraphIds, NEW n \in NodeRecs \cup {NoRecord}
    PROVE  /\ SetNode(g, i, n) = [nodes |-> [g.nodes EXCEPT ![i] = n], edges |-> g.edges]
           /\ SetNode(g, i, n).nodes \in [GraphIds -> NodeRecs \cup {NoRecord}]
           /\ SetNode(g, i, n).edges = g.edges
           /\ SetNode(g, i, n).nodes[i] = n
           /\ \A j \in GraphIds \ {i} : SetNode(g, i, n).nodes[j] = g.nodes[j]
BY DEF GraphFits, SetNode

LEMMA SetEdgeParts ==
    ASSUME NEW g, GraphFits(g), NEW k \in EdgeKeys, NEW e \in EdgeRecs \cup {NoRecord}
    PROVE  /\ SetEdge(g, k, e) = [nodes |-> g.nodes, edges |-> [g.edges EXCEPT ![k] = e]]
           /\ SetEdge(g, k, e).edges \in [EdgeKeys -> EdgeRecs \cup {NoRecord}]
           /\ SetEdge(g, k, e).nodes = g.nodes
           /\ SetEdge(g, k, e).edges[k] = e
           /\ \A l \in EdgeKeys \ {k} : SetEdge(g, k, e).edges[l] = g.edges[l]
BY DEF GraphFits, SetEdge

\* An edge that joins its ends, or none, put in a view that fits.
LEMMA SetEdgeFits ==
    ASSUME NEW g, GraphFits(g), NEW k \in EdgeKeys, NEW e \in EdgeRecs \cup {NoRecord},
           e # NoRecord => EndsAre(g, k, e.from, e.to)
    PROVE  GraphFits(SetEdge(g, k, e))
<1> DEFINE h == SetEdge(g, k, e)
<1>1. /\ h = [nodes |-> g.nodes, edges |-> [g.edges EXCEPT ![k] = e]]
      /\ h.edges \in [EdgeKeys -> EdgeRecs \cup {NoRecord}] /\ h.nodes = g.nodes
      /\ h.edges[k] = e
      /\ \A l \in EdgeKeys \ {k} : h.edges[l] = g.edges[l]
  BY SetEdgeParts
<1>2. h = [nodes |-> h.nodes, edges |-> h.edges]
  BY <1>1
<1> HIDE DEF h
<1>3. \A i : Type(h, i) = Type(g, i)
  BY <1>1 DEF Type
<1>4. ASSUME NEW l \in EdgeKeys, h.edges[l] # NoRecord
      PROVE  Joins(h, l)
  BY <1>1, <1>3, <1>4 DEF EndsAre, Joins, GraphFits
<1>5. GraphFits(h)
  BY <1>1, <1>2, <1>4 DEF GraphFits
<1> QED BY <1>5 DEF h

\* A node put where its type is as before, or where nothing joined it.
LEMMA SetNodeFits ==
    ASSUME NEW g, GraphFits(g), NEW i \in GraphIds, NEW n \in NodeRecs,
           g.nodes[i] = NoRecord \/ g.nodes[i].type = n.type
    PROVE  GraphFits(SetNode(g, i, n))
<1> DEFINE h == SetNode(g, i, n)
<1>1. /\ h = [nodes |-> [g.nodes EXCEPT ![i] = n], edges |-> g.edges]
      /\ h.nodes \in [GraphIds -> NodeRecs \cup {NoRecord}] /\ h.edges = g.edges
      /\ h.nodes[i] = n
      /\ \A j \in GraphIds \ {i} : h.nodes[j] = g.nodes[j]
  BY SetNodeParts
<1>2. h = [nodes |-> h.nodes, edges |-> h.edges]
  BY <1>1
<1>0. n # NoRecord
  BY DEF NodeRecs, NoRecord
<1> HIDE DEF h
<1>3. ASSUME NEW j \in GraphIds, Type(g, j) # NoRecord
      PROVE  Type(h, j) = Type(g, j)
  BY <1>0, <1>1, <1>3 DEF Type
<1>4. ASSUME NEW l \in EdgeKeys, h.edges[l] # NoRecord
      PROVE  Joins(h, l)
  BY <1>1, <1>4, RecordParts, <1>3, EdgeEnds DEF GraphFits, Joins
<1>5. GraphFits(h)
  BY <1>1, <1>2, <1>4 DEF GraphFits
<1> QED BY <1>5 DEF h

LEMMA UpsertNodeFits ==
    ASSUME NEW g, GraphFits(g), NEW i \in GraphIds, NEW t \in GraphTypes, NEW o \in GraphOwners,
           NEW h \in UpsertNode(g, i, t, o)
    PROVE  GraphFits(h) /\ OnlyAdds(g, h)
<1>1. CASE h = g
  BY <1>1 DEF OnlyAdds, Kept
<1>2. CASE g.nodes[i] = NoRecord /\ h = SetNode(g, i, NewNode(t, o))
  <2>1. GraphFits(h)
    BY <1>2, SetNodeFits, NewNodeFits
  <2>2. h.edges = g.edges /\ \A j \in GraphIds \ {i} : h.nodes[j] = g.nodes[j]
    BY <1>2, SetNodeParts, NewNodeFits
  <2> QED BY <1>2, <2>1, <2>2 DEF OnlyAdds, Kept
<1> QED BY <1>1, <1>2 DEF UpsertNode

LEMMA UpsertEdgeFits ==
    ASSUME NEW g, GraphFits(g), NEW k \in EdgeKeys, NEW f \in GraphTypes, NEW t \in GraphTypes,
           NEW o \in GraphOwners, NEW b \in Bodies, NEW h \in UpsertEdge(g, k, f, t, o, b)
    PROVE  GraphFits(h) /\ OnlyAdds(g, h)
<1>1. CASE h = g
  BY <1>1 DEF OnlyAdds, Kept
<1>2. CASE /\ EndsAre(g, k, f, t) /\ g.edges[k] = NoRecord
           /\ h = SetEdge(g, k, NewEdge(f, t, o, b))
  <2>1. GraphFits(h)
    BY <1>2, SetEdgeFits, NewEdgeFits
  <2>2. h.nodes = g.nodes /\ \A l \in EdgeKeys \ {k} : h.edges[l] = g.edges[l]
    BY <1>2, SetEdgeParts, NewEdgeFits
  <2> QED BY <1>2, <2>1, <2>2 DEF OnlyAdds, Kept
<1> QED BY <1>1, <1>2 DEF UpsertEdge

LEMMA UpdateNodeFits ==
    ASSUME NEW g, GraphFits(g), NEW r, NEW i \in GraphIds, NEW t \in GraphTypes, NEW o \in GraphOwners,
           NEW h \in UpdateNode(g, i, r.nodes[i], t, o)
    PROVE  GraphFits(h) /\ OnlyUpdates(g, h, r)
<1>0. /\ IsAsRead(g, i, r.nodes[i])
      /\ h = EdgesRefreshed(SetNode(g, i, NewNode(t, o)), i, t)
  BY DEF UpdateNode
<1> DEFINE s == SetNode(g, i, NewNode(t, o))
           edges == [k \in EdgeKeys |->
              IF s.edges[k] = NoRecord \/ i \notin {k[1], k[2]} THEN s.edges[k]
              ELSE NewEdge(IF k[1] = i THEN t ELSE s.edges[k].from,
                           IF k[2] = i THEN t ELSE s.edges[k].to, s.edges[k].owner, s.edges[k].body)]
<1>1. /\ s = [nodes |-> [g.nodes EXCEPT ![i] = NewNode(t, o)], edges |-> g.edges]
      /\ s.nodes \in [GraphIds -> NodeRecs \cup {NoRecord}] /\ s.edges = g.edges
      /\ s.nodes[i] = NewNode(t, o)
      /\ \A j \in GraphIds \ {i} : s.nodes[j] = g.nodes[j]
  BY SetNodeParts, NewNodeFits
<1>2. h = [s EXCEPT !.edges = edges]
  BY <1>0 DEF EdgesRefreshed
<1> HIDE DEF edges
<1>3. h = [nodes |-> s.nodes, edges |-> edges]
  BY <1>1, <1>2
<1>4. h.nodes = s.nodes /\ h.edges = edges /\ h = [nodes |-> h.nodes, edges |-> h.edges]
  BY <1>3
<1> HIDE DEF s
<1>5. ASSUME NEW k \in EdgeKeys, g.edges[k] # NoRecord
      PROVE  /\ edges[k] \in EdgeRecs /\ edges[k] # NoRecord
             /\ edges[k].owner = g.edges[k].owner
             /\ edges[k].from = IF k[1] = i THEN t ELSE g.edges[k].from
             /\ edges[k].to = IF k[2] = i THEN t ELSE g.edges[k].to
  <2>1. g.edges[k] \in EdgeRecs
    BY <1>5 DEF GraphFits
  <2>2. CASE i \notin {k[1], k[2]}
    BY <2>1, <2>2, <1>1, <1>5 DEF edges
  <2>3. CASE i \in {k[1], k[2]}
    <3> DEFINE f == IF k[1] = i THEN t ELSE g.edges[k].from
               u == IF k[2] = i THEN t ELSE g.edges[k].to
    <3>1. edges[k] = NewEdge(f, u, g.edges[k].owner, g.edges[k].body)
      BY <2>3, <1>1, <1>5 DEF edges
    <3>2. f \in GraphTypes /\ u \in GraphTypes /\ g.edges[k].owner \in GraphOwners /\ g.edges[k].body \in Bodies
      BY <2>1, RecordParts
    <3> HIDE DEF f, u
    <3>3. /\ edges[k] \in EdgeRecs /\ edges[k] # NoRecord /\ edges[k].owner = g.edges[k].owner
          /\ edges[k].from = f /\ edges[k].to = u
      BY <3>1, <3>2, NewEdgeFits
    <3> QED BY <3>3 DEF f, u
  <2> QED BY <2>2, <2>3
<1>6. \A k \in EdgeKeys : g.edges[k] = NoRecord => edges[k] = NoRecord
  BY <1>1 DEF edges
<1>7. edges \in [EdgeKeys -> EdgeRecs \cup {NoRecord}]
  BY <1>5, <1>6 DEF edges
<1>8. Type(h, i) = t /\ \A j \in GraphIds \ {i} : Type(h, j) = Type(g, j)
  BY <1>1, <1>4, NewNodeFits DEF Type
<1>9. ASSUME NEW k \in EdgeKeys, h.edges[k] # NoRecord
      PROVE  Joins(h, k)
  BY <1>4, <1>6, <1>9, <1>5, <1>8, EdgeEnds DEF GraphFits, Joins
<1>10. GraphFits(h)
  BY <1>1, <1>4, <1>7, <1>9 DEF GraphFits
<1>11. ASSUME NEW k \in EdgeKeys
       PROVE  /\ Claimed(g.edges[k], h.edges[k])
              /\ g.edges[k] = NoRecord <=> h.edges[k] = NoRecord
  BY <1>4, <1>5, <1>6 DEF Claimed
<1>12. ASSUME NEW j \in GraphIds
       PROVE  h.nodes[j] = g.nodes[j] \/ r.nodes[j] = NodeNow(g, j)
  BY <1>0, <1>1, <1>4 DEF IsAsRead
<1> QED BY <1>10, <1>11, <1>12 DEF OnlyUpdates

LEMMA UpdateEdgeFits ==
    ASSUME NEW g, GraphFits(g), NEW r, NEW k \in EdgeKeys, NEW f \in GraphTypes, NEW t \in GraphTypes,
           NEW o \in GraphOwners, NEW b \in Bodies, NEW x, NEW h \in UpdateEdge(g, k, x, f, t, o, b)
    PROVE  GraphFits(h) /\ OnlyUpdates(g, h, r)
<1>0. /\ OwnedBy(g, k, o) /\ g.edges[k].from = f /\ g.edges[k].to = t
      /\ h = SetEdge(g, k, NewEdge(f, t, o, b))
  BY DEF UpdateEdge
<1>1. EndsAre(g, k, f, t)
  BY <1>0 DEF OwnedBy, GraphFits, Joins, EndsAre
<1>2. GraphFits(h)
  BY <1>0, <1>1, SetEdgeFits, NewEdgeFits
<1>3. /\ h.nodes = g.nodes /\ h.edges[k] = NewEdge(f, t, o, b)
      /\ \A l \in EdgeKeys \ {k} : h.edges[l] = g.edges[l]
  BY <1>0, SetEdgeParts, NewEdgeFits
<1>4. NewEdge(f, t, o, b) # NoRecord /\ NewEdge(f, t, o, b).owner = o
  BY NewEdgeFits
<1>5. g.edges[k] # NoRecord /\ g.edges[k].owner = o
  BY <1>0 DEF OwnedBy
<1> QED BY <1>2, <1>3, <1>4, <1>5 DEF OnlyUpdates, Claimed

LEMMA DetachNodeFits ==
    ASSUME NEW g, GraphFits(g), NEW i \in GraphIds, NEW t \in GraphTypes, NEW h \in DetachNode(g, i, t)
    PROVE  GraphFits(h) /\ OnlyRemoves(g, h)
<1>1. CASE h = g
  BY <1>1 DEF OnlyRemoves
<1>2. CASE h = [SetNode(g, i, NoRecord) EXCEPT !.edges =
             [k \in EdgeKeys |-> IF i \in {k[1], k[2]} THEN NoRecord ELSE g.edges[k]]]
  <2> DEFINE s == SetNode(g, i, NoRecord)
             edges == [k \in EdgeKeys |-> IF i \in {k[1], k[2]} THEN NoRecord ELSE g.edges[k]]
  <2>1. /\ s = [nodes |-> [g.nodes EXCEPT ![i] = NoRecord], edges |-> g.edges]
        /\ s.nodes \in [GraphIds -> NodeRecs \cup {NoRecord}]
        /\ s.nodes[i] = NoRecord
        /\ \A j \in GraphIds \ {i} : s.nodes[j] = g.nodes[j]
    BY SetNodeParts
  <2>2. h = [s EXCEPT !.edges = edges]
    BY <1>2
  <2>3. edges \in [EdgeKeys -> EdgeRecs \cup {NoRecord}]
    BY DEF GraphFits
  <2>4. \A k \in EdgeKeys : edges[k] # NoRecord => edges[k] = g.edges[k] /\ k[1] # i /\ k[2] # i
    OBVIOUS
  <2>5. \A k \in EdgeKeys : edges[k] \in {g.edges[k], NoRecord}
    OBVIOUS
  <2> HIDE DEF edges
  <2>6. h = [nodes |-> s.nodes, edges |-> edges]
    BY <2>1, <2>2
  <2>7. h.nodes = s.nodes /\ h.edges = edges /\ h = [nodes |-> h.nodes, edges |-> h.edges]
    BY <2>6
  <2> HIDE DEF s
  <2>8. \A j \in GraphIds \ {i} : Type(h, j) = Type(g, j)
    BY <2>1, <2>7 DEF Type
  <2>9. ASSUME NEW k \in EdgeKeys, h.edges[k] # NoRecord
        PROVE  Joins(h, k)
    BY <2>4, <2>7, <2>9, <2>8, EdgeEnds DEF GraphFits, Joins
  <2>10. GraphFits(h)
    BY <2>1, <2>3, <2>7, <2>9 DEF GraphFits
  <2> QED BY <2>1, <2>5, <2>7, <2>10 DEF OnlyRemoves
<1> QED BY <1>1, <1>2 DEF DetachNode

LEMMA DetachEdgeFits ==
    ASSUME NEW g, GraphFits(g), NEW k \in EdgeKeys, NEW o, NEW h \in DetachEdge(g, k, o)
    PROVE  GraphFits(h) /\ OnlyRemoves(g, h)
<1>1. CASE h = g
  BY <1>1 DEF OnlyRemoves
<1>2. CASE h = SetEdge(g, k, NoRecord)
  BY <1>2, SetEdgeFits, SetEdgeParts DEF OnlyRemoves
<1> QED BY <1>1, <1>2 DEF DetachEdge

LEMMA AssignNodeFits ==
    ASSUME NEW g, GraphFits(g), NEW i \in GraphIds, NEW x, NEW o \in GraphPacks,
           NEW h \in AssignNode(g, i, x, o)
    PROVE  GraphFits(h) /\ OnlyClaims(g, h)
<1>1. CASE h = g
  BY <1>1 DEF OnlyClaims, Claimed
<1>2. CASE NodeNow(g, i) # NoRecord /\ h = SetNode(g, i, NewNode(g.nodes[i].type, o))
  <2>1. g.nodes[i] \in NodeRecs
    BY <1>2 DEF NodeNow, GraphFits
  <2>2. g.nodes[i].type \in GraphTypes /\ o \in GraphOwners
    BY <2>1, RecordParts DEF GraphOwners
  <2>3. NewNode(g.nodes[i].type, o) \in NodeRecs /\ NewNode(g.nodes[i].type, o).type = g.nodes[i].type
    BY <2>2, NewNodeFits
  <2>4. GraphFits(h)
    BY <1>2, <2>3, SetNodeFits
  <2>5. h.edges = g.edges
    BY <1>2, <2>3, SetNodeParts
  <2> QED BY <2>4, <2>5 DEF OnlyClaims, Claimed
<1> QED BY <1>1, <1>2 DEF AssignNode

LEMMA AssignEdgeFits ==
    ASSUME NEW g, GraphFits(g), NEW k \in EdgeKeys, NEW x, NEW o \in GraphPacks,
           NEW h \in AssignEdge(g, k, x, o)
    PROVE  GraphFits(h) /\ OnlyClaims(g, h)
<1>1. CASE h = g
  BY <1>1 DEF OnlyClaims, Claimed
<1>2. CASE /\ EdgeNow(g, k) # NoRecord /\ EndsAre(g, k, g.edges[k].from, g.edges[k].to)
           /\ g.edges[k].owner = Unowned
           /\ h = SetEdge(g, k, NewEdge(g.edges[k].from, g.edges[k].to, o, g.edges[k].body))
  <2> DEFINE e == NewEdge(g.edges[k].from, g.edges[k].to, o, g.edges[k].body)
  <2>1. g.edges[k] \in EdgeRecs
    BY <1>2 DEF EdgeNow, GraphFits
  <2>2. /\ g.edges[k].from \in GraphTypes /\ g.edges[k].to \in GraphTypes
        /\ o \in GraphOwners /\ g.edges[k].body \in Bodies
    BY <2>1, RecordParts DEF GraphOwners
  <2>3. e \in EdgeRecs /\ e.from = g.edges[k].from /\ e.to = g.edges[k].to
    BY <2>2, NewEdgeFits
  <2> HIDE DEF e
  <2>4. h = SetEdge(g, k, e)
    BY <1>2 DEF e
  <2>5. GraphFits(h)
    BY <1>2, <2>3, <2>4, SetEdgeFits
  <2>6. \A l \in EdgeKeys \ {k} : h.edges[l] = g.edges[l]
    BY <2>3, <2>4, SetEdgeParts
  <2> QED BY <1>2, <2>5, <2>6 DEF OnlyClaims, Claimed
<1> QED BY <1>1, <1>2 DEF AssignEdge

-----------------------------------------------------------------------------
(* The relations of a transaction's view to the graph it was opened on grow *)
(* with every item.                                                         *)

LEMMA AddsAgain ==
    ASSUME NEW a, NEW g, NEW h, OnlyAdds(a, g), OnlyAdds(g, h)
    PROVE  OnlyAdds(a, h)
BY DEF OnlyAdds, Kept

LEMMA RemovesAgain ==
    ASSUME NEW a, NEW g, NEW h, OnlyRemoves(a, g), OnlyRemoves(g, h)
    PROVE  OnlyRemoves(a, h)
BY DEF OnlyRemoves

LEMMA UpdatesAgain ==
    ASSUME NEW a, NEW g, NEW h, NEW r, OnlyUpdates(a, g, r), OnlyUpdates(g, h, r)
    PROVE  OnlyUpdates(a, h, r)
BY DEF OnlyUpdates, NodeNow, Claimed

LEMMA ClaimsAgain ==
    ASSUME NEW a, NEW g, NEW h, OnlyClaims(a, g), OnlyClaims(g, h),
           \A k \in EdgeKeys : g.edges[k] = NoRecord => h.edges[k] = NoRecord
    PROVE  OnlyClaims(a, h)
BY DEF OnlyClaims, Claimed

GraphKinds == {"create", "update", "delete", "assign"}

\* How the view b of a transaction of a kind may differ from the graph a, where
\* its client has read r.
ViewFits(does, a, b, r) ==
    CASE does = "create" -> OnlyAdds(a, b)
      [] does = "update" -> OnlyUpdates(a, b, r)
      [] does = "delete" -> OnlyRemoves(a, b)
      [] does = "assign" -> /\ OnlyClaims(a, b) /\ r = Digests(a)
                            /\ \A k \in EdgeKeys : a.edges[k] = NoRecord => b.edges[k] = NoRecord

LEMMA FirstViewFits ==
    ASSUME NEW a, NEW r, NEW does \in GraphKinds, does = "assign" => r = Digests(a)
    PROVE  ViewFits(does, a, a, r)
BY DEF OnlyAdds, OnlyUpdates, OnlyRemoves, OnlyClaims, Kept, Claimed, ViewFits, GraphKinds

LEMMA NextViewFits ==
    ASSUME NEW c \in GraphClients, NEW does \in GraphKinds, NEW a, NEW b, GraphFits(b),
           ViewFits(does, a, b, read[c]), NEW h \in After(c, does, b)
    PROVE  GraphFits(h) /\ ViewFits(does, a, h, read[c])
<1>0. \A o \in GraphPacks : o \in GraphOwners
  BY DEF GraphOwners
<1>b. 1 \in Bodies
  BY DEF Bodies
<1>1. CASE does = "create"
  BY UpsertNodeFits, <1>b, UpsertEdgeFits, <1>1, AddsAgain DEF After, ViewFits
<1>2. CASE does = "update"
  <2>1. GraphFits(h) /\ OnlyUpdates(b, h, read[c])
    BY UpdateNodeFits, <1>0, UpdateEdgeFits, <1>2 DEF After
  <2>2. OnlyUpdates(a, b, read[c])
    BY <1>2 DEF ViewFits
  <2>3. OnlyUpdates(a, h, read[c])
    BY <2>1, <2>2, UpdatesAgain
  <2> QED BY <1>2, <2>1, <2>3 DEF ViewFits
<1>3. CASE does = "delete"
  BY DetachNodeFits, DetachEdgeFits, <1>3, RemovesAgain DEF After, ViewFits
<1>4. CASE does = "assign"
  <2>1. /\ GraphFits(h) /\ OnlyClaims(b, h)
        /\ \A k \in EdgeKeys : b.edges[k] = NoRecord => h.edges[k] = NoRecord
    BY AssignNodeFits, AssignEdgeFits, <1>4 DEF AssignNode, SetNode, GraphFits, AssignEdge, EdgeNow,
       SetEdge, After
  <2>2. OnlyClaims(a, b) /\ read[c] = Digests(a) /\ \A k \in EdgeKeys : a.edges[k] = NoRecord => b.edges[k] = NoRecord
    BY <1>4 DEF ViewFits
  <2>3. OnlyClaims(a, h)
    BY <2>1, <2>2, ClaimsAgain
  <2> QED BY <1>4, <2>1, <2>2, <2>3 DEF ViewFits
<1> QED BY <1>1, <1>2, <1>3, <1>4 DEF GraphKinds

\* What the relations say of a commit.
LEMMA ViewsReplaceWhatWasRead ==
    ASSUME NEW a, NEW b, NEW r, NEW does \in GraphKinds, ViewFits(does, a, b, r)
    PROVE  /\ \A i \in GraphIds :
                 (NodeNow(a, i) # NoRecord /\ NodeNow(b, i) # NoRecord /\ NodeNow(b, i) # NodeNow(a, i))
                 => r.nodes[i] = NodeNow(a, i)
           /\ \A k \in EdgeKeys : Claimed(a.edges[k], b.edges[k])
<1>1. CASE does = "create"
  BY <1>1 DEF ViewFits, OnlyAdds, Kept, Claimed, NodeNow
<1>2. CASE does = "update"
  BY <1>2 DEF ViewFits, OnlyUpdates, NodeNow
<1>3. CASE does = "delete"
  BY <1>3 DEF ViewFits, OnlyRemoves, Claimed, NodeNow
<1>4. CASE does = "assign"
  BY <1>4 DEF ViewFits, OnlyClaims, Digests
<1> QED BY <1>1, <1>2, <1>3, <1>4 DEF GraphKinds

-----------------------------------------------------------------------------
(* The inductive invariant.                                                 *)

GraphStages == {"off", "owned", "edges", "domain", "locks", "judge", "create", "up", "write"}
Classes == {"none", "legacy", "partial", "target"}
Findings == [names : BOOLEAN, whole : BOOLEAN, empty : BOOLEAN, good : BOOLEAN, locks : BOOLEAN]

\* One client writes at most, and only while a transaction is open.
WritersAlone ==
    /\ clientPc \in [GraphClients -> GraphStages]
    /\ classified \in [GraphClients -> Classes]
    /\ DOMAIN found = GraphClients /\ DOMAIN read = GraphClients
    /\ ddl \subseteq Statements
    /\ (tx # NoTx) <=> \E c \in GraphClients : clientPc[c] = "write"
    /\ \A c, d \in GraphClients : clientPc[c] = "write" /\ clientPc[d] = "write" => c = d

\* What the graph holds fits together, and came after the lock nodes.
GraphIsGood == GraphFits(graph) /\ (HasNodes => HasLocks)

ViewIsGood ==
    \A c \in GraphClients : clientPc[c] = "write" =>
        /\ GraphFits(tx) /\ HasLocks
        /\ txKind \in GraphKinds /\ ViewFits(txKind, graph, tx, read[c])

\* A starting store has found nothing wrong so far, and no nodes before the
\* lock nodes.
NothingWrongFound ==
    \A c \in GraphClients :
        /\ clientPc[c] # "off" =>
              /\ found[c] \in Findings /\ found[c].good
              /\ found[c].whole => found[c].names
              /\ ~found[c].empty => HasLocks
        /\ clientPc[c] = "judge" /\ ~found[c].empty => found[c].locks

StoresAreUsable ==
    \A c \in GraphClients :
        /\ classified[c] # "partial"
        /\ clientPc[c] = "off" => classified[c] = "none"
        /\ classified[c] = "legacy" => ~found[c].whole

NeoInv == WritersAlone /\ GraphIsGood /\ ViewIsGood /\ NothingWrongFound /\ StoresAreUsable

LEMMA NeoInvTyped ==
    ASSUME NeoInv
    PROVE  NeoTypeOK
<1> DEFINE W == {c \in GraphClients : clientPc[c] = "write"}
<1>1. Cardinality(W) <= 1
  <2>1. CASE W = {}
    BY <2>1, FS_EmptySet
  <2>2. CASE \E c \in GraphClients : W = {c}
    <3> PICK c \in GraphClients : W = {c}
      BY <2>2
    <3>1. Cardinality({c}) = 1
      BY FS_Singleton
    <3> QED BY <3>1
  <2> QED BY <2>1, <2>2 DEF NeoInv, WritersAlone
<1>2. (tx # NoTx) = (\E c \in GraphClients : clientPc[c] = "write")
  BY DEF NeoInv, WritersAlone
<1> HIDE DEF W
<1>3. /\ \A c \in GraphClients : clientPc[c] \in GraphStages /\ classified[c] \in Classes
      /\ ddl \subseteq Statements
  BY DEF NeoInv, WritersAlone
<1>4. Cardinality({c \in GraphClients : clientPc[c] = "write"}) <= 1
  BY <1>1 DEF W
<1> QED BY <1>2, <1>3, <1>4 DEF NeoTypeOK, GraphStages, Classes

LEMMA NeoInitInv == NeoInit => NeoInv
BY EmptyFits DEF NeoInit, WritersAlone, GraphStages, Classes, HasNodes, EmptyGraph, GraphIsGood,
   ViewIsGood, NothingWrongFound, StoresAreUsable, NeoInv

\* A transaction is not the absence of one.
LEMMA ViewIsATransaction ==
    ASSUME NEW g, GraphFits(g)
    PROVE  g # NoTx
BY DEF GraphFits, NoTx

\* A view that differs from the graph only by items has nodes only after the
\* lock nodes; the end of a transaction leaves the graph or the view.
LEMMA EndsSafely ==
    ASSUME NeoInv, NEW c \in GraphClients, clientPc[c] = "write",
           NEW g \in {graph, tx}, EndTx(c, g),
           NEW at \in GraphStages \ {"write"}, clientPc' = [clientPc EXCEPT ![c] = at],
           ddl' = ddl, at # "judge",
           at # "off" => UNCHANGED <<classified, found, read>>,
           at = "off" => /\ classified' = [classified EXCEPT ![c] = "none"]
                         /\ found' = [found EXCEPT ![c] = NoRecord]
                         /\ read' = [read EXCEPT ![c] = NoRecord]
    PROVE  NeoInv'
BY DEF NeoInv, WritersAlone, Classes, EndTx, GraphIsGood, ViewIsGood, HasLocks, GraphFits, Joins,
   Type, NothingWrongFound, StoresAreUsable

LEMMA NeoStays ==
    ASSUME NeoInv, UNCHANGED neoVars
    PROVE  NeoInv'
<1> USE DEF neoVars
<1>1. WritersAlone'
  BY DEF NeoInv, WritersAlone
<1>2. GraphIsGood'
  BY DEF NeoInv, GraphIsGood, GraphFits, Joins, Type, HasNodes, HasLocks
<1>3. ViewIsGood'
  BY DEF NeoInv, ViewIsGood, HasLocks, GraphFits, Joins, Type, ViewFits, OnlyAdds, OnlyUpdates,
         OnlyRemoves, OnlyClaims, Digests, NodeNow, EdgeNow
<1>4. NothingWrongFound' /\ StoresAreUsable'
  BY DEF NeoInv, NothingWrongFound, StoresAreUsable, HasLocks
<1> QED BY <1>1, <1>2, <1>3, <1>4 DEF NeoInv

\* A step of a store that is not writing leaves the graph and its views alone.
LEMMA OutsideWrites ==
    ASSUME NeoInv, NEW c \in GraphClients, clientPc[c] # "write",
           NEW at \in GraphStages \ {"write"}, clientPc' = [clientPc EXCEPT ![c] = at],
           UNCHANGED <<graph, tx, txKind>>, ddl \subseteq ddl',
           \A d \in GraphClients \ {c} : read'[d] = read[d]
    PROVE  GraphIsGood' /\ ViewIsGood'
<1>1. HasLocks => HasLocks'
  BY DEF HasLocks
<1>2. GraphIsGood'
  BY <1>1 DEF NeoInv, GraphIsGood, GraphFits, Joins, Type, HasNodes
<1>3. ASSUME NEW d \in GraphClients, clientPc'[d] = "write"
      PROVE  clientPc[d] = "write" /\ read'[d] = read[d]
  BY <1>3 DEF NeoInv, WritersAlone
<1>4. ASSUME NEW d \in GraphClients, clientPc'[d] = "write"
      PROVE  /\ GraphFits(tx') /\ HasLocks'
             /\ txKind' \in GraphKinds /\ ViewFits(txKind', graph', tx', read'[d])
  BY <1>1, <1>3, <1>4 DEF NeoInv, ViewIsGood
<1>5. ViewIsGood'
  BY <1>4 DEF ViewIsGood, GraphFits, Joins, Type, ViewFits, OnlyAdds, OnlyUpdates,
         OnlyRemoves, OnlyClaims, Digests, NodeNow, EdgeNow
<1> QED BY <1>2, <1>5

\* A query of a starting store finds nothing wrong.
LEMMA LooksSafely ==
    ASSUME NeoInv, NEW c \in GraphClients, clientPc[c] # "write",
           NEW next \in GraphStages \ {"off", "write"}, NEW seen \in Findings,
           clientPc' = [clientPc EXCEPT ![c] = next], found' = [found EXCEPT ![c] = seen],
           UNCHANGED <<graph, ddl, classified, read, tx, txKind>>,
           seen.good, seen.whole => seen.names, ~seen.empty => HasLocks,
           next = "judge" /\ ~seen.empty => seen.locks,
           clientPc[c] # "off" => seen.whole = found[c].whole
    PROVE  NeoInv'
BY OutsideWrites DEF NeoInv, WritersAlone, NothingWrongFound, HasLocks, StoresAreUsable

LEMMA QueriesSafe ==
    ASSUME NeoInv, NEW c \in GraphClients,
           StartStore(c) \/ QueryOwned(c) \/ QueryEdges(c) \/ QueryDomain(c) \/ QueryLocks(c)
    PROVE  NeoInv'
<1>0. /\ clientPc[c] # "off" =>
            /\ found[c] \in Findings /\ found[c].good /\ (found[c].whole => found[c].names)
            /\ (~found[c].empty => HasLocks)
      /\ (HasNodes => HasLocks) /\ GoodNodes(graph) /\ GoodEdges(graph)
      /\ HasNames \in BOOLEAN /\ HasLocks \in BOOLEAN /\ HasNodes \in BOOLEAN
  BY FittingIsGood DEF NeoInv, NothingWrongFound, GraphIsGood, HasNames, HasLocks, HasNodes
<1>1. CASE StartStore(c)
  <2> DEFINE seen == [names |-> HasNames, whole |-> HasNames /\ HasLocks,
                      empty |-> TRUE, good |-> TRUE, locks |-> FALSE]
  <2>1. /\ seen \in Findings /\ seen.good /\ (seen.whole => seen.names) /\ seen.empty
    BY <1>0 DEF Findings
  <2>2. /\ clientPc[c] = "off" /\ clientPc' = [clientPc EXCEPT ![c] = "owned"]
        /\ found' = [found EXCEPT ![c] = seen]
        /\ UNCHANGED <<graph, ddl, classified, read, tx, txKind>>
    BY <1>1 DEF StartStore
  <2> HIDE DEF seen
  <2>3. "owned" \in GraphStages \ {"off", "write"} /\ "owned" # "judge"
    BY DEF GraphStages
  <2> QED BY <2>1, <2>2, <2>3, LooksSafely
<1>2. CASE QueryOwned(c)
  <2> DEFINE seen == [found[c] EXCEPT !.empty = ~HasNodes, !.good = GoodNodes(graph)]
  <2>2. /\ clientPc[c] = "owned" /\ clientPc' = [clientPc EXCEPT ![c] = "edges"]
        /\ found' = [found EXCEPT ![c] = seen]
        /\ UNCHANGED <<graph, ddl, classified, read, tx, txKind>>
    BY <1>2 DEF QueryOwned, Looks
  <2>1. /\ seen \in Findings /\ seen.good /\ (seen.whole => seen.names) /\ (~seen.empty => HasLocks)
        /\ seen.whole = found[c].whole
    BY <1>0, <2>2 DEF Findings
  <2> HIDE DEF seen
  <2>3. "edges" \in GraphStages \ {"off", "write"} /\ "edges" # "judge" /\ "owned" # "off" /\ "owned" # "write"
    BY DEF GraphStages
  <2> QED BY <2>1, <2>2, <2>3, LooksSafely
<1>3. CASE QueryEdges(c)
  <2> DEFINE seen == [found[c] EXCEPT !.good = @ /\ GoodEdges(graph)]
  <2>2. /\ clientPc[c] = "edges" /\ clientPc' = [clientPc EXCEPT ![c] = "domain"]
        /\ found' = [found EXCEPT ![c] = seen]
        /\ UNCHANGED <<graph, ddl, classified, read, tx, txKind>>
    BY <1>3 DEF QueryEdges, Looks
  <2>1. /\ seen \in Findings /\ seen.good /\ (seen.whole => seen.names) /\ (~seen.empty => HasLocks)
        /\ seen.whole = found[c].whole
    BY <1>0, <2>2 DEF Findings
  <2> HIDE DEF seen
  <2>3. "domain" \in GraphStages \ {"off", "write"} /\ "domain" # "judge" /\ "edges" # "off" /\ "edges" # "write"
    BY DEF GraphStages
  <2> QED BY <2>1, <2>2, <2>3, LooksSafely
<1>4. CASE QueryDomain(c)
  <2> DEFINE seen == [found[c] EXCEPT !.empty = @ /\ ~HasNodes]
  <2>2. /\ clientPc[c] = "domain" /\ clientPc' = [clientPc EXCEPT ![c] = "locks"]
        /\ found' = [found EXCEPT ![c] = seen]
        /\ UNCHANGED <<graph, ddl, classified, read, tx, txKind>>
    BY <1>4 DEF QueryDomain, Looks
  <2>1. /\ seen \in Findings /\ seen.good /\ (seen.whole => seen.names) /\ (~seen.empty => HasLocks)
        /\ seen.whole = found[c].whole
    BY <1>0, <2>2 DEF Findings
  <2> HIDE DEF seen
  <2>3. "locks" \in GraphStages \ {"off", "write"} /\ "locks" # "judge" /\ "domain" # "off" /\ "domain" # "write"
    BY DEF GraphStages
  <2> QED BY <2>1, <2>2, <2>3, LooksSafely
<1>5. CASE QueryLocks(c)
  <2> DEFINE seen == [found[c] EXCEPT !.locks = HasLocks]
  <2>2. /\ clientPc[c] = "locks" /\ clientPc' = [clientPc EXCEPT ![c] = "judge"]
        /\ found' = [found EXCEPT ![c] = seen]
        /\ UNCHANGED <<graph, ddl, classified, read, tx, txKind>>
    BY <1>5 DEF QueryLocks, Looks
  <2>1. /\ seen \in Findings /\ seen.good /\ (seen.whole => seen.names) /\ (~seen.empty => HasLocks)
        /\ seen.whole = found[c].whole /\ (~seen.empty => seen.locks)
    BY <1>0, <2>2 DEF Findings
  <2> HIDE DEF seen
  <2>3. "judge" \in GraphStages \ {"off", "write"} /\ "locks" # "off" /\ "locks" # "write"
    BY DEF GraphStages
  <2> QED BY <2>1, <2>2, <2>3, LooksSafely
<1> QED BY <1>1, <1>2, <1>3, <1>4, <1>5

LEMMA JudgeSafe ==
    ASSUME NeoInv, NEW c \in GraphClients, Judge(c)
    PROVE  NeoInv'
BY OutsideWrites DEF Judge, NeoInv, NothingWrongFound, WritersAlone, StoresAreUsable, Classes,
   GraphStages, HasLocks

LEMMA CreateSchemaSafe ==
    ASSUME NeoInv, NEW c \in GraphClients, CreateSchema(c)
    PROVE  NeoInv'
<1>0. clientPc[c] = "create" /\ UNCHANGED <<graph, found, read, tx, txKind>>
  BY DEF CreateSchema
<1>1. CASE ddl = Statements
  BY <1>1, <1>0, OutsideWrites DEF CreateSchema, NeoInv, WritersAlone, GraphStages, Classes,
     NothingWrongFound, HasLocks, StoresAreUsable
<1>2. CASE ddl # Statements
  <2>0. UNCHANGED <<clientPc, classified>>
    BY <1>2 DEF CreateSchema
  <2>1. ddl \subseteq ddl' /\ ddl' \subseteq Statements
    <3> DEFINE rest == Statements \ ddl
               first == CHOOSE n \in rest : \A m \in rest : n <= m
    <3>1. ddl' = ddl \cup {first}
      BY <1>2 DEF CreateSchema
    <3>2. \E n \in rest : \A m \in rest : n <= m
      <4>1. \A n \in rest : n \in {1, 2, 3, 4, 5}
        BY DEF Statements
      <4>2. 1 \in rest \/ 2 \in rest \/ 3 \in rest \/ 4 \in rest \/ 5 \in rest
        BY <1>2, <4>1 DEF NeoInv, WritersAlone
      <4> HIDE DEF rest
      <4>3. CASE 1 \in rest
        BY <4>1, <4>3
      <4>4. CASE 1 \notin rest /\ 2 \in rest
        BY <4>1, <4>4
      <4>5. CASE 1 \notin rest /\ 2 \notin rest /\ 3 \in rest
        BY <4>1, <4>5
      <4>6. CASE rest \subseteq {4, 5}
        BY <4>1, <4>2, <4>6
      <4> QED BY <4>1, <4>3, <4>4, <4>5, <4>6
    <3>3. first \in rest
      BY <3>2
    <3> QED BY <3>1, <3>3 DEF NeoInv, WritersAlone
  <2>2. WritersAlone'
    BY <1>0, <2>0, <2>1 DEF NeoInv, WritersAlone
  <2>3. clientPc' = [clientPc EXCEPT ![c] = "create"] /\ "create" \in GraphStages \ {"write"}
    BY <1>0, <2>0 DEF NeoInv, WritersAlone, GraphStages
  <2>4. GraphIsGood' /\ ViewIsGood'
    BY <1>0, <2>1, <2>3, OutsideWrites
  <2>5. NothingWrongFound' /\ StoresAreUsable'
    BY <1>0, <2>0, <2>1 DEF NeoInv, NothingWrongFound, StoresAreUsable, HasLocks
  <2> QED BY <2>2, <2>4, <2>5 DEF NeoInv
<1> QED BY <1>1, <1>2

LEMMA ReadDigestsSafe ==
    ASSUME NeoInv, NEW c \in GraphClients, ReadDigests(c)
    PROVE  NeoInv'
BY OutsideWrites DEF ReadDigests, NeoInv, WritersAlone, GraphStages, NothingWrongFound,
   StoresAreUsable, HasLocks

LEMMA BeginWriteSafe ==
    ASSUME NeoInv, NEW c \in GraphClients, NEW does \in GraphKinds, BeginWrite(c, does)
    PROVE  NeoInv'
<1>0. /\ clientPc[c] = "up" /\ tx = NoTx /\ HasLocks /\ (does = "assign" => read[c] = Digests(graph))
      /\ tx' = graph /\ txKind' = does /\ clientPc' = [clientPc EXCEPT ![c] = "write"]
      /\ UNCHANGED <<graph, ddl, classified, found, read>>
  BY DEF BeginWrite
<1>1. GraphFits(graph) /\ graph # NoTx
  BY ViewIsATransaction DEF NeoInv, GraphIsGood
<1>2. \A d \in GraphClients : /\ clientPc'[d] = IF d = c THEN "write" ELSE clientPc[d]
                              /\ clientPc[d] # "write"
  BY <1>0 DEF NeoInv, WritersAlone
<1>3. WritersAlone'
  BY <1>0, <1>1, <1>2 DEF NeoInv, WritersAlone, GraphStages
<1>4. GraphIsGood'
  BY <1>0 DEF NeoInv, GraphIsGood, GraphFits, Joins, Type, HasNodes, HasLocks
<1>5. ASSUME NEW d \in GraphClients, clientPc'[d] = "write"
      PROVE  /\ GraphFits(tx') /\ HasLocks'
             /\ txKind' \in GraphKinds /\ ViewFits(txKind', graph', tx', read'[d])
  BY <1>2, <1>5, <1>0, FirstViewFits, <1>1 DEF HasLocks
<1>6. ViewIsGood'
  BY <1>5 DEF ViewIsGood, GraphFits, Joins, Type, ViewFits, OnlyAdds, OnlyUpdates,
         OnlyRemoves, OnlyClaims, Digests, NodeNow, EdgeNow
<1>7. NothingWrongFound' /\ StoresAreUsable'
  BY <1>0, <1>2 DEF NeoInv, NothingWrongFound, StoresAreUsable, HasLocks
<1> QED BY <1>3, <1>4, <1>6, <1>7 DEF NeoInv

LEMMA WriteItemSafe ==
    ASSUME NeoInv, NEW c \in GraphClients, WriteItem(c)
    PROVE  NeoInv'
<1>0. /\ clientPc[c] = "write" /\ tx' \in After(c, txKind, tx)
      /\ UNCHANGED <<graph, ddl, clientPc, classified, found, read, txKind>>
  BY DEF WriteItem
<1>1. /\ GraphFits(tx) /\ HasLocks /\ txKind \in GraphKinds /\ ViewFits(txKind, graph, tx, read[c])
  BY <1>0 DEF NeoInv, ViewIsGood
<1>2. GraphFits(tx') /\ ViewFits(txKind, graph, tx', read[c])
  BY <1>0, <1>1, NextViewFits
<1>3. tx' # NoTx /\ tx # NoTx
  BY <1>1, <1>2, ViewIsATransaction
<1>4. WritersAlone'
  BY <1>0, <1>3 DEF NeoInv, WritersAlone
<1>5. GraphIsGood'
  BY <1>0 DEF NeoInv, GraphIsGood, GraphFits, Joins, Type, HasNodes, HasLocks
<1>6. ASSUME NEW d \in GraphClients, clientPc'[d] = "write"
      PROVE  /\ GraphFits(tx') /\ HasLocks'
             /\ txKind' \in GraphKinds /\ ViewFits(txKind', graph', tx', read'[d])
  BY <1>0, <1>6, <1>1, <1>2 DEF NeoInv, WritersAlone, HasLocks
<1>7. ViewIsGood'
  BY <1>6 DEF ViewIsGood, GraphFits, Joins, Type, ViewFits, OnlyAdds, OnlyUpdates,
         OnlyRemoves, OnlyClaims, Digests, NodeNow, EdgeNow
<1>8. NothingWrongFound' /\ StoresAreUsable'
  BY <1>0 DEF NeoInv, NothingWrongFound, StoresAreUsable, HasLocks
<1> QED BY <1>4, <1>5, <1>7, <1>8 DEF NeoInv

LEMMA EndingsSafe ==
    ASSUME NeoInv, NEW c \in GraphClients, Commit(c) \/ RollBack(c) \/ LoseCommit(c)
    PROVE  NeoInv'
BY EndsSafely DEF Commit, RollBack, LoseCommit, GraphStages

LEMMA KillClientSafe ==
    ASSUME NeoInv, NEW c \in GraphClients, KillClient(c)
    PROVE  NeoInv'
<1>0. /\ clientPc' = [clientPc EXCEPT ![c] = "off"] /\ classified' = [classified EXCEPT ![c] = "none"]
      /\ found' = [found EXCEPT ![c] = NoRecord] /\ read' = [read EXCEPT ![c] = NoRecord]
      /\ UNCHANGED ddl
  BY DEF KillClient
<1>1. "off" \in GraphStages \ {"write"} /\ "off" # "judge"
  BY DEF GraphStages
<1>2. CASE clientPc[c] = "write"
  BY <1>2, <1>0, <1>1, EndsSafely DEF KillClient
<1>3. CASE clientPc[c] # "write"
  <2>0. UNCHANGED <<graph, tx, txKind>>
    BY <1>3 DEF KillClient
  <2>1. \A d \in GraphClients : /\ clientPc'[d] # "off" => clientPc[d] = clientPc'[d] /\ found'[d] = found[d]
                                /\ clientPc[d] = "write" => clientPc'[d] = "write"
                                /\ classified'[d] \in {classified[d], "none"}
                                /\ classified'[d] # "none" => found'[d] = found[d] /\ d # c
                                /\ clientPc'[d] = "off" => d = c \/ clientPc[d] = "off"
    BY <1>0, <1>3 DEF NeoInv, WritersAlone
  <2>2. WritersAlone'
    BY <1>0, <1>1, <2>0, <2>1 DEF NeoInv, WritersAlone, Classes
  <2>3. GraphIsGood' /\ ViewIsGood'
    BY <1>0, <1>1, <1>3, <2>0, OutsideWrites DEF NeoInv, WritersAlone
  <2>4. NothingWrongFound'
    BY <1>0, <2>1 DEF NeoInv, NothingWrongFound, HasLocks
  <2>5. classified'[c] = "none"
    BY <1>0 DEF NeoInv, WritersAlone
  <2>6. StoresAreUsable'
    BY <2>1, <2>5 DEF NeoInv, StoresAreUsable
  <2> QED BY <2>2, <2>3, <2>4, <2>6 DEF NeoInv
<1> QED BY <1>2, <1>3

LEMMA NeoStepInv == NeoInv /\ [NeoNext]_neoVars => NeoInv'
BY BeginWriteSafe, NeoStays, QueriesSafe, JudgeSafe, CreateSchemaSafe, ReadDigestsSafe,
   WriteItemSafe, EndingsSafe, KillClientSafe DEF GraphKinds, NeoNext

\* The inductive invariant of the Neo4j graph store (stores/neo4j_store.py).
THEOREM NeoInvHolds == NeoSpec => []NeoInv
BY NeoInitInv, NeoStepInv, PTL DEF NeoSpec

\* The states of the clients of a Neo4j are theirs, and a transaction is open
\* while, and only while, one client writes (stores/neo4j_store.py, _run_write).
THEOREM NeoTypesCorrect == NeoSpec => []NeoTypeOK
BY NeoInvHolds, NeoInvTyped, PTL

\* No store finds a database that the stores have written in part, whatever is
\* committed between the five queries of its start (neo4j_store, _classify).
THEOREM NeoStartsWritable == NeoSpec => []StartsWritable
<1>1. NeoInv => StartsWritable
  BY DEF NeoInv, StoresAreUsable, StartsWritable
<1> QED BY <1>1, NeoInvHolds, PTL

\* A step of the store that changes the graph ends a transaction.
LEMMA CommitsReplaceWhatWasRead ==
    ASSUME NeoInv, [NeoNext]_neoVars
    PROVE  /\ \A i \in GraphIds :
                (/\ NodeNow(graph, i) # NoRecord /\ NodeNow(graph', i) # NoRecord
                 /\ NodeNow(graph', i) # NodeNow(graph, i))
                => \E c \in GraphClients : clientPc[c] = "write" /\ read[c].nodes[i] = NodeNow(graph, i)
           /\ \A k \in EdgeKeys :
                (graph.edges[k] # NoRecord /\ graph'.edges[k] # NoRecord) =>
                    \/ graph.edges[k].owner = Unowned \/ graph'.edges[k].owner = graph.edges[k].owner
<1>1. CASE graph' = graph
  BY <1>1
<1>2. CASE graph' # graph
  <2>1. PICK c \in GraphClients : clientPc[c] = "write" /\ graph' = tx
    BY <1>2 DEF NeoNext, neoVars, StartStore, QueryOwned, QueryEdges, QueryDomain, QueryLocks, Looks, Judge,
       CreateSchema, ReadDigests, BeginWrite, WriteItem, Commit, RollBack, LoseCommit, KillClient, EndTx
  <2>2. txKind \in GraphKinds /\ ViewFits(txKind, graph, tx, read[c])
    BY <2>1 DEF NeoInv, ViewIsGood
  <2>3. /\ \A i \in GraphIds :
             (NodeNow(graph, i) # NoRecord /\ NodeNow(tx, i) # NoRecord /\ NodeNow(tx, i) # NodeNow(graph, i))
             => read[c].nodes[i] = NodeNow(graph, i)
        /\ \A k \in EdgeKeys : Claimed(graph.edges[k], tx.edges[k])
    BY <2>2, ViewsReplaceWhatWasRead
  <2> QED BY <2>1, <2>3 DEF Claimed
<1> QED BY <1>1, <1>2

\* No update of a Neo4j is lost: a row's content is replaced only by a client
\* that read it, and an edge passes from no owner to an owner and never on
\* (neo4j_store, update_node_in_tx, update_edge_in_tx, _assign_*_tx).
THEOREM NeoReplacesWhatWasRead == NeoSpec => ReplacesWhatWasRead
<1>1. NeoInv /\ [NeoNext]_neoVars =>
        [/\ \A i \in GraphIds :
              (/\ NodeNow(graph, i) # NoRecord /\ NodeNow(graph', i) # NoRecord
               /\ NodeNow(graph', i) # NodeNow(graph, i))
              => \E c \in GraphClients : clientPc[c] = "write" /\ read[c].nodes[i] = NodeNow(graph, i)
         /\ \A k \in EdgeKeys :
              (graph.edges[k] # NoRecord /\ graph'.edges[k] # NoRecord) =>
                  \/ graph.edges[k].owner = Unowned \/ graph'.edges[k].owner = graph.edges[k].owner]_neoVars
  BY CommitsReplaceWhatWasRead
<1> QED BY <1>1, NeoInvHolds, PTL DEF NeoSpec, ReplacesWhatWasRead

(***************************************************************************)
(* The text of a source: what a caller carries from step to step.          *)
(***************************************************************************)

SourceOps == {"none", "write", "copy", "rewrite", "delete"}
SourceStages ==
    {"none", "identify", "graph", "list", "first", "final", "state", "again", "docs", "vector"}
RowHelpers == {"absent", "unknown"} \cup SourceTexts

MoveRecs ==
    [op : SourceOps, at : SourceStages, ids : Seq(SourceIds), id : SourceIds \cup {Missing},
     from : SourceIds \cup {Missing}, text : SourceTexts \cup {Missing}, pack : SourcePacks \cup {Missing},
     state : SourceStates \cup {Missing}, dumped : Copies \cup RowHelpers \cup {Missing},
     n : 0 .. MaxMoves, locks : Nat]

\* A call at its stage, where v are the texts vouched for and m the calls made.
MoveFits(j, v, m) ==
    /\ j.op = "none" => j = RestingMove
    /\ j.n <= m
    /\ j.op \in {"write", "copy", "rewrite"} =>
          j.ids = <<j.id>> /\ j.id \in SourceIds /\ j.pack \in SourcePacks
    /\ j.op = "write" => j.at \in {"identify", "graph", "docs", "vector"} /\ j.text \in v
    /\ j.op = "copy" =>
          /\ j.at \in {"list", "first", "final", "identify", "docs", "vector"} /\ j.from \in SourceIds
          /\ j.at # "list" => j.text \in SourceTexts /\ j.dumped \in Copies \cup {Missing}
          /\ j.at \in {"final", "identify", "docs", "vector"} => j.state \in SourceStates
    /\ j.op = "rewrite" =>
          /\ j.at \in {"state", "again", "docs"}
          /\ j.at # "state" => j.state \in SourceStates
    /\ j.op = "delete" => j.at = "docs" /\ j.ids \in Deletions
    /\ j.state \in SourceStates => (j.state.complete => j.state.text \in v)
    /\ j.at # "docs" => j.locks = 0

CallsFit == move \in [Movers -> MoveRecs] /\ \A c \in Movers : MoveFits(move[c], vouched, moves)

RowsFit ==
    /\ srow \in [SourceIds -> SourceRows \cup {Missing}]
    /\ snode \in [SourceIds -> Copies \cup {Missing}] /\ svec \in [SourceIds -> Copies \cup {Missing}]
    /\ \A i \in SourceIds : /\ srow[i] # Missing => srow[i].n <= moves
                            /\ snode[i] # Missing => snode[i].n <= moves
                            /\ svec[i] # Missing => svec[i].n <= moves

Locators == [id : SourceIds, pack : SourcePacks, text : SourceTexts]
ReadsFit ==
    /\ item # Missing => item \in [id : SourceIds, text : SourceTexts]
    /\ given \subseteq Locators /\ \A l \in given : l.text \in vouched
    /\ \A r \in served : r.text = r.locator.text

CountersFit ==
    /\ docKind \in {"sqlite", "pg", "mongo"} /\ vouched \subseteq SourceTexts
    /\ moves \in 0 .. MaxMoves /\ mishaps \in 0 .. MaxMishaps
    /\ rowLock \in [{"source", "helper"} \X SourceIds -> Movers \cup {Free}]
    /\ hostLock \in Movers \cup {Free, "recovery"}

WholeIsVouched == \A i \in SourceIds : srow[i] # Missing /\ Whole(srow[i]) => srow[i].text \in vouched

SourceInv == CountersFit /\ CallsFit /\ RowsFit /\ ReadsFit /\ WholeIsVouched

LEMMA SourceFacts ==
    /\ Missing \notin SourceTexts /\ Missing \notin SourceRows
    /\ Missing \notin Copies /\ Missing \notin SourceStates
    /\ "absent" \notin SourceTexts /\ "unknown" \notin SourceTexts
    /\ Free \notin Movers /\ "recovery" \notin Movers /\ Free # "recovery"
    /\ MaxMoves \in Nat /\ MaxMishaps \in Nat
BY SourceAssumption DEF Free

LEMMA RestingFits ==
    ASSUME NEW v, NEW m \in Nat
    PROVE  RestingMove \in MoveRecs /\ MoveFits(RestingMove, v, m)
BY SourceFacts DEF RestingMove, MoveRecs, MoveFits, SourceOps, SourceStages

LEMMA FitsLonger ==
    ASSUME NEW v, NEW w, v \subseteq w, NEW m \in Nat, NEW k \in Nat, m <= k,
           NEW j \in MoveRecs, MoveFits(j, v, m)
    PROVE  MoveFits(j, w, k)
BY SourceFacts DEF MoveRecs, MoveFits

LEMMA ActiveMoves ==
    ASSUME SourceInv, NEW c \in Movers
    PROVE  /\ move[c] \in MoveRecs /\ MoveFits(move[c], vouched, moves)
           /\ move[c].op = "none" <=> move[c] = RestingMove
           /\ move[c].at = "none" <=> move[c] = RestingMove
BY DEF SourceInv, CallsFit, MoveFits, RestingMove, MoveRecs, SourceOps

LEMMA SourceInitInv == SourceInit => SourceInv
<1> SUFFICES ASSUME SourceInit PROVE SourceInv
  OBVIOUS
<1> USE DEF SourceInit
<1>0. 0 \in 0 .. MaxMoves /\ 0 \in 0 .. MaxMishaps
  BY SourceFacts
<1>1. PICK w \in SourceWorlds : srow = w.rows /\ svec = w.vectors
  OBVIOUS
<1>2. /\ srow \in [SourceIds -> {r \in SourceRows : r.n = 0} \cup {Missing}]
      /\ svec \in [SourceIds -> {v \in Copies : v.n = 0} \cup {Missing}]
  BY <1>1, WorldsAssumption
<1>3. CountersFit
  <2>1. vouched \subseteq SourceTexts
    BY <1>2 DEF SourceRows
  <2> QED BY <1>0, <2>1 DEF CountersFit
<1>4. CallsFit
  <2>1. ASSUME NEW c \in Movers
        PROVE  move[c] = RestingMove /\ move[c] \in MoveRecs /\ MoveFits(move[c], vouched, moves)
    BY RestingFits, SourceFacts
  <2> QED BY <2>1 DEF CallsFit
<1>5. RowsFit
  BY <1>2 DEF RowsFit
<1>6. ReadsFit
  BY DEF ReadsFit
<1>7. WholeIsVouched
  BY DEF WholeIsVouched
<1> QED BY <1>3, <1>4, <1>5, <1>6, <1>7 DEF SourceInv

LEMMA RestsFit ==
    ASSUME SourceInv, NEW c \in Movers, move' = [move EXCEPT ![c] = RestingMove], UNCHANGED <<vouched, moves>>
    PROVE  CallsFit'
BY RestingFits DEF SourceInv, CountersFit, CallsFit

LEMMA GoesOnFit ==
    ASSUME SourceInv, NEW c \in Movers, NEW j \in MoveRecs, MoveFits(j, vouched, moves),
           move' = [move EXCEPT ![c] = j], UNCHANGED <<vouched, moves>>
    PROVE  CallsFit'
BY DEF SourceInv, CallsFit

LEMMA FreesFit ==
    ASSUME SourceInv, NEW c \in Movers, Frees(c)
    PROVE  /\ rowLock' \in [{"source", "helper"} \X SourceIds -> Movers \cup {Free}]
           /\ hostLock' \in Movers \cup {Free, "recovery"}
BY DEF SourceInv, CountersFit, Frees

\* A step that leaves the rows and the readers alone.
LEMMA RowsUntouched ==
    ASSUME SourceInv, UNCHANGED <<docKind, rowVars, readVars, vouched, moves>>, CallsFit',
           mishaps' = mishaps \/ Mishap,
           rowLock' \in [{"source", "helper"} \X SourceIds -> Movers \cup {Free}],
           hostLock' \in Movers \cup {Free, "recovery"}
    PROVE  SourceInv'
BY SourceFacts DEF rowVars, readVars, SourceInv, CountersFit, Mishap, RowsFit, ReadsFit,
   WholeIsVouched, Whole

\* A call that ends without having written.
LEMMA EndsUntouched ==
    ASSUME SourceInv, NEW c \in Movers, MoveEnds(c),
           UNCHANGED <<docKind, rowVars, readVars, vouched, moves>>, mishaps' = mishaps \/ Mishap
    PROVE  SourceInv'
BY RestsFit, FreesFit, RowsUntouched DEF MoveEnds

\* A call that goes on without having written.
LEMMA GoesOnUntouched ==
    ASSUME SourceInv, NEW c \in Movers, NEW j \in MoveRecs, MoveFits(j, vouched, moves), GoesOn(c, j),
           UNCHANGED <<docKind, rowVars, readVars, vouched, moves>>, mishaps' = mishaps \/ Mishap
    PROVE  SourceInv'
BY GoesOnFit, RowsUntouched DEF GoesOn, SourceInv, CountersFit

\* What CallMover makes of a job.
LEMMA NumberedJob ==
    ASSUME NEW op, NEW at, NEW id, NEW from, NEW text, NEW pack, NEW ids, NEW n, NEW j, NEW k, NEW e,
           j = [op |-> op, at |-> at, ids |-> e, id |-> id, from |-> from, text |-> text, pack |-> pack,
                state |-> Missing, dumped |-> Missing, n |-> 0, locks |-> 0],
           k = [j EXCEPT !.n = n, !.ids = ids]
    PROVE  k = [op |-> op, at |-> at, ids |-> ids, id |-> id, from |-> from, text |-> text, pack |-> pack,
                state |-> Missing, dumped |-> Missing, n |-> n, locks |-> 0]
OBVIOUS

LEMMA JobKinds ==
    ASSUME NEW j \in Jobs, vouched \subseteq SourceTexts
    PROVE  \/ \E i \in SourceIds, t \in SourceTexts, p \in SourcePacks :
                 j = [RestingMove EXCEPT !.op = "write", !.at = "identify", !.id = i, !.text = t, !.pack = p]
           \/ \E i \in SourceIds, i2 \in SourceIds, p \in SourcePacks :
                 j = [RestingMove EXCEPT !.op = "copy", !.at = "list", !.from = i, !.id = i2, !.pack = p]
           \/ \E i \in SourceIds : srow[i] # Missing /\
                 j = [RestingMove EXCEPT !.op = "rewrite", !.at = "state", !.id = i, !.pack = srow[i].pack]
           \/ \E l \in Deletions : j = [RestingMove EXCEPT !.op = "delete", !.at = "docs", !.ids = l]
<1> DEFINE NewTexts == vouched \cup {x \in SourceTexts : \A y \in SourceIds : srow[y] # Missing => srow[y].text # x}
           NewIds == {x \in SourceIds : srow[x] = Missing /\ svec[x] = Missing /\ snode[x] = Missing}
           Write(i, t, p) == [RestingMove EXCEPT !.op = "write", !.at = "identify", !.id = i, !.text = t, !.pack = p]
           Copy(i, i2, p) == [RestingMove EXCEPT !.op = "copy", !.at = "list", !.from = i, !.id = i2, !.pack = p]
<1>a. WriteJobs = {Write(i, t, p) : i \in SourceIds, t \in NewTexts, p \in SourcePacks}
  BY DEF WriteJobs
<1>b. CopyJobs = {Copy(i, i2, p) : i \in SourceIds, i2 \in NewIds, p \in SourcePacks}
  BY DEF CopyJobs
<1>c. NewTexts \subseteq SourceTexts /\ NewIds \subseteq SourceIds
  OBVIOUS
<1>1. CASE j \in WriteJobs
  <2> HIDE DEF Write, NewTexts
  <2>1. \E i \in SourceIds, t \in SourceTexts, p \in SourcePacks : j = Write(i, t, p)
    BY <1>1, <1>a, <1>c
  <2> USE DEF Write
  <2> QED BY <2>1, Zenon
<1>2. CASE j \in CopyJobs
  <2> HIDE DEF Copy, NewIds
  <2>1. \E i \in SourceIds, i2 \in SourceIds, p \in SourcePacks : j = Copy(i, i2, p)
    BY <1>2, <1>b, <1>c
  <2> USE DEF Copy
  <2> QED BY <2>1, Zenon
<1>3. CASE j \in RewriteJobs
  BY <1>3 DEF RewriteJobs
<1>4. CASE j \in DeleteJobs
  BY <1>4 DEF DeleteJobs
<1> QED BY <1>1, <1>2, <1>3, <1>4 DEF Jobs

\* What CallMover makes of a job fits the texts and the count it leaves.
LEMMA JobFits ==
    ASSUME SourceInv, NEW j \in Jobs, moves < MaxMoves,
           NEW k, NEW v
    PROVE  /\ k = [j EXCEPT !.n = moves + 1, !.ids = IF j.op = "delete" THEN j.ids ELSE <<j.id>>]
           /\ v = IF j.op = "write" THEN vouched \cup {j.text} ELSE vouched
           => k \in MoveRecs /\ MoveFits(k, v, moves + 1) /\ vouched \subseteq v /\ v \subseteq SourceTexts
<1>k. SUFFICES ASSUME k = [j EXCEPT !.n = moves + 1, !.ids = IF j.op = "delete" THEN j.ids ELSE <<j.id>>],
                      v = IF j.op = "write" THEN vouched \cup {j.text} ELSE vouched
               PROVE  k \in MoveRecs /\ MoveFits(k, v, moves + 1) /\ vouched \subseteq v /\ v \subseteq SourceTexts
  OBVIOUS
<1>n. moves \in Nat /\ moves + 1 \in 0 .. MaxMoves /\ moves + 1 \in Nat
  BY SourceFacts DEF SourceInv, CountersFit
<1>0. vouched \subseteq SourceTexts
  BY DEF SourceInv, CountersFit
<1>1. CASE \E i \in SourceIds, t \in SourceTexts, p \in SourcePacks :
             j = [RestingMove EXCEPT !.op = "write", !.at = "identify", !.id = i, !.text = t, !.pack = p]
  <2>p0. PICK i \in SourceIds, t \in SourceTexts, p \in SourcePacks :
             j = [RestingMove EXCEPT !.op = "write", !.at = "identify", !.id = i, !.text = t, !.pack = p]
    BY <1>1
  <2>0. j = [op |-> "write", at |-> "identify", ids |-> <<>>, id |-> i,
             from |-> Missing, text |-> t, pack |-> p, state |-> Missing, dumped |-> Missing,
             n |-> 0, locks |-> 0]
    BY <2>p0 DEF RestingMove
  <2>a. k = [j EXCEPT !.n = moves + 1, !.ids = <<i>>]
    BY <2>0, <1>k
  <2>1. k = [op |-> "write", at |-> "identify", ids |-> <<i>>, id |-> i,
             from |-> Missing, text |-> t, pack |-> p, state |-> Missing, dumped |-> Missing,
             n |-> moves + 1, locks |-> 0]
    BY <2>0, <2>a, NumberedJob
  <2>2. k \in MoveRecs
    BY <1>n, <2>1 DEF MoveRecs, SourceOps, SourceStages
  <2>3. v = vouched \cup {t}
    BY <2>0, <1>k
  <2>4. MoveFits(k, v, moves + 1)
    BY <1>n, <2>1, <2>3, SourceFacts DEF MoveFits
  <2>5. v \subseteq SourceTexts /\ vouched \subseteq v
    BY <2>3 DEF SourceInv, CountersFit
  <2> QED BY <2>2, <2>4, <2>5
<1>2. CASE \E i \in SourceIds, i2 \in SourceIds, p \in SourcePacks :
             j = [RestingMove EXCEPT !.op = "copy", !.at = "list", !.from = i, !.id = i2, !.pack = p]
  <2>p0. PICK i \in SourceIds, i2 \in SourceIds, p \in SourcePacks :
             j = [RestingMove EXCEPT !.op = "copy", !.at = "list", !.from = i, !.id = i2, !.pack = p]
    BY <1>2
  <2>0. j = [op |-> "copy", at |-> "list", ids |-> <<>>, id |-> i2,
             from |-> i, text |-> Missing, pack |-> p, state |-> Missing, dumped |-> Missing,
             n |-> 0, locks |-> 0]
    BY <2>p0 DEF RestingMove
  <2>a. k = [j EXCEPT !.n = moves + 1, !.ids = <<i2>>]
    BY <2>0, <1>k
  <2>1. k = [op |-> "copy", at |-> "list", ids |-> <<i2>>, id |-> i2,
             from |-> i, text |-> Missing, pack |-> p, state |-> Missing, dumped |-> Missing,
             n |-> moves + 1, locks |-> 0]
    BY <2>0, <2>a, NumberedJob
  <2>2. k \in MoveRecs
    BY <1>n, <2>1 DEF MoveRecs, SourceOps, SourceStages
  <2>3. v = vouched
    BY <2>0, <1>k
  <2>4. MoveFits(k, v, moves + 1)
    BY <1>n, <2>1, <2>3, SourceFacts DEF MoveFits
  <2> QED BY <2>2, <2>3, <2>4 DEF SourceInv, CountersFit
<1>3. CASE \E i \in SourceIds : srow[i] # Missing /\
             j = [RestingMove EXCEPT !.op = "rewrite", !.at = "state", !.id = i, !.pack = srow[i].pack]
  <2>p0. PICK i \in SourceIds : srow[i] # Missing /\
             j = [RestingMove EXCEPT !.op = "rewrite", !.at = "state", !.id = i, !.pack = srow[i].pack]
    BY <1>3
  <2>0. j = [op |-> "rewrite", at |-> "state", ids |-> <<>>, id |-> i,
             from |-> Missing, text |-> Missing, pack |-> srow[i].pack, state |-> Missing, dumped |-> Missing,
             n |-> 0, locks |-> 0]
    BY <2>p0 DEF RestingMove
  <2>a. k = [j EXCEPT !.n = moves + 1, !.ids = <<i>>]
    BY <2>0, <1>k
  <2>1. k = [op |-> "rewrite", at |-> "state", ids |-> <<i>>, id |-> i,
             from |-> Missing, text |-> Missing, pack |-> srow[i].pack, state |-> Missing, dumped |-> Missing,
             n |-> moves + 1, locks |-> 0]
    BY <2>0, <2>a, NumberedJob
  <2>p. srow[i].pack \in SourcePacks
    BY <2>p0 DEF SourceInv, RowsFit, SourceRows
  <2>2. k \in MoveRecs
    BY <1>n, <2>1, <2>p DEF MoveRecs, SourceOps, SourceStages
  <2>3. v = vouched
    BY <2>0, <1>k
  <2>4. MoveFits(k, v, moves + 1)
    BY <1>n, <2>1, <2>3, <2>p, SourceFacts DEF MoveFits
  <2> QED BY <2>2, <2>3, <2>4 DEF SourceInv, CountersFit
<1>4. CASE \E l \in Deletions : j = [RestingMove EXCEPT !.op = "delete", !.at = "docs", !.ids = l]
  <2>p0. PICK l \in Deletions : j = [RestingMove EXCEPT !.op = "delete", !.at = "docs", !.ids = l]
    BY <1>4
  <2>0. j = [op |-> "delete", at |-> "docs", ids |-> l, id |-> Missing,
             from |-> Missing, text |-> Missing, pack |-> Missing, state |-> Missing, dumped |-> Missing,
             n |-> 0, locks |-> 0]
    BY <2>p0 DEF RestingMove
  <2>a. k = [j EXCEPT !.n = moves + 1, !.ids = l]
    BY <2>0, <1>k
  <2>1. k = [op |-> "delete", at |-> "docs", ids |-> l, id |-> Missing,
             from |-> Missing, text |-> Missing, pack |-> Missing, state |-> Missing, dumped |-> Missing,
             n |-> moves + 1, locks |-> 0]
    BY <2>0, <2>a, NumberedJob
  <2>p. l \in Seq(SourceIds)
    BY SourceAssumption
  <2>2. k \in MoveRecs
    BY <1>n, <2>1, <2>p DEF MoveRecs, SourceOps, SourceStages
  <2>3. v = vouched
    BY <2>0, <1>k
  <2>4. MoveFits(k, v, moves + 1)
    BY <1>n, <2>1, <2>3, SourceFacts DEF MoveFits
  <2> QED BY <2>2, <2>3, <2>4 DEF SourceInv, CountersFit
<1>5. \/ \E i \in SourceIds, t \in SourceTexts, p \in SourcePacks :
            j = [RestingMove EXCEPT !.op = "write", !.at = "identify", !.id = i, !.text = t, !.pack = p]
      \/ \E i \in SourceIds, i2 \in SourceIds, p \in SourcePacks :
            j = [RestingMove EXCEPT !.op = "copy", !.at = "list", !.from = i, !.id = i2, !.pack = p]
      \/ \E i \in SourceIds : srow[i] # Missing /\
            j = [RestingMove EXCEPT !.op = "rewrite", !.at = "state", !.id = i, !.pack = srow[i].pack]
      \/ \E l \in Deletions : j = [RestingMove EXCEPT !.op = "delete", !.at = "docs", !.ids = l]
  BY <1>0, JobKinds
<1> QED BY <1>1, <1>2, <1>3, <1>4, <1>5

LEMMA CallMoverFits ==
    ASSUME SourceInv, NEW c \in Movers, NEW j \in Jobs, CallMover(c, j)
    PROVE  SourceInv'
<1> DEFINE k == [j EXCEPT !.n = moves + 1, !.ids = IF j.op = "delete" THEN j.ids ELSE <<j.id>>]
<1>0. /\ move' = [move EXCEPT ![c] = k] /\ moves < MaxMoves /\ moves' = moves + 1
      /\ hostLock' = IF docKind = "sqlite" THEN c ELSE hostLock
      /\ vouched' = IF j.op = "write" THEN vouched \cup {j.text} ELSE vouched
      /\ UNCHANGED <<docKind, rowVars, rowLock, readVars, mishaps>>
  BY DEF CallMover
<1>n. moves \in Nat /\ moves + 1 \in 0 .. MaxMoves /\ moves + 1 \in Nat
  BY <1>0, SourceFacts DEF SourceInv, CountersFit
<1>5. k \in MoveRecs /\ MoveFits(k, vouched', moves') /\ vouched \subseteq vouched' /\ vouched' \subseteq SourceTexts
  BY <1>0, JobFits
<1> HIDE DEF k
<1>6. CallsFit'
  BY <1>0, <1>n, <1>5, ActiveMoves, FitsLonger DEF SourceInv, CallsFit
<1>7. CountersFit'
  BY <1>0, <1>n, <1>5 DEF SourceInv, CountersFit
<1>8. RowsFit'
  BY <1>0, <1>n DEF SourceInv, RowsFit, rowVars, SourceRows, Copies
<1>9. ReadsFit' /\ WholeIsVouched'
  BY <1>0, <1>5 DEF SourceInv, ReadsFit, WholeIsVouched, Whole, rowVars, readVars
<1> QED BY <1>6, <1>7, <1>8, <1>9 DEF SourceInv

LEMMA StateOfFits ==
    ASSUME SourceInv, NEW i \in SourceIds, StateOf(i) # Missing
    PROVE  /\ srow[i] # Missing /\ srow[i] \in SourceRows
           /\ StateOf(i) = [text |-> srow[i].text, complete |-> Whole(srow[i])]
           /\ StateOf(i) \in SourceStates
           /\ StateOf(i).complete => StateOf(i).text \in vouched
<1>1. /\ srow[i] # Missing /\ srow[i] \in SourceRows
      /\ StateOf(i) = [text |-> srow[i].text, complete |-> Whole(srow[i])]
  BY DEF StateOf, SourceInv, RowsFit
<1>2. Whole(srow[i]) \in BOOLEAN /\ srow[i].text \in SourceTexts
  BY <1>1 DEF Whole, SourceRows
<1>3. Whole(srow[i]) => srow[i].text \in vouched
  BY <1>1 DEF SourceInv, WholeIsVouched
<1> HIDE DEF Whole
<1> QED BY <1>1, <1>2, <1>3 DEF SourceStates

LEMMA IdentifyFits ==
    ASSUME SourceInv, NEW c \in Movers, Identify(c)
    PROVE  SourceInv'
<1> DEFINE j == move[c]
<1>0. j.at = "identify" /\ UNCHANGED <<docKind, rowVars, readVars, vouched, moves, mishaps>>
  BY DEF Identify
<1>1. CASE MoveEnds(c)
  BY <1>0, <1>1, EndsUntouched
<1>2. CASE GoesOn(c, [j EXCEPT !.at = IF j.op = "write" THEN "graph" ELSE "docs"])
  <2>1. j \in MoveRecs /\ MoveFits(j, vouched, moves)
    BY ActiveMoves
  <2> DEFINE at == IF j.op = "write" THEN "graph" ELSE "docs"
             k == [j EXCEPT !.at = at]
  <2>2. k \in MoveRecs
    BY <2>1 DEF MoveRecs, SourceStages
  <2>3. MoveFits(k, vouched, moves)
    BY <1>0, <2>1 DEF MoveFits, MoveRecs, SourceOps, RestingMove
  <2> HIDE DEF k, at
  <2>4. GoesOn(c, k)
    BY <1>2 DEF k, at
  <2> QED BY <1>0, <2>2, <2>3, <2>4, GoesOnUntouched
<1> QED BY <1>1, <1>2 DEF Identify

LEMMA ListSourceFits ==
    ASSUME SourceInv, NEW c \in Movers, ListSource(c)
    PROVE  SourceInv'
<1> DEFINE j == move[c]
<1>0. j.at = "list" /\ UNCHANGED <<docKind, rowVars, readVars, vouched, moves, mishaps>>
  BY DEF ListSource
<1>1. CASE MoveEnds(c)
  BY <1>0, <1>1, EndsUntouched
<1>2. CASE srow[j.from] # Missing /\ GoesOn(c, [j EXCEPT !.at = "first", !.text = srow[j.from].text, !.dumped = svec[j.from]])
  <2>1. j \in MoveRecs /\ MoveFits(j, vouched, moves)
    BY ActiveMoves
  <2>2. j.op = "copy" /\ j.from \in SourceIds
    BY <1>0, <2>1 DEF MoveFits, MoveRecs, SourceOps, RestingMove
  <2>3. srow[j.from].text \in SourceTexts /\ svec[j.from] \in Copies \cup {Missing}
    BY <1>2, <2>2 DEF SourceInv, RowsFit, SourceRows
  <2> DEFINE k == [j EXCEPT !.at = "first", !.text = srow[j.from].text, !.dumped = svec[j.from]]
  <2>4. k \in MoveRecs
    BY <2>1, <2>3 DEF MoveRecs, SourceStages
  <2>5. MoveFits(k, vouched, moves)
    BY <1>0, <2>1, <2>2, <2>3 DEF MoveFits, MoveRecs
  <2> HIDE DEF k
  <2>6. GoesOn(c, k)
    BY <1>2 DEF k
  <2> QED BY <1>0, <2>4, <2>5, <2>6, GoesOnUntouched
<1> QED BY <1>1, <1>2 DEF ListSource

LEMMA FirstStateFits ==
    ASSUME SourceInv, NEW c \in Movers, FirstState(c)
    PROVE  SourceInv'
<1> DEFINE j == move[c]
           i == IF j.op = "copy" THEN j.from ELSE j.id
           at == IF j.op = "copy" THEN "final" ELSE IF docKind = "mongo" THEN "again" ELSE "docs"
<1>0. /\ j.at = "first" \/ (j.at = "state" /\ j.op = "rewrite")
      /\ UNCHANGED <<docKind, rowVars, readVars, vouched, moves, mishaps>>
  BY DEF FirstState
<1>1. CASE MoveEnds(c)
  BY <1>0, <1>1, EndsUntouched
<1>2. CASE StateOf(i) # Missing /\ GoesOn(c, [j EXCEPT !.state = StateOf(i), !.at = at])
  <2>1. j \in MoveRecs /\ MoveFits(j, vouched, moves)
    BY ActiveMoves
  <2>2. j.op \in {"copy", "rewrite"} /\ i \in SourceIds
    BY <1>0, <2>1 DEF MoveFits, MoveRecs, SourceOps, RestingMove
  <2>a. at \in SourceStages /\ (j.op = "copy" => at = "final") /\ (j.op = "rewrite" => at \in {"again", "docs"})
    BY DEF SourceStages
  <2> HIDE DEF i, at
  <2> DEFINE s == StateOf(i)
             k == [j EXCEPT !.state = s, !.at = at]
  <2>3. s \in SourceStates /\ (s.complete => s.text \in vouched)
    BY <1>2, <2>2, StateOfFits
  <2> HIDE DEF s
  <2>4. k \in MoveRecs
    BY <2>1, <2>3, <2>a DEF MoveRecs
  <2>5. /\ k.at = at /\ k.state = s /\ k.op = j.op /\ k.n = j.n /\ k.ids = j.ids /\ k.id = j.id /\ k.pack = j.pack
        /\ k.from = j.from /\ k.text = j.text /\ k.dumped = j.dumped /\ k.locks = j.locks
    BY <2>1 DEF MoveRecs
  <2> HIDE DEF k
  <2>6. MoveFits(k, vouched, moves)
    BY <1>0, <2>1, <2>2, <2>3, <2>a, <2>5 DEF MoveFits
  <2>7. GoesOn(c, k)
    BY <1>2 DEF k, s
  <2> QED BY <1>0, <2>4, <2>6, <2>7, GoesOnUntouched
<1> QED BY <1>1, <1>2 DEF FirstState

LEMMA FinalStateFits ==
    ASSUME SourceInv, NEW c \in Movers, FinalState(c)
    PROVE  SourceInv'
<1> DEFINE j == move[c]
<1>0. j.at = "final" /\ UNCHANGED <<docKind, rowVars, readVars, vouched, moves, mishaps>>
  BY DEF FinalState
<1>1. CASE MoveEnds(c)
  BY <1>0, <1>1, EndsUntouched
<1>2. CASE GoesOn(c, [j EXCEPT !.at = "identify"])
  <2>1. j \in MoveRecs /\ MoveFits(j, vouched, moves)
    BY ActiveMoves
  <2> DEFINE k == [j EXCEPT !.at = "identify"]
  <2>2. k \in MoveRecs
    BY <2>1 DEF MoveRecs, SourceStages
  <2>3. MoveFits(k, vouched, moves)
    BY <1>0, <2>1 DEF MoveFits, MoveRecs, SourceOps, RestingMove
  <2> HIDE DEF k
  <2>4. GoesOn(c, k)
    BY <1>2 DEF k
  <2> QED BY <1>0, <2>2, <2>3, <2>4, GoesOnUntouched
<1> QED BY <1>1, <1>2 DEF FinalState

LEMMA RereadStateFits ==
    ASSUME SourceInv, NEW c \in Movers, RereadState(c)
    PROVE  SourceInv'
<1> DEFINE j == move[c]
<1>0. j.at = "again" /\ UNCHANGED <<docKind, rowVars, readVars, vouched, moves, mishaps>>
  BY DEF RereadState
<1>1. CASE MoveEnds(c)
  BY <1>0, <1>1, EndsUntouched
<1>2. CASE StateOf(j.id) = j.state /\ GoesOn(c, [j EXCEPT !.at = "docs", !.dumped = srow[j.id].helper])
  <2>1. j \in MoveRecs /\ MoveFits(j, vouched, moves)
    BY ActiveMoves
  <2>2. j.op = "rewrite" /\ j.id \in SourceIds /\ j.state \in SourceStates
    BY <1>0, <2>1 DEF MoveFits, MoveRecs, SourceOps, RestingMove
  <2>3. srow[j.id].helper \in RowHelpers
    BY <1>2, <2>2, StateOfFits, SourceFacts DEF SourceRows, RowHelpers
  <2> DEFINE k == [j EXCEPT !.at = "docs", !.dumped = srow[j.id].helper]
  <2>4. k \in MoveRecs
    BY <2>1, <2>3 DEF MoveRecs, SourceStages
  <2>5. MoveFits(k, vouched, moves)
    BY <1>0, <2>1, <2>2, <2>3 DEF MoveFits, MoveRecs
  <2> HIDE DEF k
  <2>6. GoesOn(c, k)
    BY <1>2 DEF k
  <2> QED BY <1>0, <2>4, <2>5, <2>6, GoesOnUntouched
<1> QED BY <1>1, <1>2 DEF RereadState

\* A copy of a row, as a caller writes it.
LEMMA CopyFits ==
    ASSUME SourceInv, NEW c \in Movers, move[c].pack \in SourcePacks, NEW t \in SourceTexts
    PROVE  /\ [text |-> t, pack |-> move[c].pack, n |-> move[c].n] \in Copies
           /\ move[c].n <= moves
BY ActiveMoves DEF MoveRecs, MoveFits, Copies

LEMMA LegFits ==
    ASSUME SourceInv, NEW i \in SourceIds, NEW r \in Copies, r.n <= moves,
           \/ snode' = [snode EXCEPT ![i] = r] /\ svec' = svec
           \/ svec' = [svec EXCEPT ![i] = r] /\ snode' = snode,
           UNCHANGED <<docKind, srow, readVars, vouched, moves>>, CallsFit',
           mishaps' = mishaps \/ Mishap,
           rowLock' \in [{"source", "helper"} \X SourceIds -> Movers \cup {Free}],
           hostLock' \in Movers \cup {Free, "recovery"}
    PROVE  SourceInv'
BY SourceFacts DEF SourceInv, CountersFit, Mishap, RowsFit, ReadsFit, WholeIsVouched, Whole,
   readVars

LEMMA GraphLegFits ==
    ASSUME SourceInv, NEW c \in Movers, GraphLeg(c)
    PROVE  SourceInv'
<1> DEFINE j == move[c]
           k == [j EXCEPT !.at = "docs"]
           r == [text |-> j.text, pack |-> j.pack, n |-> j.n]
<1>0. j.at = "graph" /\ UNCHANGED <<docKind, srow, svec, readVars, recoverVars, vouched, moves>>
  BY DEF GraphLeg
<1>1. j \in MoveRecs /\ MoveFits(j, vouched, moves)
  BY ActiveMoves
<1>2. j.op = "write" /\ j.id \in SourceIds /\ j.pack \in SourcePacks /\ j.text \in SourceTexts
  BY <1>0, <1>1 DEF MoveFits, MoveRecs, SourceOps, RestingMove, SourceInv, CountersFit
<1>3. k \in MoveRecs
  BY <1>1 DEF MoveRecs, SourceStages
<1>4. MoveFits(k, vouched, moves)
  BY <1>0, <1>1, <1>2 DEF MoveFits, MoveRecs
<1>5. r \in Copies /\ r.n <= moves
  BY <1>2, CopyFits
<1>6. CASE snode' = [snode EXCEPT ![j.id] = r] /\ GoesOn(c, k) /\ mishaps' = mishaps
  <2> HIDE DEF k, r
  <2>1. CallsFit'
    BY <1>0, <1>3, <1>4, <1>6, GoesOnFit DEF GoesOn
  <2>2. /\ rowLock' \in [{"source", "helper"} \X SourceIds -> Movers \cup {Free}]
        /\ hostLock' \in Movers \cup {Free, "recovery"}
    BY <1>6 DEF GoesOn, SourceInv, CountersFit
  <2> QED BY <1>0, <1>2, <1>5, <1>6, <2>1, <2>2, LegFits
<1>7. CASE GoesOn(c, k) /\ UNCHANGED <<snode, mishaps>>
  <2> HIDE DEF k
  <2> QED BY <1>0, <1>3, <1>4, <1>7, GoesOnUntouched DEF rowVars
<1>8. CASE MoveEnds(c) /\ snode' = snode /\ (mishaps' = mishaps \/ Mishap)
  BY <1>0, <1>8, EndsUntouched DEF rowVars
<1> QED BY <1>6, <1>7, <1>8 DEF GraphLeg

LEMMA LockRowFits ==
    ASSUME SourceInv, NEW c \in Movers, LockRow(c)
    PROVE  SourceInv'
<1> DEFINE j == move[c]
<1>0. j.at = "docs" /\ UNCHANGED <<docKind, rowVars, readVars, vouched, moves, mishaps>>
  BY DEF LockRow, NeedsLock
<1>a. j \in MoveRecs /\ MoveFits(j, vouched, moves)
  BY ActiveMoves
<1>b. ASSUME NEW l \in Nat
      PROVE  [j EXCEPT !.locks = l] \in MoveRecs /\ MoveFits([j EXCEPT !.locks = l], vouched, moves)
  <2> DEFINE k == [j EXCEPT !.locks = l]
  <2>1. k \in MoveRecs
    BY <1>a DEF MoveRecs
  <2>2. /\ k.at = j.at /\ k.state = j.state /\ k.op = j.op /\ k.n = j.n /\ k.ids = j.ids /\ k.id = j.id
        /\ k.pack = j.pack /\ k.from = j.from /\ k.text = j.text /\ k.dumped = j.dumped
    BY <1>a DEF MoveRecs
  <2>3. j.op # "none"
    BY <1>0, ActiveMoves DEF RestingMove
  <2> HIDE DEF k
  <2>4. MoveFits(k, vouched, moves)
    BY <1>0, <1>a, <2>2, <2>3 DEF MoveFits
  <2> QED BY <2>1, <2>4 DEF k
<1>c. j.locks + 1 \in Nat /\ j.locks + 2 \in Nat
  BY <1>a DEF MoveRecs
<1>1. CASE MoveEnds(c)
  BY <1>0, <1>1, EndsUntouched
<1>2. CASE GoesOn(c, [j EXCEPT !.locks = j.locks + 2])
  <2> DEFINE k == [j EXCEPT !.locks = j.locks + 2]
  <2>1. k \in MoveRecs /\ MoveFits(k, vouched, moves)
    BY <1>b, <1>c
  <2>2. GoesOn(c, k)
    BY <1>2
  <2> HIDE DEF k
  <2> QED BY <1>0, <2>1, <2>2, GoesOnUntouched
<1>3. CASE /\ move' = [move EXCEPT ![c].locks = @ + 1]
           /\ rowLock' = [rowLock EXCEPT ![NextLock(c)] = c] /\ hostLock' = hostLock
  <2> DEFINE k == [j EXCEPT !.locks = j.locks + 1]
  <2>1. k \in MoveRecs /\ MoveFits(k, vouched, moves)
    BY <1>b, <1>c
  <2>2. move' = [move EXCEPT ![c] = k]
    BY <1>3
  <2> HIDE DEF k
  <2>3. CallsFit'
    BY <1>0, <2>1, <2>2, GoesOnFit
  <2>4. /\ rowLock' \in [{"source", "helper"} \X SourceIds -> Movers \cup {Free}]
        /\ hostLock' \in Movers \cup {Free, "recovery"}
    BY <1>3 DEF SourceInv, CountersFit
  <2> QED BY <1>0, <2>3, <2>4, RowsUntouched
<1> QED BY <1>1, <1>2, <1>3 DEF LockRow

\* What a call leaves of the row of a source.
LEMMA RowAfterFits ==
    ASSUME SourceInv, NEW c \in Movers, move[c].at = "docs", NEW i \in SourceIds, i \in IdsOf(move[c].ids)
    PROVE  /\ RowAfter(move[c], i) \in SourceRows \cup {Missing}
           /\ RowAfter(move[c], i) # Missing =>
                 /\ RowAfter(move[c], i).n <= moves
                 /\ Whole(RowAfter(move[c], i)) => RowAfter(move[c], i).text \in vouched
           /\ move[c].op = "rewrite" /\ RowAfter(move[c], i) # srow[i] =>
                 /\ i = move[c].id /\ srow[i] # Missing /\ RowAfter(move[c], i) # Missing
                 /\ RowAfter(move[c], i).text = srow[i].text /\ RowAfter(move[c], i).n = srow[i].n
                 /\ Whole(RowAfter(move[c], i)) => Whole(srow[i])
<1> DEFINE j == move[c]
           r == RowAfter(j, i)
<1>1. j \in MoveRecs /\ MoveFits(j, vouched, moves) /\ j.op # "none"
  BY ActiveMoves DEF RestingMove
<1>2. j.op \in {"write", "copy", "rewrite"} => j.id = i
  BY <1>1 DEF MoveFits, IdsOf
<1>3. vouched \subseteq SourceTexts /\ j.n \in 0 .. MaxMoves /\ j.n <= moves
  BY <1>1 DEF SourceInv, CountersFit, MoveRecs, MoveFits
<1>4. CASE j.op = "write"
  <2>1. r = [text |-> j.text, pack |-> j.pack, helper |-> j.text, n |-> j.n]
    BY <1>4 DEF RowAfter
  <2>2. j.text \in vouched /\ j.pack \in SourcePacks
    BY <1>1, <1>4 DEF MoveFits
  <2> HIDE DEF r
  <2>3. r \in SourceRows /\ r.n <= moves /\ r.text \in vouched
    BY <1>3, <2>1, <2>2 DEF SourceRows
  <2> QED BY <1>4, <2>3 DEF r
<1>5. CASE j.op = "copy"
  <2>1. r = [text |-> j.text, pack |-> j.pack, helper |-> CopyHelper(j), n |-> j.n]
    BY <1>5 DEF RowAfter
  <2>2. j.text \in SourceTexts /\ j.pack \in SourcePacks /\ j.state \in SourceStates
        /\ (j.state.complete => j.state.text \in vouched)
    BY <1>1, <1>5 DEF MoveFits
  <2>3. /\ CopyHelper(j) \in {j.text, "unknown"}
        /\ CopyHelper(j) = j.text => j.text \in vouched
    BY <2>2, SourceFacts DEF CopyHelper
  <2> HIDE DEF r
  <2>4. r \in SourceRows /\ r.n <= moves /\ r.text = j.text /\ r.helper = CopyHelper(j)
    BY <1>3, <2>1, <2>2, <2>3 DEF SourceRows
  <2>5. Whole(r) => r.text \in vouched
    BY <2>2, <2>3, <2>4, SourceFacts DEF Whole
  <2> QED BY <1>5, <2>4, <2>5 DEF r
<1>6. CASE j.op = "rewrite"
  <2>1. r = Rewrite(j) /\ j.id = i /\ j.pack \in SourcePacks /\ j.state \in SourceStates
    BY <1>1, <1>2, <1>6 DEF RowAfter, MoveFits
  <2>2. CASE srow[i] = Missing
    BY <2>1, <2>2, <1>6 DEF Rewrite
  <2>3. CASE srow[i] # Missing
    <3>0. srow[i] \in SourceRows /\ srow[i].n <= moves /\ (Whole(srow[i]) => srow[i].text \in vouched)
      BY <2>3 DEF SourceInv, RowsFit, WholeIsVouched
    <3>1. CASE r = srow[i]
      BY <3>0, <3>1, <1>6
    <3>2. CASE r # srow[i] /\ docKind = "mongo"
      <4>1. r = [srow[i] EXCEPT !.pack = j.pack]
        BY <2>1, <2>3, <3>2 DEF Rewrite, MongoRewrite
      <4> HIDE DEF r
      <4>2. r \in SourceRows /\ r.n = srow[i].n /\ r.text = srow[i].text /\ r.helper = srow[i].helper
        BY <2>1, <3>0, <4>1 DEF SourceRows
      <4>3. Whole(r) <=> Whole(srow[i])
        BY <4>2 DEF Whole
      <4> QED BY <1>6, <2>1, <2>3, <3>0, <4>2, <4>3, SourceFacts DEF r
    <3>3. CASE r # srow[i] /\ docKind # "mongo"
      <4>1. /\ StateOf(i) = j.state
            /\ r = [srow[i] EXCEPT !.pack = j.pack, !.helper = IF j.state.complete THEN j.state.text ELSE "unknown"]
        BY <2>1, <2>3, <3>3 DEF Rewrite, SqlRewrite
      <4>2. StateOf(i) = [text |-> srow[i].text, complete |-> Whole(srow[i])]
        BY <2>3 DEF StateOf
      <4>3. /\ j.state.text = srow[i].text /\ j.state.complete = Whole(srow[i])
        BY <4>1, <4>2
      <4> DEFINE h == IF j.state.complete THEN j.state.text ELSE "unknown"
      <4>4. h \in RowHelpers /\ (~Whole(srow[i]) => h = "unknown")
        BY <3>0, <4>3 DEF RowHelpers, SourceRows
      <4>5. r = [srow[i] EXCEPT !.pack = j.pack, !.helper = h]
        BY <4>1
      <4> HIDE DEF r, h
      <4>6. r \in SourceRows /\ r.n = srow[i].n /\ r.text = srow[i].text /\ r.helper = h
        BY <2>1, <3>0, <4>4, <4>5 DEF SourceRows, RowHelpers
      <4>7. Whole(r) => Whole(srow[i])
        BY <4>6, <4>4, SourceFacts DEF SourceRows, Whole
      <4> QED BY <1>6, <2>1, <2>3, <3>0, <4>6, <4>7, SourceFacts DEF r
    <3> QED BY <3>1, <3>2, <3>3
  <2> QED BY <2>2, <2>3
<1>7. CASE j.op = "delete"
  BY <1>7 DEF RowAfter
<1> QED BY <1>1, <1>4, <1>5, <1>6, <1>7 DEF MoveRecs, SourceOps

LEMMA CommitSourceFits ==
    ASSUME SourceInv, NEW c \in Movers, CommitSource(c)
    PROVE  SourceInv'
<1> DEFINE j == move[c]
<1>0. /\ j.at = "docs"
      /\ srow' = [i \in SourceIds |-> IF i \in IdsOf(j.ids) THEN RowAfter(j, i) ELSE srow[i]]
      /\ rowLock' = [k \in DOMAIN rowLock |-> IF rowLock[k] = c THEN Free ELSE rowLock[k]]
      /\ UNCHANGED <<docKind, snode, svec, readVars, vouched, moves, mishaps>>
  BY DEF CommitSource
<1>1. j \in MoveRecs /\ MoveFits(j, vouched, moves)
  BY ActiveMoves
<1>2. CallsFit' /\ hostLock' \in Movers \cup {Free, "recovery"}
  <2>1. CASE j.op \in {"write", "copy"}
    <3> DEFINE k == [j EXCEPT !.at = "vector", !.locks = 0]
    <3>1. k \in MoveRecs
      BY <1>1 DEF MoveRecs, SourceStages
    <3>2. MoveFits(k, vouched, moves)
      BY <1>0, <1>1, <2>1 DEF MoveFits, MoveRecs
    <3>3. move' = [move EXCEPT ![c] = k] /\ hostLock' = hostLock
      BY <2>1, <1>1 DEF CommitSource, SourceInv, CallsFit
    <3> HIDE DEF k
    <3> QED BY <1>0, <3>1, <3>2, <3>3, GoesOnFit DEF SourceInv, CountersFit
  <2>2. CASE j.op \notin {"write", "copy"}
    BY <1>0, <2>2, RestsFit DEF CommitSource, SourceInv, CountersFit
  <2> QED BY <2>1, <2>2
<1>3. rowLock' \in [{"source", "helper"} \X SourceIds -> Movers \cup {Free}]
  BY <1>0 DEF SourceInv, CountersFit
<1>4. CountersFit'
  BY <1>0, <1>2, <1>3 DEF SourceInv, CountersFit
<1>5. ASSUME NEW i \in SourceIds
      PROVE  /\ srow'[i] \in SourceRows \cup {Missing}
             /\ srow'[i] # Missing => srow'[i].n <= moves /\ (Whole(srow'[i]) => srow'[i].text \in vouched)
  BY <1>0, RowAfterFits DEF Whole, SourceInv, RowsFit, WholeIsVouched
<1>6. RowsFit' /\ WholeIsVouched'
  BY <1>0, <1>5 DEF SourceInv, RowsFit, WholeIsVouched, Whole
<1>7. ReadsFit'
  BY <1>0 DEF SourceInv, ReadsFit, readVars
<1> QED BY <1>2, <1>4, <1>6, <1>7 DEF SourceInv

LEMMA VectorLegFits ==
    ASSUME SourceInv, NEW c \in Movers, VectorLeg(c)
    PROVE  SourceInv'
<1> DEFINE j == move[c]
           t == IF j.op = "write" THEN j.text ELSE j.dumped.text
           r == [text |-> t, pack |-> j.pack, n |-> j.n]
<1>0. /\ j.at = "vector" /\ MoveEnds(c)
      /\ UNCHANGED <<docKind, srow, snode, readVars, recoverVars, vouched, moves>>
  BY DEF VectorLeg
<1>1. j \in MoveRecs /\ MoveFits(j, vouched, moves)
  BY ActiveMoves
<1>2. CASE /\ j.op = "write" \/ j.dumped # Missing
           /\ svec' = [svec EXCEPT ![j.id] = r] /\ mishaps' = mishaps
  <2>1. j.op \in {"write", "copy"} /\ j.id \in SourceIds /\ j.pack \in SourcePacks
    BY <1>0, <1>1 DEF MoveFits, MoveRecs, SourceOps, RestingMove
  <2>2. t \in SourceTexts
    BY <1>0, <1>1, <1>2, <2>1 DEF MoveFits, SourceInv, CountersFit, Copies
  <2> HIDE DEF t
  <2>3. r \in Copies /\ r.n <= moves
    BY <2>1, <2>2, CopyFits
  <2> HIDE DEF r
  <2>4. CallsFit'
    BY <1>0, RestsFit DEF MoveEnds
  <2>5. /\ rowLock' \in [{"source", "helper"} \X SourceIds -> Movers \cup {Free}]
        /\ hostLock' \in Movers \cup {Free, "recovery"}
    BY <1>0, FreesFit DEF MoveEnds
  <2> QED BY <1>0, <1>2, <2>1, <2>3, <2>4, <2>5, LegFits
<1>3. CASE svec' = svec /\ (mishaps' = mishaps \/ Mishap)
  BY <1>0, <1>3, EndsUntouched DEF rowVars
<1> QED BY <1>2, <1>3 DEF VectorLeg

-----------------------------------------------------------------------------
(* The recovery of vectors, and the lock of a data directory.               *)

\* With SQLite one caller or one recovery moves at a time.
OneAtATime ==
    /\ docKind = "sqlite" => \A c \in Movers : move[c] # RestingMove => hostLock = c
    /\ recovery # Resting => docKind = "sqlite" /\ hostLock = "recovery"
    /\ manifest # Missing => docKind = "sqlite"

Restored(i) == i \in Recoverable /\ svec[i].text = srow[i].text

RecoveryFits ==
    /\ recovery \in [at : {"none", "check", "upsert"}, todo : SUBSET SourceIds, target : SourceIds \cup {Missing}]
    /\ recovery.at = "none" => recovery = Resting
    /\ recovery.at # "none" \/ recovered # {} => manifest # Missing
    /\ manifest # Missing => \E ids \in SUBSET SourceIds : manifest \in [ids -> Targets]
    /\ \A r \in recovered : /\ r.id \in DOMAIN manifest
                            /\ r.before = manifest[r.id].vector /\ r.after = manifest[r.id].source
    /\ recovery.at # "none" =>
          /\ recovery.todo \subseteq DOMAIN manifest
          /\ \A i \in DOMAIN manifest \ recovery.todo : Restored(i)
    /\ recovery.at = "upsert" =>
          LET i == recovery.target IN
          /\ i \in recovery.todo /\ i \in Recoverable
          /\ SourceDigest(i) = manifest[i].source /\ svec[i] = manifest[i].vector

RecoveryInv == OneAtATime /\ RecoveryFits

LEMMA RestingRecovery == Resting.at = "none" /\ Resting.todo = {} /\ Resting.target = Missing
BY DEF Resting

LEMMA RecoveryInitInv == SourceInit => RecoveryInv
BY RestingRecovery DEF SourceInit, RecoveryInv, OneAtATime, RecoveryFits, Resting

\* No caller is at work while a recovery is.
LEMMA CallersExclude ==
    ASSUME SourceInv, RecoveryInv, NEW c \in Movers, move[c] # RestingMove
    PROVE  recovery = Resting
BY SourceFacts DEF RecoveryInv, OneAtATime

LEMMA RestsWhileRecovered ==
    ASSUME SourceInv, RecoveryInv, NEW c \in Movers, hostLock \in {Free, "recovery"}, docKind = "sqlite"
    PROVE  move[c] = RestingMove
BY SourceFacts DEF RecoveryInv, OneAtATime

\* The rows may change while no recovery is at work.
LEMMA RecoveryIdle ==
    ASSUME RecoveryFits, recovery = Resting, UNCHANGED recoverVars
    PROVE  RecoveryFits'
BY RestingRecovery DEF RecoveryFits, recoverVars

LEMMA RecoveryStays ==
    ASSUME RecoveryFits, UNCHANGED <<srow, svec, recoverVars>>
    PROVE  RecoveryFits'
BY DEF RecoveryFits, recoverVars, Restored, Recoverable, SourceDigest

\* The lock as a caller's steps leave it.
LEMMA LockStays ==
    ASSUME SourceInv, OneAtATime, NEW c \in Movers, NEW j, move[c] # RestingMove,
           move' = [move EXCEPT ![c] = j], hostLock' = hostLock, UNCHANGED <<docKind, recoverVars>>
    PROVE  OneAtATime'
BY DEF OneAtATime, recoverVars, SourceInv, CallsFit

LEMMA LockFreed ==
    ASSUME SourceInv, OneAtATime, NEW c \in Movers,
           move' = [move EXCEPT ![c] = RestingMove], hostLock' = (IF hostLock = c THEN Free ELSE hostLock),
           UNCHANGED <<docKind, recoverVars>>
    PROVE  OneAtATime'
BY SourceFacts DEF OneAtATime, SourceInv, CallsFit, recoverVars

\* What a caller's step does to the lock and to the calls.
LEMMA MoverSteps ==
    ASSUME SourceInv, NEW c \in Movers, MoverStep(c)
    PROVE  /\ move[c] # RestingMove
           /\ UNCHANGED <<docKind, recoverVars, readVars, vouched, moves>>
           /\ \/ \E j : move' = [move EXCEPT ![c] = j] /\ hostLock' = hostLock
              \/ move' = [move EXCEPT ![c] = RestingMove] /\ hostLock' = (IF hostLock = c THEN Free ELSE hostLock)
<1>0. UNCHANGED <<docKind, recoverVars, readVars, vouched, moves>>
  BY DEF MoverStep, Identify, GraphLeg, ListSource, FirstState, FinalState, RereadState, LockRow, CommitSource,
         DocsFail, VectorLeg, MoverDies
<1>1. move[c] # RestingMove
  <2>1. move[c].at # "none" \/ move[c] # RestingMove
    BY DEF MoverStep, Identify, GraphLeg, ListSource, FirstState, FinalState, RereadState, LockRow, NeedsLock,
           CommitSource, DocsFail, VectorLeg, MoverDies
  <2> QED BY <2>1 DEF RestingMove
<1>2. MoveEnds(c) => move' = [move EXCEPT ![c] = RestingMove] /\ hostLock' = (IF hostLock = c THEN Free ELSE hostLock)
  BY DEF MoveEnds, Frees
<1>3. \A j : GoesOn(c, j) => move' = [move EXCEPT ![c] = j] /\ hostLock' = hostLock
  BY DEF GoesOn
<1>4. CASE CommitSource(c)
  BY <1>0, <1>1, <1>4 DEF SourceInv, CallsFit, CommitSource
<1>5. CASE LockRow(c)
  BY <1>0, <1>1, <1>2, <1>3, <1>5 DEF LockRow
<1>6. CASE ~CommitSource(c) /\ ~LockRow(c)
  <2>1. MoveEnds(c) \/ \E j : GoesOn(c, j)
    BY <1>6 DEF MoverStep, Identify, GraphLeg, ListSource, FirstState, FinalState, RereadState, DocsFail, VectorLeg, MoverDies
  <2> QED BY <1>0, <1>1, <1>2, <1>3, <2>1
<1> QED BY <1>4, <1>5, <1>6

LEMMA MoverKeepsRecovery ==
    ASSUME SourceInv, RecoveryInv, NEW c \in Movers, MoverStep(c)
    PROVE  RecoveryInv'
BY CallersExclude, MoverSteps, RecoveryIdle, LockStays, LockFreed DEF RecoveryInv

LEMMA CallKeepsRecovery ==
    ASSUME SourceInv, RecoveryInv, NEW c \in Movers, NEW j \in Jobs, CallMover(c, j)
    PROVE  RecoveryInv'
BY RecoveryStays, RestsWhileRecovered, SourceFacts DEF CallMover, SourceInv, CallsFit, RecoveryInv,
   rowVars, OneAtATime, recoverVars

LEMMA ReadersKeepRecovery ==
    ASSUME SourceInv, RecoveryInv,
           \/ \E i \in SourceIds : FindItem(i)
           \/ \E p \in SourcePacks : ProveItem(p)
           \/ \E l \in given : ReadRange(l)
    PROVE  RecoveryInv'
BY RecoveryStays DEF FindItem, ProveItem, ReadRange, RecoveryInv, rowVars, OneAtATime, recoverVars

LEMMA RecoveryTyped ==
    ASSUME SourceInv, RecoveryInv, NEW i \in Recoverable
    PROVE  /\ i \in SourceIds /\ srow[i] \in SourceRows /\ svec[i] \in Copies /\ svec[i].pack = srow[i].pack
           /\ srow[i] # Missing /\ svec[i] # Missing
           /\ SourceDigest(i) \in [text : SourceTexts, pack : SourcePacks]
           /\ srow[i].n <= moves
BY DEF Recoverable, SourceInv, RowsFit, SourceDigest, SourceRows

LEMMA PlanRecoverySafe ==
    ASSUME SourceInv, RecoveryInv, NEW ids \in SUBSET SourceIds, PlanRecovery(ids)
    PROVE  SourceInv' /\ RecoveryInv'
<1>0. /\ docKind = "sqlite" /\ manifest = Missing /\ ids \subseteq Recoverable
      /\ manifest' = [i \in ids |-> [source |-> SourceDigest(i), vector |-> svec[i], state |-> "planned"]]
      /\ UNCHANGED <<docKind, rowVars, move, rowLock, hostLock, readVars, recovery, recovered,
                   vouched, moves, mishaps>>
  BY DEF PlanRecovery
<1>1. recovery = Resting /\ recovered = {}
  BY <1>0 DEF RecoveryInv, RecoveryFits
<1>2. manifest' \in [ids -> Targets]
  BY <1>0, RecoveryTyped DEF Targets
<1>3. RecoveryFits'
  BY <1>0, <1>1, <1>2, RestingRecovery DEF RecoveryInv, RecoveryFits
<1>4. OneAtATime'
  BY <1>0 DEF RecoveryInv, OneAtATime
<1>5. SourceInv'
  BY <1>0 DEF SourceInv, CountersFit, CallsFit, RowsFit, ReadsFit, WholeIsVouched, Whole, rowVars, readVars
<1> QED BY <1>3, <1>4, <1>5 DEF RecoveryInv

\* What the recovery does to the lock alone.
LEMMA RecoveryLocks ==
    ASSUME SourceInv, hostLock' \in {hostLock, Free, "recovery"},
           UNCHANGED <<docKind, rowVars, move, rowLock, readVars, vouched, moves>>,
           mishaps' = mishaps \/ Mishap
    PROVE  SourceInv'
BY RowsUntouched DEF SourceInv, CallsFit, CountersFit

LEMMA ApplyRecoverySafe ==
    ASSUME SourceInv, RecoveryInv, ApplyRecovery
    PROVE  SourceInv' /\ RecoveryInv'
BY RecoveryLocks, RestsWhileRecovered DEF ApplyRecovery, Resting, RecoveryInv, RecoveryFits,
   OneAtATime

\* A recovery that ends, with whatever it has marked.
LEMMA RecoveryEnds ==
    ASSUME SourceInv, RecoveryInv, recovery # Resting, StopsRecovery,
           UNCHANGED <<docKind, rowVars, move, rowLock, readVars, manifest, recovered, vouched, moves>>,
           mishaps' = mishaps \/ Mishap
    PROVE  SourceInv' /\ RecoveryInv'
BY RecoveryLocks, RestingRecovery, RestsWhileRecovered DEF StopsRecovery, RecoveryInv, RecoveryFits,
   Resting, OneAtATime

\* A mark leaves the rest of the manifest as it was.
LEMMA MarkFits ==
    ASSUME NEW ids \in SUBSET SourceIds, manifest \in [ids -> Targets], NEW i \in ids,
           NEW state \in {"planned", "written", "verified"}, Marks(i, state)
    PROVE  /\ manifest' \in [ids -> Targets] /\ manifest' # Missing /\ DOMAIN manifest' = DOMAIN manifest
           /\ \A k \in ids : manifest'[k].source = manifest[k].source /\ manifest'[k].vector = manifest[k].vector
<1> DEFINE t == [manifest[i] EXCEPT !.state = state]
<1>1. t \in Targets /\ t.source = manifest[i].source /\ t.vector = manifest[i].vector
  BY DEF Targets
<1>2. manifest' = [manifest EXCEPT ![i] = t]
  BY DEF Marks
<1> HIDE DEF t
<1>3. manifest' \in [ids -> Targets]
  BY <1>1, <1>2
<1>4. Missing \notin [ids -> Targets]
  BY SourceAssumption
<1> QED BY <1>1, <1>2, <1>3, <1>4

LEMMA CheckTargetSafe ==
    ASSUME SourceInv, RecoveryInv, NEW i \in SourceIds, CheckTarget(i)
    PROVE  SourceInv' /\ RecoveryInv'
<1>0. /\ recovery.at = "check" /\ i \in recovery.todo
      /\ UNCHANGED <<docKind, rowVars, move, rowLock, readVars, recovered, vouched, moves, mishaps>>
  BY DEF CheckTarget
<1>r. recovery # Resting
  BY <1>0, RestingRecovery
<1>1. CASE StopsRecovery /\ UNCHANGED manifest
  BY <1>0, <1>1, <1>r, RecoveryEnds
<1>2. ASSUME NEW state \in {"written", "verified"}, i \in Recoverable, Marks(i, state), hostLock' = hostLock,
             recovery'.at \in {"check", "upsert"},
             \/ /\ recovery' = [recovery EXCEPT !.todo = @ \ {i}] /\ svec[i].text = srow[i].text
             \/ /\ recovery' = [recovery EXCEPT !.at = "upsert", !.target = i] /\ AsPlanned(i)
      PROVE  SourceInv' /\ RecoveryInv'
  <2>1. SourceInv'
    BY <1>0, <1>2, RecoveryLocks
  <2>2. PICK ids \in SUBSET SourceIds : manifest \in [ids -> Targets]
    BY <1>0 DEF RecoveryInv, RecoveryFits
  <2>3. i \in ids /\ recovery.todo \subseteq ids /\ ids = DOMAIN manifest /\ manifest # Missing
    BY <1>0, <2>2 DEF RecoveryInv, RecoveryFits
  <2>4. /\ manifest' \in [ids -> Targets] /\ manifest' # Missing /\ DOMAIN manifest' = ids
        /\ \A k \in ids : manifest'[k].source = manifest[k].source /\ manifest'[k].vector = manifest[k].vector
    BY <1>2, <2>2, <2>3, MarkFits
  <2>5. /\ recovery \in [at : {"none", "check", "upsert"}, todo : SUBSET SourceIds, target : SourceIds \cup {Missing}]
        /\ \A k \in ids \ recovery.todo : Restored(k)
        /\ \A r \in recovered : /\ r.id \in ids
                                /\ r.before = manifest[r.id].vector /\ r.after = manifest[r.id].source
    BY <1>0, <2>3 DEF RecoveryInv, RecoveryFits
  <2>6. \A k : Restored(k)' <=> Restored(k)
    BY <1>0 DEF Restored, Recoverable, rowVars
  <2>7. /\ recovery' \in [at : {"none", "check", "upsert"}, todo : SUBSET SourceIds, target : SourceIds \cup {Missing}]
        /\ recovery'.at # "none" /\ recovery'.todo \subseteq recovery.todo
        /\ recovery.todo \ recovery'.todo \subseteq {i}
        /\ recovery.todo # recovery'.todo => svec[i].text = srow[i].text
        /\ recovery'.at = "upsert" => recovery'.target = i /\ recovery'.todo = recovery.todo /\ AsPlanned(i)
    BY <1>0, <1>2, <2>5
  <2>8. \A k \in ids \ recovery'.todo : Restored(k)
    BY <1>2, <2>5, <2>7 DEF Restored
  <2>9. recovery'.at = "upsert" =>
           /\ i \in Recoverable' /\ SourceDigest(i)' = manifest'[i].source /\ svec'[i] = manifest'[i].vector
    BY <1>0, <1>2, <2>3, <2>4, <2>7 DEF AsPlanned, Recoverable, SourceDigest, rowVars
  <2>10. RecoveryFits'
    BY <1>0, <2>3, <2>4, <2>6, <2>7, <2>8, <2>5, <2>9 DEF RecoveryFits
  <2>11. OneAtATime'
    BY <1>0, <1>2, <1>r, <2>3 DEF RecoveryInv, OneAtATime
  <2> QED BY <2>1, <2>10, <2>11 DEF RecoveryInv
<1>3. CASE /\ i \in Recoverable /\ Verifies(i) /\ Marks(i, "verified")
           /\ recovery' = [recovery EXCEPT !.todo = @ \ {i}] /\ hostLock' = hostLock
  BY <1>3, <1>0, <1>2 DEF Verifies, RecoveryInv, RecoveryFits
<1>4. CASE /\ i \in Recoverable /\ AsPlanned(i) /\ Marks(i, "written")
           /\ recovery' = [recovery EXCEPT !.at = "upsert", !.target = i] /\ hostLock' = hostLock
  BY <1>0, <1>4, <1>2 DEF RecoveryInv, RecoveryFits
<1> QED BY <1>1, <1>3, <1>4 DEF CheckTarget

LEMMA RecoverVectorSafe ==
    ASSUME SourceInv, RecoveryInv, NEW i \in SourceIds, RecoverVector(i)
    PROVE  SourceInv' /\ RecoveryInv'
<1> DEFINE r == [text |-> srow[i].text, pack |-> srow[i].pack, n |-> srow[i].n]
           rest == recovery.todo \ {i}
           rec == [id |-> i, before |-> svec[i], after |-> SourceDigest(i)]
<1>0. /\ recovery.at = "upsert" /\ recovery.target = i /\ svec' = [svec EXCEPT ![i] = r]
      /\ recovered' = recovered \cup {rec}
      /\ Marks(i, "verified") /\ recovery' = [Resting EXCEPT !.at = "check", !.todo = rest]
      /\ UNCHANGED <<docKind, srow, snode, move, rowLock, hostLock, readVars, vouched, moves, mishaps>>
  BY DEF RecoverVector
<1>1. /\ i \in recovery.todo /\ i \in Recoverable
      /\ SourceDigest(i) = manifest[i].source /\ svec[i] = manifest[i].vector
  BY <1>0 DEF RecoveryInv, RecoveryFits
<1>2. r \in Copies /\ r.n <= moves
  BY <1>1, RecoveryTyped DEF SourceRows, Copies
<1>3. SourceInv'
  <2>1. CallsFit'
    BY <1>0 DEF SourceInv, CallsFit
  <2>2. /\ rowLock' \in [{"source", "helper"} \X SourceIds -> Movers \cup {Free}]
        /\ hostLock' \in Movers \cup {Free, "recovery"}
    BY <1>0 DEF SourceInv, CountersFit
  <2> HIDE DEF r
  <2> QED BY <1>0, <1>2, <2>1, <2>2, LegFits
<1>4. recovery # Resting
  BY <1>0, RestingRecovery
<1>5. PICK ids \in SUBSET SourceIds : manifest \in [ids -> Targets]
  BY <1>0 DEF RecoveryInv, RecoveryFits
<1>6. i \in ids /\ recovery.todo \subseteq ids /\ ids = DOMAIN manifest /\ manifest # Missing
  BY <1>0, <1>1, <1>5 DEF RecoveryInv, RecoveryFits
<1>7. /\ manifest' \in [ids -> Targets] /\ manifest' # Missing /\ DOMAIN manifest' = ids
      /\ \A k \in ids : manifest'[k].source = manifest[k].source /\ manifest'[k].vector = manifest[k].vector
  BY <1>0, <1>5, <1>6, MarkFits
<1>8. /\ recovery \in [at : {"none", "check", "upsert"}, todo : SUBSET SourceIds, target : SourceIds \cup {Missing}]
      /\ \A k \in ids \ recovery.todo : Restored(k)
      /\ \A q \in recovered : /\ q.id \in ids
                              /\ q.before = manifest[q.id].vector /\ q.after = manifest[q.id].source
  BY <1>0, <1>6 DEF RecoveryInv, RecoveryFits
<1>9. recovery' = [at |-> "check", todo |-> rest, target |-> Missing]
  BY <1>0 DEF Resting
<1>10. ASSUME NEW k \in ids \ rest
       PROVE  Restored(k)'
  <2>1. CASE k = i
    BY <1>0, <1>3, <1>1, <1>2, RecoveryTyped, SourceFacts, <2>1 DEF SourceInv, RowsFit, Restored,
       Recoverable
  <2>2. CASE k # i
    BY <1>8, <2>2, <1>0 DEF SourceInv, RowsFit, Restored, Recoverable
  <2> QED BY <2>1, <2>2
<1>11. \A q \in recovered' : /\ q.id \in DOMAIN manifest'
                             /\ q.before = manifest'[q.id].vector /\ q.after = manifest'[q.id].source
  <2>1. rec.id = i /\ rec.before = manifest[i].vector /\ rec.after = manifest[i].source
    BY <1>1
  <2> HIDE DEF rec
  <2> QED BY <1>0, <1>6, <1>7, <1>8, <2>1
<1> HIDE DEF r, rec
<1>12. RecoveryFits'
  <2>1. rest \subseteq ids /\ rest \in SUBSET SourceIds
    BY <1>6
  <2> HIDE DEF rest
  <2> QED BY <1>7, <1>9, <1>10, <1>11, <2>1 DEF RecoveryFits
<1>13. OneAtATime'
  BY <1>0, <1>4, <1>6 DEF RecoveryInv, OneAtATime
<1> QED BY <1>3, <1>12, <1>13 DEF RecoveryInv

LEMMA RecoveryStepSafe ==
    ASSUME SourceInv, RecoveryInv,
           \/ \E i \in SourceIds : CheckTarget(i) \/ RecoverVector(i)
           \/ \E ids \in SUBSET SourceIds : PlanRecovery(ids)
           \/ ApplyRecovery \/ FinishRecovery \/ RecoveryDies
    PROVE  SourceInv' /\ RecoveryInv'
BY RestingRecovery, RecoveryEnds, CheckTargetSafe, RecoverVectorSafe, PlanRecoverySafe,
   ApplyRecoverySafe DEF FinishRecovery, RecoveryDone, RecoveryDies

LEMMA ReadersFit ==
    ASSUME SourceInv,
           \/ \E i \in SourceIds : FindItem(i)
           \/ \E p \in SourcePacks : ProveItem(p)
           \/ \E l \in given : ReadRange(l)
    PROVE  SourceInv'
<1>1. UNCHANGED <<docKind, rowVars, move, rowLock, hostLock, vouched, moves, mishaps>>
  BY DEF FindItem, ProveItem, ReadRange
<1>2. CountersFit' /\ CallsFit' /\ RowsFit' /\ WholeIsVouched'
  BY <1>1 DEF SourceInv, CountersFit, CallsFit, RowsFit, WholeIsVouched, Whole, rowVars
<1>3. CASE \E i \in SourceIds : FindItem(i)
  BY <1>3, <1>2 DEF FindItem, SourceInv, RowsFit, Copies, ReadsFit
<1>4. CASE \E p \in SourcePacks : ProveItem(p)
  <2>1. PICK p \in SourcePacks : ProveItem(p)
    BY <1>4
  <2> DEFINE row == srow[item.id]
             l == [id |-> item.id, pack |-> row.pack, text |-> row.text]
  <2>2. /\ item # Missing /\ item' = Missing /\ UNCHANGED <<served, vouched>>
        /\ \/ given' = given
           \/ row # Missing /\ Whole(row) /\ given' = given \cup {l}
    BY <2>1 DEF ProveItem
  <2>3. item.id \in SourceIds
    BY <2>2 DEF SourceInv, ReadsFit
  <2>4. row # Missing /\ Whole(row) => l \in Locators /\ l.text \in vouched
    BY <2>3 DEF SourceInv, RowsFit, WholeIsVouched, SourceRows, Locators
  <2> HIDE DEF l
  <2>5. ReadsFit'
    BY <2>2, <2>4 DEF SourceInv, ReadsFit
  <2> QED BY <1>2, <2>5 DEF SourceInv
<1>5. CASE \E l \in given : ReadRange(l)
  <2>1. PICK l \in given : ReadRange(l)
    BY <1>5
  <2> DEFINE r == [locator |-> l, text |-> srow[l.id].text]
  <2>2. served' = served \cup {r} /\ UNCHANGED <<item, given, vouched>>
    BY <2>1 DEF ReadRange
  <2>3. r.text = r.locator.text
    BY <2>1 DEF ReadRange, Answerable
  <2> HIDE DEF r
  <2>4. ReadsFit'
    BY <2>2, <2>3 DEF SourceInv, ReadsFit
  <2> QED BY <1>2, <2>4 DEF SourceInv
<1> QED BY <1>3, <1>4, <1>5

LEMMA MoverFits ==
    ASSUME SourceInv, NEW c \in Movers, MoverStep(c)
    PROVE  SourceInv'
<1>1. ASSUME DocsFail(c) \/ MoverDies(c) PROVE SourceInv'
  BY <1>1, EndsUntouched DEF DocsFail, MoverDies
<1> QED BY <1>1, IdentifyFits, GraphLegFits, ListSourceFits, FirstStateFits, FinalStateFits, RereadStateFits,
           LockRowFits, CommitSourceFits, VectorLegFits DEF MoverStep

LEMMA SourceStutters ==
    ASSUME SourceInv, RecoveryInv, UNCHANGED sourceVars
    PROVE  SourceInv' /\ RecoveryInv'
<1> USE DEF sourceVars, rowVars, readVars, recoverVars
<1>1. CountersFit' /\ CallsFit' /\ RowsFit' /\ WholeIsVouched' /\ ReadsFit'
  BY DEF SourceInv, CountersFit, CallsFit, RowsFit, WholeIsVouched, Whole, ReadsFit
<1>2. RecoveryFits'
  BY RecoveryStays DEF RecoveryInv
<1>3. OneAtATime'
  BY DEF RecoveryInv, OneAtATime
<1> QED BY <1>1, <1>2, <1>3 DEF SourceInv, RecoveryInv

LEMMA SourceStepInv ==
    ASSUME SourceInv, RecoveryInv, [SourceNext]_sourceVars
    PROVE  SourceInv' /\ RecoveryInv'
BY CallMoverFits, CallKeepsRecovery, MoverFits, MoverKeepsRecovery, ReadersFit, ReadersKeepRecovery,
   RecoveryStepSafe, SourceStutters DEF SourceNext

-----------------------------------------------------------------------------
(* The legs of a source. *)

InOrder(i) ==
    /\ srow[i] # Missing /\ snode[i] # Missing => snode[i].n >= srow[i].n
    /\ svec[i] # Missing /\ srow[i] # Missing => srow[i].n >= svec[i].n

\* The one call at work is the last that began, and it has passed its legs.
LegsDone(j) ==
    j # RestingMove =>
        /\ j.n = moves
        /\ j.op = "write" /\ j.at = "docs" => snode[j.id] = Missing \/ snode[j.id].n = j.n
        /\ j.op = "copy" => snode[j.id] = Missing
        /\ j.at = "vector" => srow[j.id] # Missing /\ srow[j.id].n = j.n

LegsInv ==
    docKind = "sqlite" => (\A i \in SourceIds : InOrder(i)) /\ (\A c \in Movers : LegsDone(move[c]))

LEMMA LegsInitInv == SourceInit => LegsInv
BY WorldsAssumption DEF SourceInit, LegsDone, InOrder, LegsInv

LEMMA RowNumbers ==
    ASSUME SourceInv, NEW i \in SourceIds
    PROVE  /\ moves \in Nat
           /\ srow[i] # Missing => srow[i].n \in Nat /\ srow[i].n <= moves
           /\ snode[i] # Missing => snode[i].n \in Nat /\ snode[i].n <= moves
           /\ svec[i] # Missing => svec[i].n \in Nat /\ svec[i].n <= moves
BY SourceFacts DEF SourceInv, CountersFit, RowsFit, SourceRows, Copies

\* With SQLite the others rest while a caller moves.
LEMMA OthersRest ==
    ASSUME SourceInv, RecoveryInv, docKind = "sqlite", NEW c \in Movers, move[c] # RestingMove,
           NEW d \in Movers, d # c
    PROVE  move[d] = RestingMove
BY DEF RecoveryInv, OneAtATime

LEMMA CopyJobIsNew ==
    ASSUME NEW j \in Jobs, j.op = "copy"
    PROVE  snode[j.id] = Missing
<1> DEFINE NewTexts == vouched \cup {x \in SourceTexts : \A y \in SourceIds : srow[y] # Missing => srow[y].text # x}
           NewIds == {x \in SourceIds : srow[x] = Missing /\ svec[x] = Missing /\ snode[x] = Missing}
           Write(i, t, p) == [RestingMove EXCEPT !.op = "write", !.at = "identify", !.id = i, !.text = t, !.pack = p]
           Copy(i, i2, p) == [RestingMove EXCEPT !.op = "copy", !.at = "list", !.from = i, !.id = i2, !.pack = p]
<1>a. WriteJobs = {Write(i, t, p) : i \in SourceIds, t \in NewTexts, p \in SourcePacks}
  BY DEF WriteJobs
<1>b. CopyJobs = {Copy(i, i2, p) : i \in SourceIds, i2 \in NewIds, p \in SourcePacks}
  BY DEF CopyJobs
<1>c. \A i, t, p : Write(i, t, p).op = "write"
  BY DEF RestingMove
<1>d. \A i, i2, p : Copy(i, i2, p).id = i2
  BY DEF RestingMove
<1>e. \A i2 \in NewIds : snode[i2] = Missing
  OBVIOUS
<1>1. CASE j \in WriteJobs
  <2> HIDE DEF Write, NewTexts
  <2>1. j.op = "write"
    BY <1>1, <1>a, <1>c
  <2> QED BY <2>1
<1>2. CASE j \in CopyJobs
  <2> HIDE DEF Copy, NewIds
  <2> QED BY <1>2, <1>b, <1>d, <1>e
<1>3. CASE j \in RewriteJobs
  BY <1>3 DEF RewriteJobs, RestingMove
<1>4. CASE j \in DeleteJobs
  BY <1>4 DEF DeleteJobs, RestingMove
<1> QED BY <1>1, <1>2, <1>3, <1>4 DEF Jobs

LEMMA JobStages ==
    ASSUME NEW j \in Jobs, vouched \subseteq SourceTexts
    PROVE  j.at # "vector" /\ (j.at = "docs" => j.op = "delete")
<1>1. CASE \E i \in SourceIds, t \in SourceTexts, p \in SourcePacks :
             j = [RestingMove EXCEPT !.op = "write", !.at = "identify", !.id = i, !.text = t, !.pack = p]
  BY <1>1 DEF RestingMove
<1>2. CASE \E i \in SourceIds, i2 \in SourceIds, p \in SourcePacks :
             j = [RestingMove EXCEPT !.op = "copy", !.at = "list", !.from = i, !.id = i2, !.pack = p]
  BY <1>2 DEF RestingMove
<1>3. CASE \E i \in SourceIds : srow[i] # Missing /\
             j = [RestingMove EXCEPT !.op = "rewrite", !.at = "state", !.id = i, !.pack = srow[i].pack]
  BY <1>3 DEF RestingMove
<1>4. CASE \E l \in Deletions : j = [RestingMove EXCEPT !.op = "delete", !.at = "docs", !.ids = l]
  BY <1>4 DEF RestingMove
<1> QED BY <1>1, <1>2, <1>3, <1>4, JobKinds

LEMMA CallKeepsLegs ==
    ASSUME SourceInv, RecoveryInv, LegsInv, NEW c \in Movers, NEW j \in Jobs, CallMover(c, j)
    PROVE  LegsInv'
<1> DEFINE k == [j EXCEPT !.n = moves + 1, !.ids = IF j.op = "delete" THEN j.ids ELSE <<j.id>>]
<1>0. /\ move' = [move EXCEPT ![c] = k] /\ moves < MaxMoves /\ moves' = moves + 1
      /\ docKind = "sqlite" => hostLock = Free
      /\ vouched' = IF j.op = "write" THEN vouched \cup {j.text} ELSE vouched
      /\ UNCHANGED <<docKind, rowVars>>
  BY DEF CallMover
<1>1. CASE docKind = "sqlite"
  <2>1. \A d \in Movers : move[d] = RestingMove
    BY <1>0, <1>1, RestsWhileRecovered, SourceFacts
  <2>2. k \in MoveRecs /\ vouched \subseteq SourceTexts
    BY <1>0, JobFits DEF SourceInv, CountersFit
  <2>3. k.n = moves + 1 /\ k.op = j.op /\ k.at = j.at /\ k.id = j.id
    <3>1. DOMAIN k = DOMAIN j
      OBVIOUS
    <3>2. {"op", "at", "id", "n"} \subseteq DOMAIN k
      <4> HIDE DEF k
      <4> QED BY <2>2 DEF MoveRecs
    <3> QED BY <3>1, <3>2
  <2>4. k.at # "vector" /\ (k.at = "docs" => k.op # "write")
    BY <2>2, <2>3, JobStages
  <2> HIDE DEF k
  <2> QED BY <1>0, <1>1, <2>1, <2>2, <2>3, <2>4, CopyJobIsNew DEF LegsInv, LegsDone, InOrder, rowVars
<1>2. CASE docKind # "sqlite"
  BY <1>0, <1>2 DEF LegsInv
<1> QED BY <1>1, <1>2

\* A caller's step leaves the legs in order if its own call does.
LEMMA LegsFollow ==
    ASSUME SourceInv, RecoveryInv, LegsInv, NEW c \in Movers, move[c] # RestingMove, NEW k,
           move' = [move EXCEPT ![c] = k], docKind' = docKind,
           docKind = "sqlite" => LegsDone(k)' /\ \A i \in SourceIds : InOrder(i)'
    PROVE  LegsInv'
BY OthersRest DEF SourceInv, CallsFit, LegsDone, LegsInv

\* A call that ends without having written, or goes on to a stage that asks nothing.
LEMMA LegsUntouched ==
    ASSUME SourceInv, RecoveryInv, LegsInv, NEW c \in Movers, move[c] # RestingMove, NEW k,
           move' = [move EXCEPT ![c] = k], UNCHANGED <<docKind, rowVars, moves>>,
           \/ k = RestingMove
           \/ /\ k.n = move[c].n /\ k.op = move[c].op /\ k.id = move[c].id
              /\ k.at # "vector" /\ (k.at = "docs" /\ k.op = "write" =>
                                         move[c].at = "docs" \/ snode[k.id] = Missing)
    PROVE  LegsInv'
<1>1. docKind = "sqlite" => LegsDone(k)'
  BY DEF LegsInv, LegsDone, rowVars
<1>2. docKind = "sqlite" => \A i \in SourceIds : InOrder(i)'
  BY DEF LegsInv, InOrder, rowVars
<1> QED BY <1>1, <1>2, LegsFollow

LEMMA CallFields ==
    ASSUME SourceInv, NEW c \in Movers
    PROVE  {"n", "op", "id", "at", "text", "state", "dumped"} \subseteq DOMAIN move[c]
BY ActiveMoves DEF MoveRecs

LEMMA LegsKeepWhenCarried ==
    ASSUME SourceInv, RecoveryInv, LegsInv, NEW c \in Movers,
           \/ Identify(c) \/ ListSource(c) \/ FirstState(c) \/ FinalState(c) \/ RereadState(c)
           \/ LockRow(c) \/ DocsFail(c) \/ MoverDies(c)
    PROVE  LegsInv'
<1> DEFINE j == move[c]
<1>0. move[c] # RestingMove /\ UNCHANGED <<docKind, rowVars, moves>>
  BY MoverSteps DEF MoverStep, Identify, ListSource, FirstState, FinalState, RereadState, LockRow,
     DocsFail, MoverDies
<1>1. j \in MoveRecs /\ MoveFits(j, vouched, moves) /\ j.op # "none"
  BY <1>0, ActiveMoves
<1>2. CASE MoveEnds(c)
  BY <1>0, <1>2, LegsUntouched DEF MoveEnds
<1>3. CASE Identify(c) /\ ~MoveEnds(c)
  BY <1>3, CallFields, <1>0, LegsUntouched DEF Identify, GoesOn
<1>4. CASE ListSource(c) /\ ~MoveEnds(c)
  BY CallFields, <1>4, <1>0, LegsUntouched DEF ListSource, GoesOn
<1>5. CASE FirstState(c) /\ ~MoveEnds(c)
  BY CallFields, <1>5, <1>1, <1>0, LegsUntouched DEF FirstState, GoesOn, MoveFits
<1>6. CASE FinalState(c) /\ ~MoveEnds(c)
  BY CallFields, <1>6, <1>0, LegsUntouched DEF FinalState, GoesOn
<1>7. CASE RereadState(c) /\ ~MoveEnds(c)
  BY CallFields, <1>7, <1>1, <1>0, LegsUntouched DEF RereadState, GoesOn, MoveFits
<1>8. CASE LockRow(c) /\ ~MoveEnds(c)
  BY <1>8, <1>1, <1>0, LegsUntouched DEF LockRow, NeedsLock, GoesOn, MoveRecs
<1> QED BY <1>2, <1>3, <1>4, <1>5, <1>6, <1>7, <1>8 DEF DocsFail, MoverDies

LEMMA GraphKeepsLegs ==
    ASSUME SourceInv, RecoveryInv, LegsInv, NEW c \in Movers, GraphLeg(c)
    PROVE  LegsInv'
<1> DEFINE j == move[c]
<1>0. j.at = "graph" /\ j # RestingMove /\ UNCHANGED <<docKind, srow, svec, moves>>
  BY DEF GraphLeg, RestingMove
<1>1. j \in MoveRecs /\ MoveFits(j, vouched, moves)
  BY ActiveMoves
<1>2. j.op = "write" /\ j.id \in SourceIds
  BY <1>0, <1>1, ActiveMoves DEF MoveFits, MoveRecs, SourceOps
<1>3. PICK k : k = [j EXCEPT !.at = "docs"]
  OBVIOUS
<1>4. k.n = j.n /\ k.op = j.op /\ k.id = j.id /\ k.at = "docs"
  BY <1>3, CallFields
<1>5. CASE /\ snode' = [snode EXCEPT ![j.id] = [text |-> j.text, pack |-> j.pack, n |-> j.n]]
           /\ move' = [move EXCEPT ![c] = k]
  BY <1>2, <1>5, <1>0, RowNumbers, <1>4, LegsFollow DEF SourceInv, RowsFit, LegsInv, LegsDone,
     InOrder
<1>6. CASE snode' = snode /\ snode[j.id] = Missing /\ move' = [move EXCEPT ![c] = k]
  BY <1>0, <1>4, <1>6, LegsUntouched DEF rowVars
<1>7. CASE snode' = snode /\ MoveEnds(c)
  BY <1>0, <1>7, LegsUntouched DEF rowVars, MoveEnds
<1> QED BY <1>3, <1>5, <1>6, <1>7 DEF GraphLeg, GoesOn

LEMMA CommitKeepsLegs ==
    ASSUME SourceInv, RecoveryInv, LegsInv, NEW c \in Movers, CommitSource(c)
    PROVE  LegsInv'
<1> DEFINE j == move[c]
<1>0. /\ j.at = "docs" /\ j # RestingMove /\ UNCHANGED <<docKind, snode, svec, moves>>
      /\ srow' = [i \in SourceIds |-> IF i \in IdsOf(j.ids) THEN RowAfter(j, i) ELSE srow[i]]
  BY DEF CommitSource, RestingMove
<1>1. j \in MoveRecs /\ MoveFits(j, vouched, moves) /\ j.op # "none"
  BY <1>0, ActiveMoves
<1>2. docKind = "sqlite" => LegsDone(j) /\ \A i \in SourceIds : InOrder(i)
  BY DEF LegsInv
<1>3. CASE j.op \in {"write", "copy"}
  <2>1. PICK k : k = [j EXCEPT !.at = "vector", !.locks = 0]
    OBVIOUS
  <2>2. k.n = j.n /\ k.op = j.op /\ k.id = j.id /\ k.at = "vector"
    BY <2>1, CallFields
  <2>3. move' = [move EXCEPT ![c] = k]
    BY <1>3, <2>1 DEF CommitSource, SourceInv, CallsFit
  <2>4. j.ids = <<j.id>> /\ j.id \in SourceIds /\ IdsOf(j.ids) = {j.id}
    BY <1>1, <1>3 DEF MoveFits, IdsOf
  <2>5. srow'[j.id] = RowAfter(j, j.id) /\ \A i \in SourceIds \ {j.id} : srow'[i] = srow[i]
    BY <1>0, <2>4
  <2>6. RowAfter(j, j.id).n = j.n /\ RowAfter(j, j.id) # Missing
    <3>2. \E t, p, h : RowAfter(j, j.id) = [text |-> t, pack |-> p, helper |-> h, n |-> j.n]
      BY <1>3 DEF RowAfter
    <3>3. RowAfter(j, j.id) # Missing
      BY <1>1, SourceFacts, <1>0, <1>3 DEF RowAfter, MoveFits, MoveRecs, SourceInv, CountersFit,
         SourceRows, CopyHelper
    <3> QED BY <3>2, <3>3
  <2>7. docKind = "sqlite" => LegsDone(k)'
    BY <1>0, <1>2, <2>2, <2>4, <2>5, <2>6 DEF LegsDone
  <2>8. docKind = "sqlite" => \A i \in SourceIds : InOrder(i)'
    BY <1>0, <1>2, <1>3, <2>4, <2>5, <2>6, RowNumbers DEF LegsDone, InOrder
  <2> QED BY <1>0, <2>3, <2>7, <2>8, LegsFollow
<1>4. CASE j.op \in {"rewrite", "delete"}
  <2>1. move' = [move EXCEPT ![c] = RestingMove]
    BY <1>4 DEF CommitSource
  <2>2. \A i \in SourceIds : srow'[i] # Missing => srow[i] # Missing /\ srow'[i].n = srow[i].n
    BY <1>0, <1>4, RowAfterFits DEF RowAfter
  <2>3. docKind = "sqlite" => \A i \in SourceIds : InOrder(i)'
    BY <1>0, <1>2, <2>2 DEF InOrder
  <2>4. LegsDone(RestingMove)'
    BY DEF LegsDone
  <2> QED BY <1>0, <2>1, <2>3, <2>4, LegsFollow
<1> QED BY <1>1, <1>3, <1>4 DEF MoveRecs, SourceOps

LEMMA VectorKeepsLegs ==
    ASSUME SourceInv, RecoveryInv, LegsInv, NEW c \in Movers, VectorLeg(c)
    PROVE  LegsInv'
<1> DEFINE j == move[c]
<1>0. /\ j.at = "vector" /\ j # RestingMove /\ UNCHANGED <<docKind, srow, snode, moves>>
      /\ move' = [move EXCEPT ![c] = RestingMove]
  BY DEF VectorLeg, MoveEnds, RestingMove
<1>1. LegsDone(RestingMove)'
  BY DEF LegsDone
<1>2. CASE \E t : svec' = [svec EXCEPT ![j.id] = [text |-> t, pack |-> j.pack, n |-> j.n]]
  <2>0. j.id \in SourceIds
    BY <1>0, ActiveMoves DEF MoveFits, MoveRecs, SourceOps
  <2>1. svec'[j.id].n = j.n /\ \A i \in SourceIds \ {j.id} : svec'[i] = svec[i]
    BY <1>2, <2>0 DEF SourceInv, RowsFit
  <2>2. docKind = "sqlite" => srow[j.id].n = j.n /\ \A i \in SourceIds : InOrder(i)
    BY <1>0 DEF LegsInv, LegsDone
  <2>3. PICK i1 \in SourceIds : i1 = j.id
    BY <2>0
  <2>4. docKind = "sqlite" => InOrder(i1)'
    BY <2>1, <2>2, <2>3, RowNumbers, <1>0 DEF InOrder
  <2>5. docKind = "sqlite" => \A i \in SourceIds \ {i1} : InOrder(i)'
    BY <1>0, <2>1, <2>2, <2>3 DEF InOrder
  <2> QED BY <1>0, <1>1, <2>4, <2>5, LegsFollow
<1>3. CASE svec' = svec
  BY <1>0, <1>3, LegsUntouched DEF rowVars
<1> QED BY <1>2, <1>3 DEF VectorLeg

LEMMA RecoveryKeepsLegs ==
    ASSUME SourceInv, RecoveryInv, LegsInv,
           \/ \E i \in SourceIds : FindItem(i) \/ CheckTarget(i) \/ RecoverVector(i)
           \/ \E p \in SourcePacks : ProveItem(p)
           \/ \E l \in given : ReadRange(l)
           \/ \E ids \in SUBSET SourceIds : PlanRecovery(ids)
           \/ ApplyRecovery \/ FinishRecovery \/ RecoveryDies
           \/ UNCHANGED sourceVars
    PROVE  LegsInv'
<1>1. CASE \E i \in SourceIds : RecoverVector(i)
  <2>1. PICK i \in SourceIds : RecoverVector(i)
    BY <1>1
  <2>2. /\ recovery.at = "upsert" /\ recovery.target = i
        /\ svec' = [svec EXCEPT ![i] = [text |-> srow[i].text, pack |-> srow[i].pack, n |-> srow[i].n]]
        /\ UNCHANGED <<docKind, srow, snode, move, moves>>
    BY <2>1 DEF RecoverVector
  <2>3. svec'[i].n = srow[i].n /\ \A k \in SourceIds \ {i} : svec'[k] = svec[k]
    BY <2>2 DEF SourceInv, RowsFit
  <2>4. docKind = "sqlite" => InOrder(i)'
    BY <2>2, <2>3, RowNumbers DEF LegsInv, InOrder
  <2>5. docKind = "sqlite" => \A k \in SourceIds : InOrder(k)'
    BY <2>2, <2>3, <2>4 DEF LegsInv, InOrder
  <2> QED BY <2>2, <2>5 DEF LegsInv, LegsDone
<1>2. CASE UNCHANGED <<docKind, rowVars, move, moves>>
  BY <1>2 DEF LegsInv, LegsDone, InOrder, rowVars
<1> QED BY <1>1, <1>2 DEF FindItem, CheckTarget, ProveItem, ReadRange, PlanRecovery, ApplyRecovery, FinishRecovery,
           RecoveryDies, sourceVars

LEMMA LegsStepInv ==
    ASSUME SourceInv, RecoveryInv, LegsInv, [SourceNext]_sourceVars
    PROVE  LegsInv'
BY CallKeepsLegs, LegsKeepWhenCarried, GraphKeepsLegs, CommitKeepsLegs, VectorKeepsLegs,
   RecoveryKeepsLegs DEF MoverStep, SourceNext

-----------------------------------------------------------------------------
(* The row locks of PostgreSQL. *)

\* Whoever holds a row took it on the way to its commit.
Taken(j, k) == j.at = "docs" /\ \E m \in DOMAIN LocksOf(j) : m <= j.locks /\ LocksOf(j)[m] = k
LocksInv == \A k \in DOMAIN rowLock : \A c \in Movers : rowLock[k] = c => Taken(move[c], k)

\* The rank of a row: by its source, the source's row before the helper's.
KeyRank(k) == 2 * SourceRank[k[2]] + IF k[1] = "source" THEN 0 ELSE 1

LEMMA Halves ==
    ASSUME NEW p \in Nat, NEW q \in Nat, 0 < p, p < q
    PROVE  \/ (p + 1) \div 2 < (q + 1) \div 2
           \/ (p + 1) \div 2 = (q + 1) \div 2 /\ p % 2 = 1 /\ q % 2 = 0
OBVIOUS

LEMMA HalfIn ==
    ASSUME NEW n \in Nat, NEW p \in 1 .. 2 * n
    PROVE  (p + 1) \div 2 \in 1 .. n /\ p % 2 \in {0, 1}
OBVIOUS

\* Every transaction asks for its rows in ascending rank.
LEMMA LocksAscend ==
    ASSUME SourceInv, NEW c \in Movers, move[c].at = "docs"
    PROVE  /\ DOMAIN LocksOf(move[c]) = 1 .. Len(LocksOf(move[c]))
           /\ \A p \in DOMAIN LocksOf(move[c]) :
                 LocksOf(move[c])[p] \in {"source", "helper"} \X SourceIds /\ KeyRank(LocksOf(move[c])[p]) \in Nat
           /\ \A p, q \in DOMAIN LocksOf(move[c]) :
                 p < q => KeyRank(LocksOf(move[c])[p]) < KeyRank(LocksOf(move[c])[q])
<1> DEFINE j == move[c]
           s == j.ids
           ls == LocksOf(j)
           half(p) == (p + 1) \div 2
           name(p) == IF p % 2 = 1 THEN "source" ELSE "helper"
<1>1. s \in Seq(SourceIds) /\ Len(s) \in Nat /\ DOMAIN s = 1 .. Len(s)
  BY ActiveMoves DEF MoveRecs
<1>2. \A a, b \in DOMAIN s : a < b => SourceRank[s[a]] < SourceRank[s[b]]
  BY ActiveMoves, SourceAssumption DEF RestingMove, MoveRecs, SourceOps, MoveFits
<1>3. SourceRank \in [SourceIds -> Nat]
  BY SourceAssumption
<1> HIDE DEF s
<1>4. ASSUME NEW p \in 1 .. 2 * Len(s)
      PROVE  /\ half(p) \in DOMAIN s /\ s[half(p)] \in SourceIds
             /\ LockOrder(j.op)[2 - (p % 2)] = name(p)
  BY <1>1, HalfIn DEF LockOrder
<1>5. ls = [p \in 1 .. 2 * Len(s) |-> <<LockOrder(j.op)[2 - (p % 2)], s[half(p)]>>]
  BY DEF LocksOf, s
<1>6. ls = [p \in 1 .. 2 * Len(s) |-> <<name(p), s[half(p)]>>]
  BY <1>4, <1>5
<1>7. DOMAIN ls = 1 .. 2 * Len(s) /\ Len(ls) = 2 * Len(s)
  <2>1. 2 * Len(s) \in Nat
    BY <1>1
  <2>2. DOMAIN ls = 1 .. 2 * Len(s)
    BY <1>6
  <2>3. ls \in Seq({"source", "helper"} \X SourceIds)
    <3>1. \A p \in 1 .. 2 * Len(s) : <<name(p), s[half(p)]>> \in {"source", "helper"} \X SourceIds
      BY <1>4
    <3> HIDE DEF name, half
    <3>2. ls \in [1 .. 2 * Len(s) -> {"source", "helper"} \X SourceIds]
      BY <1>6, <3>1
    <3> QED BY <2>1, <3>2
  <2> HIDE DEF ls
  <2> QED BY <2>1, <2>2, <2>3
<1>8. \A p \in DOMAIN ls : ls[p] = <<name(p), s[half(p)]>> /\ ls[p] \in {"source", "helper"} \X SourceIds
  <2>1. \A p \in 1 .. 2 * Len(s) : <<name(p), s[half(p)]>> \in {"source", "helper"} \X SourceIds
    BY <1>4
  <2> HIDE DEF name, half
  <2> QED BY <1>6, <1>7, <2>1
<1> HIDE DEF ls
<1>9. \A p \in DOMAIN ls : KeyRank(ls[p]) = 2 * SourceRank[s[half(p)]] + IF p % 2 = 1 THEN 0 ELSE 1
  BY <1>8 DEF KeyRank
<1>10. ASSUME NEW p \in DOMAIN ls, NEW q \in DOMAIN ls, p < q
       PROVE  KeyRank(ls[p]) < KeyRank(ls[q])
  <2>1. p \in 1 .. 2 * Len(s) /\ q \in 1 .. 2 * Len(s) /\ p \in Nat /\ q \in Nat /\ 0 < p
    BY <1>1, <1>7
  <2>2. /\ half(p) \in DOMAIN s /\ half(q) \in DOMAIN s
        /\ SourceRank[s[half(p)]] \in Nat /\ SourceRank[s[half(q)]] \in Nat
    BY <1>3, <1>4, <2>1
  <2>3. \/ half(p) < half(q)
        \/ half(p) = half(q) /\ p % 2 = 1 /\ q % 2 = 0
    BY <1>10, <2>1, Halves
  <2>4. half(p) < half(q) => SourceRank[s[half(p)]] < SourceRank[s[half(q)]]
    BY <1>2, <2>2
  <2> HIDE DEF half
  <2> QED BY <1>9, <2>2, <2>3, <2>4
<1>11. \A p \in DOMAIN ls : KeyRank(ls[p]) \in Nat
  <2> SUFFICES ASSUME NEW p \in DOMAIN ls PROVE KeyRank(ls[p]) \in Nat
    OBVIOUS
  <2>1. SourceRank[s[half(p)]] \in Nat
    BY <1>3, <1>4, <1>7
  <2> QED BY <1>9, <2>1
<1> QED BY <1>7, <1>8, <1>10, <1>11 DEF ls

LEMMA LocksOfLength ==
    ASSUME SourceInv, NEW c \in Movers, move[c].at = "docs"
    PROVE  Len(LocksOf(move[c])) \in Nat /\ DOMAIN LocksOf(move[c]) = 1 .. Len(LocksOf(move[c]))
<1> DEFINE ls == LocksOf(move[c])
<1>1. Len(move[c].ids) \in Nat
  BY ActiveMoves DEF MoveRecs
<1>2. DOMAIN ls = 1 .. 2 * Len(move[c].ids) /\ ls = [p \in DOMAIN ls |-> ls[p]]
  BY DEF LocksOf
<1>3. \A p \in DOMAIN ls : ls[p] \in {"source", "helper"} \X SourceIds
  BY LocksAscend
<1> HIDE DEF ls
<1>4. ls \in [1 .. 2 * Len(move[c].ids) -> {"source", "helper"} \X SourceIds] /\ 2 * Len(move[c].ids) \in Nat
  BY <1>1, <1>2, <1>3
<1>5. ls \in Seq({"source", "helper"} \X SourceIds)
  BY <1>4
<1> QED BY <1>5 DEF ls

\* Of two transactions that waited for each other, each would ask for a row
\* below the one it holds.
LEMMA LocksExclude ==
    ASSUME SourceInv, LocksInv
    PROVE  NoLockCircle
<1> SUFFICES ASSUME NEW c \in Movers, NEW d \in Movers, Waits(c, d), Waits(d, c)
             PROVE  FALSE
  BY DEF NoLockCircle
<1>0. ASSUME NEW a \in Movers, NEW b \in Movers, Waits(a, b)
      PROVE  /\ move[a].at = "docs" /\ move[a].locks \in Nat
             /\ move[a].locks + 1 \in DOMAIN LocksOf(move[a]) /\ NextLock(a) = LocksOf(move[a])[move[a].locks + 1]
             /\ \E m \in DOMAIN LocksOf(move[b]) : m <= move[b].locks /\ LocksOf(move[b])[m] = NextLock(a)
  <2>1. move[a].at = "docs" /\ move[a].locks < Len(LocksOf(move[a])) /\ rowLock[NextLock(a)] = b
    BY <1>0 DEF Waits, NeedsLock
  <2>2. move[a].locks \in Nat
    BY ActiveMoves DEF MoveRecs
  <2>3. DOMAIN LocksOf(move[a]) = 1 .. Len(LocksOf(move[a]))
    BY <2>1, LocksAscend
  <2>4. Len(LocksOf(move[a])) \in Nat
    BY <2>1, LocksOfLength
  <2>5. move[a].locks + 1 \in DOMAIN LocksOf(move[a])
    BY <2>1, <2>2, <2>3, <2>4
  <2>6. NextLock(a) \in {"source", "helper"} \X SourceIds
    BY <2>1, <2>5, LocksAscend DEF NextLock
  <2>7. NextLock(a) \in DOMAIN rowLock
    BY <2>6 DEF SourceInv, CountersFit
  <2> QED BY <2>1, <2>2, <2>5, <2>7 DEF LocksInv, Taken, NextLock
<1>1. PICK m \in DOMAIN LocksOf(move[d]) : m <= move[d].locks /\ LocksOf(move[d])[m] = NextLock(c)
  BY <1>0
<1>2. PICK n \in DOMAIN LocksOf(move[c]) : n <= move[c].locks /\ LocksOf(move[c])[n] = NextLock(d)
  BY <1>0
<1>3. /\ move[c].at = "docs" /\ move[c].locks \in Nat /\ move[c].locks + 1 \in DOMAIN LocksOf(move[c])
      /\ move[d].at = "docs" /\ move[d].locks \in Nat /\ move[d].locks + 1 \in DOMAIN LocksOf(move[d])
      /\ NextLock(c) = LocksOf(move[c])[move[c].locks + 1] /\ NextLock(d) = LocksOf(move[d])[move[d].locks + 1]
  BY <1>0
<1>4. m \in Nat /\ n \in Nat
  BY <1>3, LocksAscend
<1>5. KeyRank(NextLock(c)) < KeyRank(NextLock(d))
  <2>1. m < move[d].locks + 1
    BY <1>1, <1>3, <1>4
  <2> QED BY <1>1, <1>3, <2>1, LocksAscend
<1>6. KeyRank(NextLock(d)) < KeyRank(NextLock(c))
  <2>1. n < move[c].locks + 1
    BY <1>2, <1>3, <1>4
  <2> QED BY <1>2, <1>3, <2>1, LocksAscend
<1>7. KeyRank(NextLock(d)) \in Nat /\ KeyRank(NextLock(c)) \in Nat
  BY <1>3, LocksAscend
<1> QED BY <1>5, <1>6, <1>7

LEMMA LocksInitInv == SourceInit => LocksInv
BY SourceFacts DEF SourceInit, LocksInv

LEMMA LocksFollow ==
    ASSUME SourceInv, LocksInv, NEW c \in Movers, NEW j, move' = [move EXCEPT ![c] = j],
           DOMAIN rowLock' = DOMAIN rowLock,
           \A k \in DOMAIN rowLock : /\ rowLock'[k] = c => Taken(j, k)
                                     /\ rowLock'[k] # c => rowLock'[k] \in {rowLock[k], Free}
    PROVE  LocksInv'
<1> SUFFICES ASSUME NEW k \in DOMAIN rowLock, NEW d \in Movers, rowLock'[k] = d
             PROVE  Taken(move'[d], k)
  BY DEF LocksInv, Taken, LocksOf, LockOrder
<1>1. CASE d = c
  BY <1>1 DEF SourceInv, CallsFit
<1>2. CASE d # c
  BY <1>2, SourceFacts DEF SourceInv, CallsFit, LocksInv
<1> QED BY <1>1, <1>2

\* A caller that is not at its commit holds no row.
LEMMA LocksUntouched ==
    ASSUME SourceInv, LocksInv, NEW c \in Movers, NEW j, move' = [move EXCEPT ![c] = j],
           move[c].at # "docs", rowLock' = rowLock
    PROVE  LocksInv'
BY LocksFollow DEF LocksInv, Taken

LEMMA LocksFreed ==
    ASSUME SourceInv, LocksInv, NEW c \in Movers, NEW j, move' = [move EXCEPT ![c] = j],
           rowLock' = [k \in DOMAIN rowLock |-> IF rowLock[k] = c THEN Free ELSE rowLock[k]]
    PROVE  LocksInv'
BY SourceFacts, LocksFollow

LEMMA LockRowKeepsLocks ==
    ASSUME SourceInv, LocksInv, NEW c \in Movers, LockRow(c)
    PROVE  LocksInv'
<1> DEFINE j == move[c]
<1>1. NeedsLock(c) /\ j.at = "docs" /\ j \in MoveRecs
  BY ActiveMoves DEF LockRow, NeedsLock
<1>2. ASSUME NEW n \in Nat, j.locks <= n, NEW k, k = [j EXCEPT !.locks = n]
      PROVE  /\ k.at = "docs" /\ k.locks = n /\ LocksOf(k) = LocksOf(j)
             /\ \A x : Taken(j, x) => Taken(k, x)
  BY <1>1, <1>2, LocksAscend DEF MoveRecs, LocksOf, Taken
<1>3. j.locks \in Nat /\ j.locks + 1 \in Nat /\ j.locks + 2 \in Nat
  BY <1>1 DEF MoveRecs
<1>4. CASE MoveEnds(c)
  BY <1>4, LocksFreed DEF MoveEnds, Frees
<1>5. CASE GoesOn(c, [j EXCEPT !.locks = @ + 2])
  BY <1>5, <1>2, <1>3, LocksFollow DEF GoesOn, LocksInv
<1>6. CASE rowLock' = [rowLock EXCEPT ![NextLock(c)] = c] /\ move' = [move EXCEPT ![c].locks = @ + 1]
  <2>1. PICK k : k = [j EXCEPT !.locks = j.locks + 1]
    OBVIOUS
  <2>2. move' = [move EXCEPT ![c] = k]
    BY <1>6, <2>1
  <2>3. k.at = "docs" /\ k.locks = j.locks + 1 /\ LocksOf(k) = LocksOf(j) /\ \A x : Taken(j, x) => Taken(k, x)
    <3>1. PICK n \in Nat : n = j.locks + 1
      BY <1>3
    <3>2. j.locks <= n /\ k = [j EXCEPT !.locks = n]
      BY <1>3, <2>1, <3>1
    <3> QED BY <1>2, <3>1, <3>2
  <2>4. j.locks + 1 \in DOMAIN LocksOf(j)
    BY <1>1, <1>3, LocksOfLength DEF NeedsLock
  <2>5. PICK x : x = NextLock(c)
    OBVIOUS
  <2>6. Taken(k, x)
    BY <1>3, <2>3, <2>4, <2>5 DEF Taken, NextLock
  <2>7. \A y \in DOMAIN rowLock : rowLock'[y] = IF y = x THEN c ELSE rowLock[y]
    BY <1>6, <2>5 DEF SourceInv, CountersFit
  <2>8. DOMAIN rowLock' = DOMAIN rowLock
    BY <1>6
  <2>9. \A y \in DOMAIN rowLock : /\ rowLock'[y] = c => Taken(k, y)
                                  /\ rowLock'[y] # c => rowLock'[y] \in {rowLock[y], Free}
    BY <2>3, <2>6, <2>7 DEF LocksInv
  <2> QED BY <2>2, <2>8, <2>9, LocksFollow
<1> QED BY <1>4, <1>5, <1>6 DEF LockRow

LEMMA MoverKeepsLocks ==
    ASSUME SourceInv, LocksInv, NEW c \in Movers, MoverStep(c)
    PROVE  LocksInv'
<1>1. CASE MoveEnds(c)
  BY <1>1, LocksFreed DEF MoveEnds, Frees
<1>2. CASE move[c].at # "docs" /\ \E j : GoesOn(c, j)
  BY <1>2, LocksUntouched DEF GoesOn
<1>3. CASE CommitSource(c)
  BY <1>3, LocksFreed DEF CommitSource, SourceInv, CallsFit
<1> QED BY <1>1, <1>2, <1>3, LockRowKeepsLocks
         DEF MoverStep, Identify, GraphLeg, ListSource, FirstState, FinalState, RereadState, DocsFail, VectorLeg, MoverDies

LEMMA LocksStepInv ==
    ASSUME SourceInv, LocksInv, [SourceNext]_sourceVars
    PROVE  LocksInv'
<1>1. ASSUME NEW c \in Movers, NEW j \in Jobs, CallMover(c, j) PROVE LocksInv'
  <2>1. PICK k : move' = [move EXCEPT ![c] = k]
    BY <1>1 DEF CallMover
  <2>2. move[c].at # "docs" /\ rowLock' = rowLock
    BY <1>1 DEF CallMover, RestingMove
  <2> QED BY <2>1, <2>2, LocksUntouched
<1>2. ASSUME NEW c \in Movers, MoverStep(c) PROVE LocksInv'
  BY <1>2, MoverKeepsLocks
<1>3. CASE UNCHANGED <<move, rowLock>>
  <2> SUFFICES ASSUME NEW k \in DOMAIN rowLock', NEW d \in Movers, rowLock'[k] = d
               PROVE  Taken(move'[d], k)
    BY DEF LocksInv, Taken, LocksOf, LockOrder
  <2> QED BY <1>3 DEF LocksInv
<1> QED BY <1>1, <1>2, <1>3 DEF SourceNext, FindItem, CheckTarget, RecoverVector, ProveItem, ReadRange, PlanRecovery,
           ApplyRecovery, FinishRecovery, RecoveryDies, sourceVars

-----------------------------------------------------------------------------
(* The theorems. *)

SourcesInv == SourceInv /\ RecoveryInv /\ LegsInv /\ LocksInv

LEMMA SourcesInitInv == SourceInit => SourcesInv
BY SourceInitInv, RecoveryInitInv, LegsInitInv, LocksInitInv DEF SourcesInv

LEMMA SourcesStepInv == SourcesInv /\ [SourceNext]_sourceVars => SourcesInv'
BY SourceStepInv, LegsStepInv, LocksStepInv DEF SourcesInv

\* The inductive invariant of the source texts: what a caller carries fits the
\* texts that were vouched for, the recovery its manifest, the legs their order
\* and the row locks the transactions that took them.
THEOREM SourcesInvHolds == SourceSpec => []SourcesInv
BY SourcesInitInv, SourcesStepInv, PTL DEF SourceSpec

LEMMA SourcesAreTyped == SourcesInv => SourceTypeOK
BY DEF SourcesInv, SourceInv, CallsFit, MoveRecs, SourceOps, CountersFit, RowsFit, ReadsFit,
   Locators, SourceTypeOK

\* The variables of the source texts keep their types.
THEOREM SourceTypesCorrect == SourceSpec => []SourceTypeOK
BY SourcesInvHolds, SourcesAreTyped, PTL

LEMMA SourcesAreSoundNow == SourcesInv => SourcesAreSound
<1> SUFFICES ASSUME SourcesInv PROVE SourcesAreSound
  OBVIOUS
<1>1. ProofsAreEarned /\ RangesAreOneText
  BY DEF SourcesInv, SourceInv, WholeIsVouched, ReadsFit, ProofsAreEarned, RangesAreOneText
<1>2. LegsAreInOrder
  BY DEF SourcesInv, LegsInv, InOrder, LegsAreInOrder
<1>3. NoLockCircle
  BY LocksExclude DEF SourcesInv
<1>4. RecoveryIsApproved
  BY DEF SourcesInv, RecoveryInv, RecoveryFits, RecoveryDone, Restored, RecoveryIsApproved
<1> QED BY <1>1, <1>2, <1>3, <1>4 DEF SourcesAreSound

\* A text counts as whole only if a writer gave it whole, the ranges of one
\* locator are of one text, the legs of a source are in order under write.lock,
\* no two PostgreSQL transactions wait for each other, and a recovery of vectors
\* writes only what its dry run approved.
THEOREM SourcesStaySound == SourceSpec => []SourcesAreSound
BY SourcesInvHolds, SourcesAreSoundNow, PTL

RewriteKeeps ==
    \A c \in Movers : move[c].op = "rewrite" /\ move'[c] = RestingMove => \A i \in SourceIds : srow'[i] # srow[i] =>
        /\ srow[i] # Missing /\ srow'[i] # Missing
        /\ srow'[i].text = srow[i].text /\ (Whole(srow'[i]) => Whole(srow[i]))

LEMMA RewriteStepKeeps == SourcesInv /\ [SourceNext]_sourceVars => [RewriteKeeps]_sourceVars
<1> SUFFICES ASSUME SourcesInv, SourceNext, NEW c \in Movers, move[c].op = "rewrite", move'[c] = RestingMove,
                    NEW i \in SourceIds, srow'[i] # srow[i]
             PROVE  /\ srow[i] # Missing /\ srow'[i] # Missing
                    /\ srow'[i].text = srow[i].text /\ (Whole(srow'[i]) => Whole(srow[i]))
  BY DEF RewriteKeeps
<1>0. SourceInv
  BY DEF SourcesInv
<1>1. move[c] # RestingMove
  BY DEF RestingMove
<1>2. PICK d \in Movers : CommitSource(d)
  BY DEF SourceNext, MoverStep, CallMover, Identify, GraphLeg, ListSource, FirstState, FinalState, RereadState, LockRow,
         DocsFail, VectorLeg, MoverDies, FindItem, CheckTarget, RecoverVector, ProveItem, ReadRange, PlanRecovery,
         ApplyRecovery, FinishRecovery, RecoveryDies, rowVars
<1>3. d = c
  BY <1>0, <1>2, MoverSteps, <1>1 DEF MoverStep, SourceInv, CallsFit
<1>4. /\ move[c].at = "docs"
      /\ srow' = [x \in SourceIds |-> IF x \in IdsOf(move[c].ids) THEN RowAfter(move[c], x) ELSE srow[x]]
  BY <1>2, <1>3 DEF CommitSource
<1>5. i \in IdsOf(move[c].ids) /\ srow'[i] = RowAfter(move[c], i)
  BY <1>4
<1> QED BY <1>0, <1>4, <1>5, RowAfterFits

\* A rewrite of metadata never changes a text, never makes a text whole that was
\* not, and never brings a deleted source back.
THEOREM RewritesKeepTexts == SourceSpec => RewritesKeepTheText
<1>1. SourceSpec => [][RewriteKeeps]_sourceVars
  BY SourcesInvHolds, RewriteStepKeeps, PTL DEF SourceSpec
<1> QED BY <1>1 DEF RewritesKeepTheText, RewriteKeeps

-----------------------------------------------------------------------------
(***************************************************************************)
(* The write path of the ontology: what a call has seen and made true.     *)
(***************************************************************************)

EdgeWants == [fromType : NodeTypes \cup {NoRow}, toType : NodeTypes \cup {NoRow}, pack : WritePacks, text : EdgeTexts]
NodeCalls == [at : NodeStages, id : WriteNodes, row : NodeRows, replaces : BOOLEAN,
              seen : NodeRows \cup {NoRow}, landed : BOOLEAN, ok : BOOLEAN]
EdgeCalls == [at : EdgeStages, id : Links, row : EdgeWants, replaces : BOOLEAN,
              seen : EdgeRows \cup {NoRow}, landed : BOOLEAN, ok : BOOLEAN]

PastGraph == {"docs", "sql", "vector"}
CallTyped(c, p) ==
    \/ c = Rest
    \/ /\ c \in NodeCalls /\ c.row.pack = p
       /\ c.landed => c.at \in PastGraph \cup {"bill"}
       /\ c.ok /\ c.at \in PastGraph \cup {"held", "bill"} => c.landed
    \/ /\ c \in EdgeCalls /\ c.row.pack = p
       /\ c.landed => c.at \in {"registerEdge", "billEdge"}

CallsTyped == writing \in [Writers -> {Rest} \cup NodeCalls \cup EdgeCalls] /\ \A w \in Writers : CallTyped(writing[w], PackOf[w])

StoresTyped ==
    /\ gnode \in [WriteNodes -> NodeRows \cup {NoRow}] /\ gedge \in [Links -> EdgeRows \cup {NoRow}]
    /\ doc \in [NodeSpaces \X WriteNodes -> NodeRows \cup {NoRow}]
    /\ registry \in [NodeSpaces \X WriteNodes -> NodeTypes \cup {NoRow}]
    /\ vec \in [WriteNodes -> Vectors \cup {NoRow}]
    /\ edgeRegistry \subseteq Links /\ settled \subseteq WriteNodes /\ touched \subseteq WriteNodes \cup Links
    /\ \A b \in billed : b.id \in WriteNodes => b.row \in NodeRows
    /\ oneHost \in BOOLEAN
    /\ writeCalls \in 0 .. MaxWriteCalls /\ storeFaults \in 0 .. MaxStoreFaults /\ graphChanges \in 0 .. MaxGraphChanges

\* The file lock of one host lets one call work at a time.
OneCall == oneHost => \A v, w \in Writers : v # w => writing[v] = Rest \/ writing[w] = Rest

\* A node that no other writer of the graph changed, and no other host replaced.
Secured(i) == i \notin touched /\ (oneHost \/ i \notin replaced)
PlaceOf(c) == <<SpaceOf(c.row), c.id>>
VectorOf(row) == [pack |-> row.pack, text |-> row.text]

\* What a call that adds or replaces a node has seen, and what it has made true.
SawRow(c) ==
    /\ c.at \in DOMAIN AfterProbe /\ c.seen # NoRow /\ c.id \notin touched =>
          gnode[c.id] # NoRow /\ KeepsPack(c.seen, gnode[c.id])
SeesOwnRow(c, p) == c.at = "graph" /\ c.seen # NoRow /\ c.id \notin touched => ~Foreign(c.seen, p)
DocIsClaimed(c, p) ==
    c.at \in {"probeVectors", "probeIds", "graph", "held", "docs"} /\ c.id \notin touched /\ Foreign(doc[PlaceOf(c)], p) =>
        gnode[c.id] # NoRow /\ gnode[c.id].pack = doc[PlaceOf(c)].pack
VectorIsClaimed(c, p) ==
    c.at \in {"probeIds", "graph", "held", "docs", "sql", "vector"} /\ c.id \notin touched /\ Foreign(vec[c.id], p) =>
        gnode[c.id] # NoRow /\ gnode[c.id].pack = vec[c.id].pack
RowIsOwn(c, p) == c.at \in PastGraph /\ c.id \notin touched => gnode[c.id] # NoRow /\ gnode[c.id].pack = p
RowIsThere(c) == (c.at \in PastGraph \/ c.landed) /\ Secured(c.id) => gnode[c.id] = c.row
CopiesAreThere(c) ==
    c.ok /\ Secured(c.id) =>
        /\ c.at \in {"sql", "vector", "bill"} => doc[PlaceOf(c)] = c.row
        /\ c.at \in {"vector", "bill"} => registry[PlaceOf(c)] = c.row.type
        /\ c.at = "bill" => vec[c.id] = VectorOf(c.row)

NodeFits(c, p) ==
    /\ SawRow(c) /\ SeesOwnRow(c, p) /\ DocIsClaimed(c, p) /\ VectorIsClaimed(c, p)
    /\ RowIsOwn(c, p) /\ RowIsThere(c) /\ CopiesAreThere(c)

\* What a call that adds or replaces an edge has seen of its ends.
ToPack == {"toPack", "edgePack", "edge", "edgeDigest", "replaceEdge"}
EndIsSeen(c, k, type, stages) ==
    c.at \in stages /\ c.id[k] \notin touched \cup replaced => gnode[c.id[k]] # NoRow /\ gnode[c.id[k]].type = type
EndIsOwn(c, k, p, stages) ==
    c.at \in stages /\ c.id[k] \notin touched \cup replaced => ~Foreign(gnode[c.id[k]], p)

EdgeFits(c, p) ==
    /\ EndIsSeen(c, 1, c.row.fromType, {"toType", "fromPack"} \cup ToPack)
    /\ EndIsSeen(c, 2, c.row.toType, {"fromPack"} \cup ToPack)
    /\ EndIsOwn(c, 1, p, ToPack) /\ EndIsOwn(c, 2, p, ToPack \ {"toPack"})
    /\ c.at = "registerEdge" /\ c.id \notin touched => gedge[c.id] # NoRow

CallsAreRight == \A w \in Writers : /\ writing[w] \in NodeCalls => NodeFits(writing[w], PackOf[w])
                                    /\ writing[w] \in EdgeCalls => EdgeFits(writing[w], PackOf[w])

WriteInv == StoresTyped /\ CallsTyped /\ OneCall /\ CallsAreRight /\ WritesAreWhole

LEMMA WriteFacts ==
    /\ NoRow \notin NodeTypes /\ NoRow \notin NodeRows /\ NoRow \notin EdgeRows /\ NoRow \notin Vectors
    /\ Unattributed \notin WritePacks /\ \A w \in Writers : PackOf[w] \in WritePacks
    /\ \A l \in Links : l[1] \in WriteNodes /\ l[2] \in WriteNodes /\ l \notin WriteNodes
    /\ \A t \in NodeTypes : SpaceOfType[t] \in NodeSpaces
    /\ MaxWriteCalls \in Nat /\ MaxStoreFaults \in Nat /\ MaxGraphChanges \in Nat
BY WriteAssumption

LEMMA CallKinds ==
    /\ Rest \notin NodeCalls /\ Rest \notin EdgeCalls
    /\ \A c \in NodeCalls : c \notin EdgeCalls /\ c # Rest /\ c.at \in NodeStages /\ c.at \notin EdgeStages /\ c.at # "rest"
    /\ \A c \in EdgeCalls : c \notin NodeCalls /\ c # Rest /\ c.at \in EdgeStages /\ c.at \notin NodeStages /\ c.at # "rest"
    /\ Rest.at = "rest"
BY DEF NodeCalls, EdgeCalls, Rest, NodeStages, EdgeStages

\* How one step may move the stores: what no step does to a row that no other
\* writer of the graph changed, and what a copy says that a step writes.
JoinsOwn(l) == {l, l[1], l[2]} \cap (touched \cup replaced) = {} =>
    \A i \in {l[1], l[2]} : ~Foreign(gnode[i], gedge[l].pack)

NodeMoves(i) ==
    gnode[i] # NoRow =>
        /\ gnode'[i] # NoRow /\ KeepsPack(gnode[i], gnode'[i])
        /\ i \notin replaced' => gnode'[i] = gnode[i]
EdgeMoves(l) ==
    /\ gedge[l] # NoRow => gedge'[l] # NoRow /\ gedge'[l].pack = gedge[l].pack
    /\ gedge[l] = NoRow /\ gedge'[l] # NoRow => JoinsOwn(l)'
DocMoves(k) ==
    \/ doc'[k] = doc[k]
    \/ /\ KeepsPack(doc[k], doc'[k])
       /\ gnode'[k[2]] # NoRow /\ gnode'[k[2]].pack = doc'[k].pack
       /\ Secured(k[2])' => doc'[k] = gnode'[k[2]]
RegistryMoves(k) ==
    \/ registry'[k] = registry[k]
    \/ Secured(k[2])' => gnode'[k[2]] # NoRow /\ registry'[k] = gnode'[k[2]].type
VectorMoves(i) ==
    \/ vec'[i] = vec[i]
    \/ /\ KeepsPack(vec[i], vec'[i])
       /\ gnode'[i] # NoRow /\ gnode'[i].pack = vec'[i].pack
       /\ Secured(i)' => vec'[i] = VectorOf(gnode'[i])

Moves ==
    /\ touched \subseteq touched' /\ replaced \subseteq replaced' /\ oneHost' = oneHost
    /\ \A i \in WriteNodes \ touched' : NodeMoves(i) /\ VectorMoves(i)
    /\ \A l \in Links \ touched' : EdgeMoves(l)
    /\ \A i \in settled \cap settled' : Secured(i)' => gnode'[i] = gnode[i]
    /\ \A k \in NodeSpaces \X WriteNodes : k[2] \notin touched' => DocMoves(k) /\ RegistryMoves(k)

\* What the steps of others leave of a call.
LEMMA NodeUnmoved ==
    ASSUME WriteInv, StoresTyped', Moves, NEW p \in WritePacks, NEW c \in NodeCalls, CallTyped(c, p), NodeFits(c, p),
           oneHost /\ c.id \notin touched' /\ gnode[c.id] # NoRow => gnode'[c.id] = gnode[c.id]
    PROVE  NodeFits(c, p)'
<1>0. /\ c.id \in WriteNodes /\ c.row \in NodeRows /\ c.row # NoRow /\ p # Unattributed
      /\ PlaceOf(c) \in NodeSpaces \X WriteNodes /\ PlaceOf(c)[2] = c.id
  BY WriteFacts DEF NodeCalls, SpaceOf, NodeRows, PlaceOf
<1>1. ASSUME c.id \notin touched'
      PROVE  /\ c.id \notin touched /\ NodeMoves(c.id) /\ VectorMoves(c.id) /\ DocMoves(PlaceOf(c)) /\ RegistryMoves(PlaceOf(c))
             /\ Secured(c.id)' => Secured(c.id)
  BY <1>0, <1>1 DEF Moves, Secured
<1>2. SawRow(c)'
  BY <1>1 DEF NodeFits, SawRow, NodeMoves, KeepsPack
<1>3. SeesOwnRow(c, p)'
  BY <1>1 DEF NodeFits, SeesOwnRow
<1>4. DocIsClaimed(c, p)'
  BY <1>1, <1>0 DEF DocIsClaimed, PlaceOf, SpaceOf, NodeFits, Foreign, NodeMoves, KeepsPack,
     DocMoves
<1>5. VectorIsClaimed(c, p)'
  BY <1>1 DEF VectorIsClaimed, NodeFits, Foreign, NodeMoves, KeepsPack, VectorMoves
<1>6. RowIsOwn(c, p)'
  BY <1>0, <1>1 DEF NodeFits, RowIsOwn, NodeMoves, KeepsPack
<1>7. RowIsThere(c)'
  BY <1>0, <1>1 DEF Moves, NodeFits, RowIsThere, NodeMoves, Secured
<1>8. CopiesAreThere(c)'
  <2> SUFFICES ASSUME c.ok, Secured(c.id)', c.at \in {"sql", "vector", "bill"}
               PROVE  /\ c.at \in {"sql", "vector", "bill"} => doc'[PlaceOf(c)] = c.row
                      /\ c.at \in {"vector", "bill"} => registry'[PlaceOf(c)] = c.row.type
                      /\ c.at = "bill" => vec'[c.id] = VectorOf(c.row)
    BY DEF CopiesAreThere, PlaceOf, SpaceOf, VectorOf
  <2>1. c.id \notin touched' /\ Secured(c.id)
    BY <1>1 DEF Secured
  <2>2. c.at \in PastGraph \/ c.landed
    BY CallKinds DEF CallTyped, PastGraph
  <2>3. gnode'[c.id] = c.row
    BY <1>7, <2>2 DEF RowIsThere
  <2>4. /\ c.at \in {"sql", "vector", "bill"} => doc[PlaceOf(c)] = c.row
        /\ c.at \in {"vector", "bill"} => registry[PlaceOf(c)] = c.row.type
        /\ c.at = "bill" => vec[c.id] = VectorOf(c.row)
    BY <2>1 DEF NodeFits, CopiesAreThere
  <2>5. DocMoves(PlaceOf(c)) /\ RegistryMoves(PlaceOf(c)) /\ VectorMoves(c.id)
    BY <1>1, <2>1
  <2>6. doc'[PlaceOf(c)] \in {doc[PlaceOf(c)], c.row}
    BY <1>0, <2>3, <2>5 DEF DocMoves
  <2>7. registry'[PlaceOf(c)] \in {registry[PlaceOf(c)], c.row.type}
    BY <1>0, <2>3, <2>5 DEF RegistryMoves
  <2>8. vec'[c.id] \in {vec[c.id], VectorOf(c.row)}
    BY <2>3, <2>5 DEF VectorMoves
  <2> QED BY <2>4, <2>6, <2>7, <2>8
<1> QED BY <1>2, <1>3, <1>4, <1>5, <1>6, <1>7, <1>8 DEF NodeFits

LEMMA EdgeUnmoved ==
    ASSUME WriteInv, Moves, NEW p \in WritePacks, NEW c \in EdgeCalls, EdgeFits(c, p)
    PROVE  EdgeFits(c, p)'
BY WriteFacts DEF EdgeCalls, Moves, NodeMoves, EndIsSeen, EndIsOwn, EdgeMoves, EdgeFits

\* The parts of the stores, row by row.
EdgeFitsEnds(l) ==
    gedge[l] # NoRow =>
        /\ gnode[l[1]] # NoRow /\ gedge[l].fromType = gnode[l[1]].type
        /\ gnode[l[2]] # NoRow /\ gedge[l].toType = gnode[l[2]].type
Everywhere(i) ==
    Secured(i) =>
        /\ gnode[i] # NoRow
        /\ doc[<<SpaceOf(gnode[i]), i>>] = gnode[i]
        /\ registry[<<SpaceOf(gnode[i]), i>>] = gnode[i].type
        /\ vec[i] = VectorOf(gnode[i])
BillHolds(b) == b.id \in WriteNodes => b.id \in replaced \cup touched \/ gnode[b.id] = b.row

WholeRows ==
    /\ \A i \in settled : Everywhere(i)
    /\ \A l \in Links : EdgeFitsEnds(l)
    /\ \A l \in Links : gedge[l] # NoRow => JoinsOwn(l)
    /\ \A l \in edgeRegistry : l \notin touched => gedge[l] # NoRow
    /\ \A b \in billed : BillHolds(b)

LEMMA WholeParts == WritesAreWhole <=> WholeRows
<1>1. AnsweredIsEverywhere <=> \A i \in settled : Everywhere(i)
  BY DEF AnsweredIsEverywhere, Everywhere, Secured, VectorOf
<1>2. EdgesFit <=> \A l \in Links : EdgeFitsEnds(l)
  BY DEF EdgesFit, EdgeFitsEnds
<1>3. EdgesJoinOwn <=> \A l \in Links : gedge[l] # NoRow => JoinsOwn(l)
  BY DEF EdgesJoinOwn, JoinsOwn
<1>4. RegisteredIsLinked <=> \A l \in edgeRegistry : l \notin touched => gedge[l] # NoRow
  BY DEF RegisteredIsLinked
<1>5. BilledHasLanded <=> \A b \in billed : BillHolds(b)
  BY DEF BilledHasLanded, BillHolds
<1> QED BY <1>1, <1>2, <1>3, <1>4, <1>5 DEF WritesAreWhole, WholeRows

\* What a step adds to the answered, the registered and the billed.
NewIsWhole ==
    /\ \A i \in settled' \ settled : Everywhere(i)'
    /\ \A l \in edgeRegistry' \ edgeRegistry : l \notin touched' => gedge'[l] # NoRow
    /\ \A b \in billed' \ billed : BillHolds(b)'

LEMMA EverywhereMoves ==
    ASSUME WriteInv, StoresTyped', Moves, NEW i \in settled \cap settled', Everywhere(i)
    PROVE  Everywhere(i)'
<1> SUFFICES ASSUME Secured(i)'
             PROVE  /\ gnode'[i] # NoRow
                    /\ doc'[<<SpaceOf(gnode'[i]), i>>] = gnode'[i]
                    /\ registry'[<<SpaceOf(gnode'[i]), i>>] = gnode'[i].type
                    /\ vec'[i] = VectorOf(gnode'[i])
  BY DEF Everywhere, SpaceOf, VectorOf
<1>0. i \in WriteNodes /\ i \notin touched' /\ Secured(i) /\ gnode'[i] = gnode[i]
  BY DEF Moves, Secured, WriteInv, StoresTyped
<1>1. /\ gnode[i] # NoRow
      /\ doc[<<SpaceOf(gnode[i]), i>>] = gnode[i]
      /\ registry[<<SpaceOf(gnode[i]), i>>] = gnode[i].type
      /\ vec[i] = VectorOf(gnode[i])
  BY <1>0 DEF Everywhere
<1>2. PICK k : k = <<SpaceOf(gnode[i]), i>>
  OBVIOUS
<1>3. k \in NodeSpaces \X WriteNodes /\ k[2] = i
  <2>1. gnode[i] \in NodeRows
    BY <1>0, <1>1 DEF WriteInv, StoresTyped
  <2>2. SpaceOf(gnode[i]) \in NodeSpaces
    BY <2>1, WriteFacts DEF SpaceOf, NodeRows
  <2> QED BY <1>0, <1>2, <2>2
<1>4. DocMoves(k) /\ RegistryMoves(k) /\ VectorMoves(i)
  BY <1>0, <1>3 DEF Moves
<1>5. doc'[k] = gnode[i]
  BY <1>0, <1>1, <1>2, <1>3, <1>4 DEF DocMoves
<1>6. registry'[k] = gnode[i].type
  BY <1>0, <1>1, <1>2, <1>3, <1>4 DEF RegistryMoves
<1>7. vec'[i] = VectorOf(gnode[i])
  BY <1>0, <1>1, <1>4 DEF VectorMoves
<1> QED BY <1>0, <1>1, <1>2, <1>5, <1>6, <1>7

LEMMA WholeMoves ==
    ASSUME WriteInv, StoresTyped', Moves, NewIsWhole, \A l \in Links : EdgeFitsEnds(l)'
    PROVE  WritesAreWhole'
<1>0. /\ \A i \in settled : Everywhere(i)
      /\ \A l \in Links : EdgeFitsEnds(l)
      /\ \A l \in Links : gedge[l] # NoRow => JoinsOwn(l)
      /\ \A l \in edgeRegistry : l \notin touched => gedge[l] # NoRow
      /\ \A b \in billed : BillHolds(b)
  BY WholeParts DEF WriteInv, WholeRows
<1>1. \A i \in settled' : Everywhere(i)'
  BY <1>0, EverywhereMoves DEF NewIsWhole
<1>2. ASSUME NEW l \in Links, gedge'[l] # NoRow
      PROVE  JoinsOwn(l)'
  BY WriteFacts, <1>2, <1>0 DEF JoinsOwn, Moves, EdgeMoves, EdgeFitsEnds, NodeMoves
<1>3. \A l \in edgeRegistry' : l \notin touched' => gedge'[l] # NoRow
  BY <1>0 DEF WriteInv, StoresTyped, NewIsWhole, Moves, EdgeMoves
<1>4. \A b \in billed' : BillHolds(b)'
  BY <1>0, WriteFacts DEF NewIsWhole, BillHolds, WriteInv, StoresTyped, Moves, NodeMoves
<1>5. WholeRows'
  BY <1>1, <1>2, <1>3, <1>4 DEF WholeRows
<1> QED BY <1>5, WholeParts, PTL

\* A step that leaves the calls alone: another writer of the graph's.
LEMMA OthersMove ==
    ASSUME WriteInv, StoresTyped', Moves, writing' = writing, UNCHANGED <<edgeRegistry, billed, settled>>,
           \A i \in WriteNodes \ touched' : gnode[i] # NoRow => gnode'[i] = gnode[i],
           \A l \in Links : EdgeFitsEnds(l)'
    PROVE  WriteInv'
BY WholeMoves, WriteFacts, NodeUnmoved, EdgeUnmoved DEF NewIsWhole, WriteInv, CallsTyped, CallTyped,
   OneCall, Moves, CallsAreRight, NodeCalls

\* A step of a call.
LEMMA CallMoves ==
    ASSUME WriteInv, StoresTyped', Moves, NewIsWhole, \A l \in Links : EdgeFitsEnds(l)',
           NEW w \in Writers, NEW k, writing' = [writing EXCEPT ![w] = k],
           k \in {Rest} \cup NodeCalls \cup EdgeCalls, CallTyped(k, PackOf[w]),
           k \in NodeCalls => NodeFits(k, PackOf[w])', k \in EdgeCalls => EdgeFits(k, PackOf[w])',
           writing[w] # Rest \/ (oneHost => \A v \in Writers : writing[v] = Rest)
    PROVE  WriteInv'
<1>1. WritesAreWhole'
  BY WholeMoves
<1>0. /\ writing \in [Writers -> {Rest} \cup NodeCalls \cup EdgeCalls]
      /\ writing'[w] = k /\ \A v \in Writers \ {w} : writing'[v] = writing[v]
  BY DEF WriteInv, CallsTyped
<1>2. CallsTyped'
  BY <1>0 DEF WriteInv, CallsTyped, CallTyped
<1>3. OneCall'
  BY <1>0 DEF WriteInv, OneCall, Moves
<1>4. ASSUME NEW v \in Writers \ {w}, writing[v] # Rest
      PROVE  ~oneHost
  BY <1>4 DEF WriteInv, OneCall
<1>5. ASSUME NEW v \in Writers, NEW c, c = writing'[v]
      PROVE  /\ c \in NodeCalls => NodeFits(c, PackOf[v])'
             /\ c \in EdgeCalls => EdgeFits(c, PackOf[v])'
  <2>1. CASE v = w
    BY <1>0, <1>5, <2>1
  <2>2. CASE v # w
    BY <1>0, <1>5, <2>2, WriteFacts, <1>4, CallKinds, NodeUnmoved, EdgeUnmoved DEF WriteInv,
       CallsTyped, CallsAreRight
  <2> QED BY <2>1, <2>2
<1>6. CallsAreRight'
  <2> SUFFICES ASSUME NEW v \in Writers
               PROVE  (writing[v] \in NodeCalls => NodeFits(writing[v], PackOf[v]))' /\ (writing[v] \in EdgeCalls => EdgeFits(writing[v], PackOf[v]))'
    BY DEF CallsAreRight
  <2>1. PICK c : c = writing'[v]
    OBVIOUS
  <2>2. /\ c \in NodeCalls => NodeFits(c, PackOf[v])'
        /\ c \in EdgeCalls => EdgeFits(c, PackOf[v])'
    BY <1>5, <2>1
  <2>3. (writing[v] \in NodeCalls => NodeFits(writing[v], PackOf[v]))'
    BY <2>1, <2>2 DEF NodeFits, SawRow, SeesOwnRow, DocIsClaimed, VectorIsClaimed, RowIsOwn, RowIsThere, CopiesAreThere,
                      PlaceOf, SpaceOf, VectorOf, Secured, KeepsPack, Foreign
  <2>4. (writing[v] \in EdgeCalls => EdgeFits(writing[v], PackOf[v]))'
    BY <2>1, <2>2 DEF EdgeFits, EndIsSeen, EndIsOwn
  <2> QED BY <2>3, <2>4
<1> QED BY <1>1, <1>2, <1>3, <1>6 DEF WriteInv

\* Steps that leave the graph and the copies alone.
LEMMA StillMoves ==
    ASSUME UNCHANGED <<gnode, gedge, copies, oneHost, settled, replaced, touched>>
    PROVE  Moves
BY DEF Moves, NodeMoves, VectorMoves, EdgeMoves, DocMoves, RegistryMoves, KeepsPack, copies

LEMMA CallReads ==
    ASSUME WriteInv, UNCHANGED <<gnode, gedge, copies, edgeRegistry, oneHost, history, graphChanges>>,
           writeCalls' \in 0 .. MaxWriteCalls, storeFaults' \in 0 .. MaxStoreFaults,
           NEW w \in Writers, NEW k, writing' = [writing EXCEPT ![w] = k],
           k \in {Rest} \cup NodeCalls \cup EdgeCalls, CallTyped(k, PackOf[w]),
           k \in NodeCalls => NodeFits(k, PackOf[w]), k \in EdgeCalls => EdgeFits(k, PackOf[w]),
           writing[w] # Rest \/ (oneHost => \A v \in Writers : writing[v] = Rest)
    PROVE  WriteInv' /\ Moves
<1>0. UNCHANGED <<gnode, gedge, doc, registry, vec, edgeRegistry, oneHost, billed, settled, replaced, touched>>
  BY DEF copies, history
<1>1. Moves
  BY <1>0, StillMoves DEF copies
<1>2. StoresTyped'
  BY <1>0 DEF WriteInv, StoresTyped
<1>3. NewIsWhole
  BY <1>0 DEF NewIsWhole
<1>4. \A l \in Links : EdgeFitsEnds(l)'
  BY <1>0, WholeParts DEF WriteInv, WholeRows, EdgeFitsEnds
<1>5. k \in NodeCalls => NodeFits(k, PackOf[w])'
  <2>1. UNCHANGED <<gnode, doc, registry, vec, oneHost, replaced, touched>>
    BY <1>0
  <2> QED BY <2>1 DEF NodeFits, SawRow, SeesOwnRow, DocIsClaimed, VectorIsClaimed, RowIsOwn, RowIsThere, CopiesAreThere,
                      PlaceOf, SpaceOf, VectorOf, Secured
<1>6. k \in EdgeCalls => EdgeFits(k, PackOf[w])'
  BY <1>0 DEF EdgeFits, EndIsSeen, EndIsOwn
<1> QED BY <1>1, <1>2, <1>3, <1>4, <1>5, <1>6, CallMoves

LEMMA RestIsTyped == \A p : CallTyped(Rest, p)
BY DEF CallTyped

\* A call that ends, having written nothing more.
LEMMA CallEnds ==
    ASSUME WriteInv, NEW w \in Writers, writing[w] # Rest, Ends(w), JustReads(w), storeFaults' \in 0 .. MaxStoreFaults
    PROVE  WriteInv' /\ Moves
BY CallReads, RestIsTyped, CallKinds DEF Ends, JustReads, WriteInv, StoresTyped

LEMMA FaultFits ==
    ASSUME WriteInv, Faulty \/ storeFaults' = storeFaults
    PROVE  storeFaults' \in 0 .. MaxStoreFaults
BY WriteFacts DEF WriteInv, StoresTyped, Faulty

LEMMA ActiveCall ==
    ASSUME WriteInv, NEW w \in Writers
    PROVE  /\ writing[w].at \in NodeStages => /\ writing[w] \in NodeCalls /\ writing[w] # Rest /\ writing[w].row.pack = PackOf[w]
                                              /\ CallTyped(writing[w], PackOf[w]) /\ NodeFits(writing[w], PackOf[w])
           /\ writing[w].at \in EdgeStages => /\ writing[w] \in EdgeCalls /\ writing[w] # Rest /\ writing[w].row.pack = PackOf[w]
                                              /\ CallTyped(writing[w], PackOf[w]) /\ EdgeFits(writing[w], PackOf[w])
           /\ PackOf[w] \in WritePacks
BY CallKinds, WriteFacts DEF WriteInv, CallsTyped, CallTyped, NodeStages, EdgeStages, CallsAreRight

LEMMA ProbeStages ==
    /\ DOMAIN AfterProbe = {"probeGraph", "probeDocs", "probeVectors", "probeIds"}
    /\ AfterProbe["probeGraph"] = "probeDocs" /\ AfterProbe["probeDocs"] = "probeVectors"
    /\ AfterProbe["probeVectors"] = "probeIds" /\ AfterProbe["probeIds"] = "graph"
    /\ DOMAIN AfterEdgeProbe = {"fromPack", "toPack", "edgePack"}
    /\ AfterEdgeProbe["fromPack"] = "toPack" /\ AfterEdgeProbe["toPack"] = "edgePack" /\ AfterEdgeProbe["edgePack"] = "edge"
BY DEF AfterProbe, AfterEdgeProbe

LEMMA NodeAt ==
    ASSUME NEW c \in NodeCalls, NEW s \in NodeStages, NEW k, k = [c EXCEPT !.at = s]
    PROVE  /\ k \in NodeCalls /\ k.at = s /\ k.id = c.id /\ k.row = c.row /\ k.seen = c.seen
           /\ k.landed = c.landed /\ k.ok = c.ok /\ PlaceOf(k) = PlaceOf(c)
BY DEF NodeCalls, PlaceOf

LEMMA EdgeAt ==
    ASSUME NEW c \in EdgeCalls, NEW s \in EdgeStages, NEW k, k = [c EXCEPT !.at = s]
    PROVE  /\ k \in EdgeCalls /\ k.at = s /\ k.id = c.id /\ k.row = c.row /\ k.seen = c.seen
           /\ k.landed = c.landed /\ k.ok = c.ok
BY DEF EdgeCalls

\* A call that goes on, having only read.
LEMMA CallGoesOn ==
    ASSUME WriteInv, NEW w \in Writers, NEW k, writing' = [writing EXCEPT ![w] = k], writing[w] # Rest,
           JustReads(w), storeFaults' = storeFaults, CallTyped(k, PackOf[w]),
           \/ k \in NodeCalls /\ NodeFits(k, PackOf[w])
           \/ k \in EdgeCalls /\ EdgeFits(k, PackOf[w])
    PROVE  WriteInv' /\ Moves
BY CallKinds, CallReads DEF JustReads, WriteInv, StoresTyped

LEMMA ProbeSafe ==
    ASSUME WriteInv, NEW w \in Writers, Probe(w)
    PROVE  WriteInv' /\ Moves
<1> DEFINE c == writing[w]
           p == PackOf[w]
<1>0. c.at \in {"probeGraph", "probeDocs", "probeVectors", "probeIds"} /\ JustReads(w) /\ storeFaults' = storeFaults
  BY ProbeStages DEF Probe
<1>1. c \in NodeCalls /\ c # Rest /\ c.row.pack = p /\ CallTyped(c, p) /\ NodeFits(c, p)
  BY <1>0, ActiveCall DEF NodeStages
<1>2. CASE Ends(w)
  BY <1>0, <1>1, <1>2, CallEnds DEF WriteInv, StoresTyped
<1>3. CASE ~Conflicts(w) /\ Goto(w, AfterProbe[c.at])
  <2>1. PICK s \in {"probeDocs", "probeVectors", "probeIds", "graph"} : s = AfterProbe[c.at]
    BY <1>0, ProbeStages
  <2>2. PICK k : k = [c EXCEPT !.at = s]
    OBVIOUS
  <2>3. writing' = [writing EXCEPT ![w] = k]
    BY <1>3, <2>1, <2>2 DEF Goto
  <2>4. /\ k \in NodeCalls /\ k.at = s /\ k.id = c.id /\ k.row = c.row /\ k.seen = c.seen
        /\ k.landed = c.landed /\ k.ok = c.ok /\ PlaceOf(k) = PlaceOf(c)
    BY <1>1, <2>2, NodeAt DEF NodeStages
  <2>5. ~c.landed /\ ~k.landed
    BY <1>0, <1>1, <2>4, CallKinds DEF CallTyped, PastGraph, NodeCalls
  <2>6. CallTyped(k, p)
    BY <1>1, <2>4, <2>5 DEF CallTyped, PastGraph
  <2>7. RowIsOwn(k, p) /\ RowIsThere(k) /\ CopiesAreThere(k)
    BY <2>4, <2>5 DEF RowIsOwn, RowIsThere, CopiesAreThere, PastGraph
  <2>8. SawRow(c) /\ DocIsClaimed(c, p) /\ VectorIsClaimed(c, p)
    BY <1>1 DEF NodeFits
  <2>9. SawRow(k)
    BY <1>0, <2>4, <2>8, ProbeStages DEF SawRow
  <2>10. s = "probeVectors" => ~Foreign(doc[PlaceOf(c)], p)
    BY <1>0, <1>3, <2>1, ProbeStages DEF Conflicts, PlaceOf, Wanted, Named
  <2>11. s = "probeIds" => ~Foreign(vec[c.id], p)
    BY <1>0, <1>3, <2>1, ProbeStages DEF Conflicts, Named, VectorIsForeign
  <2>12. s = "graph" => ~Foreign(gnode[c.id], p)
    BY <1>0, <1>3, <2>1, ProbeStages DEF Conflicts, Named
  <2>13. DocIsClaimed(k, p)
    BY <1>0, <2>1, <2>4, <2>8, <2>10, ProbeStages DEF DocIsClaimed
  <2>14. VectorIsClaimed(k, p)
    BY <1>0, <2>1, <2>4, <2>8, <2>11, ProbeStages DEF VectorIsClaimed
  <2>15. SeesOwnRow(k, p)
    BY <1>0, <2>4, <2>8, ProbeStages, <2>12 DEF SeesOwnRow, SawRow, Foreign, KeepsPack
  <2>16. NodeFits(k, p)
    BY <2>7, <2>9, <2>13, <2>14, <2>15 DEF NodeFits
  <2> QED BY <1>0, <1>1, <2>3, <2>4, <2>6, <2>16, CallGoesOn
<1> QED BY <1>2, <1>3 DEF Probe

LEMMA ReadDigestSafe ==
    ASSUME WriteInv, NEW w \in Writers, ReadDigest(w)
    PROVE  WriteInv' /\ Moves
<1> DEFINE c == writing[w]
           p == PackOf[w]
<1>0. c.at = "digest" /\ JustReads(w) /\ storeFaults' = storeFaults
  BY DEF ReadDigest
<1>1. c \in NodeCalls /\ c # Rest /\ c.row.pack = p /\ CallTyped(c, p) /\ NodeFits(c, p)
  BY <1>0, ActiveCall DEF NodeStages
<1>2. CASE Ends(w)
  BY <1>0, <1>1, <1>2, CallEnds DEF WriteInv, StoresTyped
<1>3. CASE gnode[c.id] # NoRow /\ writing' = [writing EXCEPT ![w].at = "probeGraph", ![w].seen = gnode[c.id]]
  <2>1. gnode[c.id] \in NodeRows
    BY <1>1, <1>3 DEF NodeCalls, WriteInv, StoresTyped
  <2>2. PICK k : k = [c EXCEPT !.at = "probeGraph", !.seen = gnode[c.id]]
    OBVIOUS
  <2>3. writing' = [writing EXCEPT ![w] = k]
    BY <1>3, <2>2 DEF WriteInv, CallsTyped
  <2>4. k \in NodeCalls /\ k.at = "probeGraph" /\ k.id = c.id /\ k.row = c.row /\ k.seen = gnode[c.id] /\ k.landed = c.landed
    BY <1>1, <2>1, <2>2 DEF NodeCalls, NodeStages
  <2>5. ~k.landed
    BY <1>0, <1>1, <2>4, CallKinds DEF CallTyped, PastGraph, NodeCalls
  <2>6. CallTyped(k, p)
    BY <1>1, <2>4, <2>5 DEF CallTyped, PastGraph
  <2>7. NodeFits(k, p)
    BY <1>3, <2>4, <2>5 DEF NodeFits, SawRow, SeesOwnRow, DocIsClaimed, VectorIsClaimed, RowIsOwn, RowIsThere, CopiesAreThere,
                     PastGraph, KeepsPack
  <2> QED BY <1>0, <1>1, <2>3, <2>4, <2>6, <2>7, CallGoesOn
<1> QED BY <1>2, <1>3 DEF ReadDigest, Named

LEMMA HeldSafe ==
    ASSUME WriteInv, NEW w \in Writers, Held(w)
    PROVE  WriteInv' /\ Moves
<1> DEFINE c == writing[w]
           p == PackOf[w]
<1>0. c.at = "held" /\ JustReads(w) /\ storeFaults' = storeFaults
  BY DEF Held
<1>1. c \in NodeCalls /\ c # Rest /\ c.row.pack = p /\ CallTyped(c, p) /\ NodeFits(c, p)
  BY <1>0, ActiveCall DEF NodeStages
<1>2. PICK s \in {"docs", "bill"} : Goto(w, s) /\ (s = "docs" => gnode[c.id] = c.row)
  BY DEF Held, HoldsRow, Named, Wanted
<1>3. PICK k : k = [c EXCEPT !.at = s]
  OBVIOUS
<1>4. writing' = [writing EXCEPT ![w] = k]
  BY <1>2, <1>3 DEF Goto
<1>5. /\ k \in NodeCalls /\ k.at = s /\ k.id = c.id /\ k.row = c.row /\ k.seen = c.seen
      /\ k.landed = c.landed /\ k.ok = c.ok /\ PlaceOf(k) = PlaceOf(c)
  BY <1>1, <1>3, NodeAt DEF NodeStages
<1>6. ~k.landed /\ ~k.ok
  BY <1>0, <1>1, <1>5, CallKinds DEF CallTyped, PastGraph, NodeCalls
<1>7. CallTyped(k, p)
  BY <1>1, <1>5, <1>6 DEF CallTyped
<1>8. SeesOwnRow(k, p) /\ SawRow(k) /\ CopiesAreThere(k)
  BY <1>5, <1>6, ProbeStages DEF SeesOwnRow, SawRow, CopiesAreThere
<1>9. DocIsClaimed(k, p) /\ VectorIsClaimed(k, p)
  BY <1>0, <1>1, <1>5 DEF NodeFits, DocIsClaimed, VectorIsClaimed
<1>10. c.row # NoRow
  BY <1>1, WriteFacts DEF NodeCalls
<1>11. RowIsOwn(k, p) /\ RowIsThere(k)
  BY <1>1, <1>2, <1>5, <1>6, <1>10 DEF RowIsOwn, RowIsThere, PastGraph
<1>12. NodeFits(k, p)
  BY <1>8, <1>9, <1>11 DEF NodeFits
<1> QED BY <1>0, <1>1, <1>4, <1>5, <1>7, <1>12, CallGoesOn

\* The reads of a call that adds an edge.
LEMMA LookUpEndSafe ==
    ASSUME WriteInv, NEW w \in Writers, LookUpEnds(w)
    PROVE  WriteInv' /\ Moves
<1> DEFINE c == writing[w]
           p == PackOf[w]
<1>0. c.at \in {"fromType", "toType"} /\ JustReads(w) /\ storeFaults' = storeFaults
  BY DEF LookUpEnds, LookUpEnd
<1>1. c \in EdgeCalls /\ c # Rest /\ c.row.pack = p /\ CallTyped(c, p) /\ EdgeFits(c, p)
  BY <1>0, ActiveCall DEF EdgeStages
<1>2. CASE Ends(w)
  BY <1>0, <1>1, <1>2, CallEnds DEF WriteInv, StoresTyped
<1>3. ASSUME NEW end \in {1, 2}, NEW field \in {"fromType", "toType"}, NEW next \in EdgeStages,
             gnode[c.id[end]] # NoRow,
             writing' = [writing EXCEPT ![w].at = next, ![w].row[field] = gnode[c.id[end]].type],
             \/ c.at = "fromType" /\ end = 1 /\ field = "fromType" /\ next = "toType"
             \/ c.at = "toType" /\ end = 2 /\ field = "toType" /\ next = "fromPack"
      PROVE  WriteInv' /\ Moves
  <2>0. c.id \in Links /\ c.id[end] \in WriteNodes
    BY <1>1, WriteFacts DEF EdgeCalls
  <2>1. PICK t \in NodeTypes : t = gnode[c.id[end]].type
    BY <1>3, <2>0 DEF WriteInv, StoresTyped, NodeRows
  <2>2. PICK r : r = [c.row EXCEPT ![field] = t]
    OBVIOUS
  <2>3. PICK k : k = [c EXCEPT !.at = next, !.row = r]
    OBVIOUS
  <2>4. writing' = [writing EXCEPT ![w] = k]
    BY <1>1, <1>3, <2>1, <2>2, <2>3 DEF WriteInv, CallsTyped, EdgeCalls
  <2>5. /\ r \in EdgeWants /\ r[field] = t /\ r.pack = p
        /\ field = "toType" => r.fromType = c.row.fromType
    BY <1>1, <1>3, <2>2 DEF EdgeCalls, EdgeWants
  <2>6. k \in EdgeCalls /\ k.at = next /\ k.id = c.id /\ k.row = r /\ k.landed = c.landed
    BY <1>1, <2>3, <2>5 DEF EdgeCalls
  <2>7. ~k.landed
    BY <1>0, <1>1, <2>6, CallKinds DEF CallTyped, EdgeCalls
  <2>8. CallTyped(k, p)
    BY <2>5, <2>6, <2>7 DEF CallTyped
  <2>9. EdgeFits(k, p)
    BY <1>3, <2>1, <2>5, <2>6, <1>1, <1>0 DEF EndIsSeen, EdgeFits, ToPack, EndIsOwn
  <2> QED BY <1>0, <1>1, <2>4, <2>6, <2>8, <2>9, CallGoesOn
<1>4. "toType" \in EdgeStages /\ "fromPack" \in EdgeStages
  BY DEF EdgeStages
<1> QED BY <1>2, <1>3, <1>4 DEF LookUpEnds, LookUpEnd, Named

LEMMA ProbeEdgeSafe ==
    ASSUME WriteInv, NEW w \in Writers, ProbeEdge(w)
    PROVE  WriteInv' /\ Moves
<1> DEFINE c == writing[w]
           p == PackOf[w]
<1>0. c.at \in {"fromPack", "toPack", "edgePack"} /\ JustReads(w) /\ storeFaults' = storeFaults
  BY ProbeStages DEF ProbeEdge
<1>1. c \in EdgeCalls /\ c # Rest /\ c.row.pack = p /\ CallTyped(c, p) /\ EdgeFits(c, p)
  BY <1>0, ActiveCall DEF EdgeStages
<1>2. CASE Ends(w)
  BY <1>0, <1>1, <1>2, CallEnds DEF WriteInv, StoresTyped
<1>3. CASE ~EdgeConflicts(w) /\ Goto(w, AfterEdgeProbe[c.at])
  <2>1. PICK s \in {"toPack", "edgePack", "edge"} : s = AfterEdgeProbe[c.at]
    BY <1>0, ProbeStages
  <2>2. PICK k : k = [c EXCEPT !.at = s]
    OBVIOUS
  <2>3. writing' = [writing EXCEPT ![w] = k]
    BY <1>3, <2>1, <2>2 DEF Goto
  <2>4. /\ k \in EdgeCalls /\ k.at = s /\ k.id = c.id /\ k.row = c.row /\ k.landed = c.landed
    BY <1>1, <2>2, EdgeAt DEF EdgeStages
  <2>5. ~k.landed
    BY <1>0, <1>1, <2>4, CallKinds DEF CallTyped, EdgeCalls
  <2>6. CallTyped(k, p)
    BY <1>1, <2>4, <2>5 DEF CallTyped
  <2>7. /\ EndIsSeen(c, 1, c.row.fromType, {"toType", "fromPack"} \cup ToPack)
        /\ EndIsSeen(c, 2, c.row.toType, {"fromPack"} \cup ToPack)
        /\ EndIsOwn(c, 1, p, ToPack) /\ EndIsOwn(c, 2, p, ToPack \ {"toPack"})
    BY <1>1 DEF EdgeFits
  <2>8. /\ EndIsSeen(k, 1, k.row.fromType, {"toType", "fromPack"} \cup ToPack)
        /\ EndIsSeen(k, 2, k.row.toType, {"fromPack"} \cup ToPack)
    BY <1>0, <2>4, <2>7 DEF EndIsSeen, ToPack
  <2>9. /\ s = "toPack" => c.at = "fromPack" /\ ~ForeignEnd(w, 1, c.row.fromType)
        /\ s = "edgePack" => c.at = "toPack" /\ ~ForeignEnd(w, 2, c.row.toType)
        /\ s = "edge" => c.at = "edgePack"
    BY <1>0, <1>3, <2>1, ProbeStages DEF EdgeConflicts, Wanted
  <2>10. EndIsOwn(k, 1, p, ToPack)
    BY <2>4, <2>7, <2>9, <2>1 DEF EndIsOwn, EndIsSeen, ToPack, ForeignEnd, Named
  <2>11. EndIsOwn(k, 2, p, ToPack \ {"toPack"})
    BY <2>4, <2>7, <2>9, <2>1 DEF EndIsOwn, EndIsSeen, ToPack, ForeignEnd, Named
  <2>12. EdgeFits(k, p)
    BY <2>4, <2>8, <2>10, <2>11 DEF EdgeFits
  <2> QED BY <1>0, <1>1, <2>3, <2>4, <2>6, <2>12, CallGoesOn
<1> QED BY <1>2, <1>3 DEF ProbeEdge

LEMMA ReadEdgeDigestSafe ==
    ASSUME WriteInv, NEW w \in Writers, ReadEdgeDigest(w)
    PROVE  WriteInv' /\ Moves
<1> DEFINE c == writing[w]
           p == PackOf[w]
<1>0. c.at = "edgeDigest" /\ JustReads(w) /\ storeFaults' = storeFaults
  BY DEF ReadEdgeDigest
<1>1. c \in EdgeCalls /\ c # Rest /\ c.row.pack = p /\ CallTyped(c, p) /\ EdgeFits(c, p)
  BY <1>0, ActiveCall DEF EdgeStages
<1>2. CASE Ends(w)
  BY <1>0, <1>1, <1>2, CallEnds DEF WriteInv, StoresTyped
<1>3. CASE gedge[c.id] # NoRow /\ writing' = [writing EXCEPT ![w].at = "replaceEdge", ![w].seen = gedge[c.id]]
  <2>1. gedge[c.id] \in EdgeRows
    BY <1>1, <1>3 DEF EdgeCalls, WriteInv, StoresTyped
  <2>2. PICK k : k = [c EXCEPT !.at = "replaceEdge", !.seen = gedge[c.id]]
    OBVIOUS
  <2>3. writing' = [writing EXCEPT ![w] = k]
    BY <1>3, <2>2 DEF WriteInv, CallsTyped
  <2>4. k \in EdgeCalls /\ k.at = "replaceEdge" /\ k.id = c.id /\ k.row = c.row /\ k.landed = c.landed
    BY <1>1, <2>1, <2>2 DEF EdgeCalls, EdgeStages
  <2>5. CallTyped(k, p)
    BY <1>0, <1>1, <2>4, CallKinds DEF CallTyped, EdgeCalls
  <2>6. EdgeFits(k, p)
    BY <1>0, <1>1, <2>4 DEF EdgeFits, EndIsSeen, EndIsOwn, ToPack
  <2> QED BY <1>0, <1>1, <2>3, <2>4, <2>5, <2>6, CallGoesOn
<1> QED BY <1>2, <1>3 DEF ReadEdgeDigest, SameEnds, Named

LEMMA HeldEdgeSafe ==
    ASSUME WriteInv, NEW w \in Writers, HeldEdge(w)
    PROVE  WriteInv' /\ Moves
<1> DEFINE c == writing[w]
           p == PackOf[w]
<1>0. c.at = "heldEdge" /\ JustReads(w) /\ storeFaults' = storeFaults
  BY DEF HeldEdge
<1>1. c \in EdgeCalls /\ c # Rest /\ c.row.pack = p /\ CallTyped(c, p) /\ EdgeFits(c, p)
  BY <1>0, ActiveCall DEF EdgeStages
<1>2. PICK s \in {"registerEdge", "billEdge"} : Goto(w, s) /\ (s = "registerEdge" => gedge[c.id] # NoRow)
  BY DEF HeldEdge, EdgeIsThere, SameEnds, Named
<1>3. PICK k : k = [c EXCEPT !.at = s]
  OBVIOUS
<1>4. writing' = [writing EXCEPT ![w] = k]
  BY <1>2, <1>3 DEF Goto
<1>5. k \in EdgeCalls /\ k.at = s /\ k.id = c.id /\ k.row = c.row /\ k.landed = c.landed
  BY <1>1, <1>3, EdgeAt DEF EdgeStages
<1>6. CallTyped(k, p)
  BY <1>1, <1>5 DEF CallTyped
<1>7. EdgeFits(k, p)
  BY <1>2, <1>5 DEF EdgeFits, EndIsSeen, EndIsOwn, ToPack
<1> QED BY <1>0, <1>1, <1>4, <1>5, <1>6, <1>7, CallGoesOn

\* A call begins, fails a read or dies.
LEMMA CallStops ==
    ASSUME WriteInv, NEW w \in Writers, ReadFails(w) \/ CrashWriter(w)
    PROVE  WriteInv' /\ Moves
BY ProbeStages, CallKinds, CallEnds, FaultFits DEF ReadFails, CrashWriter

LEMMA BeginsSafe ==
    ASSUME WriteInv, NEW w \in Writers, NEW stage, NEW id, NEW row, NEW replaces \in BOOLEAN,
           Begins(w, stage, id, row, replaces), row.pack = PackOf[w],
           \/ id \in WriteNodes /\ row \in NodeRows /\ stage \in {"digest", "probeGraph"}
           \/ id \in Links /\ row \in EdgeWants /\ stage = "fromType"
    PROVE  WriteInv' /\ Moves
<1> DEFINE p == PackOf[w]
<1>1. PICK k : k = [at |-> stage, id |-> id, row |-> row, replaces |-> replaces,
                    seen |-> NoRow, landed |-> FALSE, ok |-> TRUE]
  OBVIOUS
<1>5. /\ k.at = stage /\ k.id = id /\ k.row = row /\ k.replaces = replaces /\ k.seen = NoRow /\ k.landed = FALSE /\ k.ok = TRUE
  BY <1>1
<1>2. /\ writing' = [writing EXCEPT ![w] = k]
      /\ oneHost => \A v \in Writers : writing[v] = Rest
      /\ UNCHANGED <<gnode, gedge, copies, edgeRegistry, oneHost, history, graphChanges>>
      /\ writeCalls' \in 0 .. MaxWriteCalls /\ storeFaults' \in 0 .. MaxStoreFaults
  BY <1>1, WriteFacts DEF Begins, WriteInv, StoresTyped
<1>3. CASE id \in WriteNodes /\ row \in NodeRows /\ stage \in {"digest", "probeGraph"}
  <2>1. k \in NodeCalls
    BY <1>1, <1>3 DEF NodeCalls, NodeStages
  <2>2. CallTyped(k, p)
    BY <1>1, <1>3, <2>1 DEF CallTyped, PastGraph
  <2>3. NodeFits(k, p)
    <3> HIDE DEF p
    <3>1. k.at \in {"digest", "probeGraph"} /\ k.seen = NoRow /\ ~k.landed
      BY <1>3, <1>5
    <3>2. SawRow(k) /\ SeesOwnRow(k, p)
      BY <3>1 DEF SawRow, SeesOwnRow
    <3>3. DocIsClaimed(k, p) /\ VectorIsClaimed(k, p)
      BY <3>1 DEF DocIsClaimed, VectorIsClaimed
    <3>4. RowIsOwn(k, p) /\ RowIsThere(k) /\ CopiesAreThere(k)
      BY <3>1 DEF RowIsOwn, RowIsThere, CopiesAreThere, PastGraph
    <3> QED BY <3>2, <3>3, <3>4 DEF NodeFits
  <2>4. /\ k \in {Rest} \cup NodeCalls \cup EdgeCalls
        /\ k \in NodeCalls => NodeFits(k, PackOf[w])
        /\ k \in EdgeCalls => EdgeFits(k, PackOf[w])
    BY <2>1, <2>3, CallKinds
  <2>5. CallTyped(k, PackOf[w])
    BY <2>2
  <2> HIDE DEF p
  <2> QED BY <1>2, <2>4, <2>5, CallReads
<1>4. CASE id \in Links /\ row \in EdgeWants /\ stage = "fromType"
  <2>1. k \in EdgeCalls
    BY <1>1, <1>4 DEF EdgeCalls, EdgeStages
  <2>2. CallTyped(k, p)
    BY <1>1, <1>4, <2>1 DEF CallTyped
  <2>3. EdgeFits(k, p)
    <3> HIDE DEF p
    <3>1. k.at = "fromType"
      BY <1>4, <1>5
    <3> QED BY <3>1 DEF EdgeFits, EndIsSeen, EndIsOwn, ToPack
  <2>4. /\ k \in {Rest} \cup NodeCalls \cup EdgeCalls
        /\ k \in NodeCalls => NodeFits(k, PackOf[w])
        /\ k \in EdgeCalls => EdgeFits(k, PackOf[w])
    BY <2>1, <2>3, CallKinds
  <2>5. CallTyped(k, PackOf[w])
    BY <2>2
  <2> HIDE DEF p
  <2> QED BY <1>2, <2>4, <2>5, CallReads
<1> QED BY <1>3, <1>4

LEMMA BeginSafe ==
    ASSUME WriteInv, NEW w \in Writers,
           \/ \E i \in WriteNodes, type \in NodeTypes, text \in Texts, replaces \in BOOLEAN : BeginNode(w, i, type, text, replaces)
           \/ \E link \in Links, text \in EdgeTexts, replaces \in BOOLEAN : BeginEdge(w, link, text, replaces)
    PROVE  WriteInv' /\ Moves
<1>0. PackOf[w] \in WritePacks
  BY WriteFacts
<1>1. ASSUME NEW i \in WriteNodes, NEW type \in NodeTypes, NEW text \in Texts, NEW replaces \in BOOLEAN,
             BeginNode(w, i, type, text, replaces)
      PROVE  WriteInv' /\ Moves
  BY <1>0, <1>1, BeginsSafe DEF NodeRows, RowOwners, BeginNode
<1>2. ASSUME NEW link \in Links, NEW text \in EdgeTexts, NEW replaces \in BOOLEAN, BeginEdge(w, link, text, replaces)
      PROVE  WriteInv' /\ Moves
  BY <1>0, <1>2, BeginsSafe DEF EdgeWants, BeginEdge
<1> QED BY <1>1, <1>2

\* The edges that a new type of their ends is given to.
LEMMA RetypedEdges ==
    ASSUME StoresTyped, NEW types, \A i \in DOMAIN types : types[i] \in NodeTypes, NEW l \in Links
    PROVE  /\ Retyped(types)[l] \in EdgeRows \cup {NoRow}
           /\ gedge[l] = NoRow => Retyped(types)[l] = NoRow
           /\ gedge[l] # NoRow =>
                /\ Retyped(types)[l] # NoRow /\ Retyped(types)[l].pack = gedge[l].pack
                /\ Retyped(types)[l].fromType = IF l[1] \in DOMAIN types THEN types[l[1]] ELSE gedge[l].fromType
                /\ Retyped(types)[l].toType = IF l[2] \in DOMAIN types THEN types[l[2]] ELSE gedge[l].toType
<1>1. CASE gedge[l] = NoRow
  BY <1>1 DEF Retyped
<1>2. CASE gedge[l] # NoRow
  <2>1. PICK e : e = gedge[l]
    OBVIOUS
  <2>2. e \in EdgeRows
    BY <1>2, <2>1 DEF StoresTyped
  <2>3. PICK f : f = IF l[1] \in DOMAIN types THEN types[l[1]] ELSE e.fromType
    OBVIOUS
  <2>4. PICK t : t = IF l[2] \in DOMAIN types THEN types[l[2]] ELSE e.toType
    OBVIOUS
  <2>5. f \in NodeTypes /\ t \in NodeTypes
    BY <2>2, <2>3, <2>4 DEF EdgeRows
  <2>6. PICK r : r = [e EXCEPT !.fromType = f, !.toType = t]
    OBVIOUS
  <2>7. Retyped(types)[l] = r
    BY <1>2, <2>1, <2>2, <2>3, <2>4, <2>6 DEF Retyped, EdgeRows
  <2>8. r \in EdgeRows /\ r.pack = e.pack /\ r.fromType = f /\ r.toType = t
    BY <2>2, <2>5, <2>6 DEF EdgeRows
  <2>9. r # NoRow
    BY <2>8, WriteFacts
  <2> QED BY <1>2, <2>1, <2>3, <2>4, <2>7, <2>8, <2>9
<1> QED BY <1>1, <1>2

LEMMA RetypedTyped ==
    ASSUME StoresTyped, NEW types, \A i \in DOMAIN types : types[i] \in NodeTypes
    PROVE  Retyped(types) \in [Links -> EdgeRows \cup {NoRow}]
BY RetypedEdges DEF Retyped

\* A node with a new row, and its edges with the new type, still fit.
LEMMA RetypedFit ==
    ASSUME StoresTyped, NEW types, \A i \in DOMAIN types : types[i] \in NodeTypes,
           \A l \in Links : EdgeFitsEnds(l), gedge' = Retyped(types),
           \A i \in WriteNodes : gnode[i] # NoRow =>
               gnode'[i] # NoRow /\ gnode'[i].type = IF i \in DOMAIN types THEN types[i] ELSE gnode[i].type
    PROVE  \A l \in Links : EdgeFitsEnds(l)'
BY RetypedEdges, WriteFacts DEF EdgeFitsEnds

LEMMA EdgesHaveEnds ==
    ASSUME WriteInv
    PROVE  \A l \in Links : EdgeFitsEnds(l)
BY WholeParts DEF WriteInv, WholeRows

\* The other writers of the graph.
LEMMA GraphCounted ==
    ASSUME WriteInv, ChangesGraph
    PROVE  /\ UNCHANGED <<doc, registry, vec, edgeRegistry, writing, oneHost, billed, settled, replaced>>
           /\ writeCalls' \in 0 .. MaxWriteCalls /\ storeFaults' \in 0 .. MaxStoreFaults
           /\ graphChanges' \in 0 .. MaxGraphChanges
BY WriteFacts DEF WriteInv, StoresTyped, ChangesGraph, copies

\* What another writer's step leaves to be shown: where it touched nothing.
LEMMA GraphChanged ==
    ASSUME WriteInv, ChangesGraph,
           gnode' \in [WriteNodes -> NodeRows \cup {NoRow}], gedge' \in [Links -> EdgeRows \cup {NoRow}],
           touched \subseteq touched', touched' \subseteq WriteNodes \cup Links,
           \A i \in WriteNodes \ touched' : gnode[i] # NoRow => gnode'[i] = gnode[i],
           \A l \in Links \ touched' : IF gedge[l] = NoRow THEN gedge'[l] = NoRow
                                       ELSE gedge'[l] # NoRow /\ gedge'[l].pack = gedge[l].pack,
           \A l \in Links : EdgeFitsEnds(l)'
    PROVE  WriteInv' /\ Moves
<1>1. /\ UNCHANGED <<doc, registry, vec, edgeRegistry, writing, oneHost, billed, settled, replaced>>
      /\ writeCalls' \in 0 .. MaxWriteCalls /\ storeFaults' \in 0 .. MaxStoreFaults
      /\ graphChanges' \in 0 .. MaxGraphChanges
  BY GraphCounted
<1>2. StoresTyped'
  BY <1>1 DEF WriteInv, StoresTyped
<1>3. Moves
  <2>1. \A i \in WriteNodes \ touched' : NodeMoves(i) /\ VectorMoves(i)
    BY <1>1 DEF NodeMoves, VectorMoves, KeepsPack
  <2>2. \A l \in Links \ touched' : EdgeMoves(l)
    BY <1>1 DEF EdgeMoves
  <2>3. ASSUME NEW i \in settled \cap settled', Secured(i)'
        PROVE  gnode'[i] = gnode[i]
    BY <1>1, <2>3, WholeParts DEF WriteInv, StoresTyped, Secured, WholeRows, Everywhere
  <2>4. \A k : DocMoves(k) /\ RegistryMoves(k)
    BY <1>1 DEF DocMoves, RegistryMoves
  <2> QED BY <1>1, <2>1, <2>2, <2>3, <2>4 DEF Moves
<1>4. UNCHANGED <<edgeRegistry, billed, settled>> /\ writing' = writing
  BY <1>1
<1> QED BY <1>2, <1>3, <1>4, OthersMove

LEMMA UpsertNodesSafe ==
    ASSUME WriteInv, NEW rows \in NodeBatches, UpsertNodes(rows)
    PROVE  WriteInv' /\ Moves
BY WriteAssumption, EdgesHaveEnds, WriteFacts, GraphChanged DEF UpsertNodes, WriteInv, StoresTyped,
   EdgeFitsEnds

LEMMA UpsertEdgesSafe ==
    ASSUME WriteInv, NEW edges \in EdgeBatches, UpsertEdges(edges)
    PROVE  WriteInv' /\ Moves
BY WriteAssumption, EdgesHaveEnds, GraphChanged DEF UpsertEdges, WriteInv, StoresTyped,
   EdgeFitsEnds, EndsMatch

LEMMA UpdateNodesSafe ==
    ASSUME WriteInv, NEW rows \in NodeBatches, UpdateNodes(rows)
    PROVE  WriteInv' /\ Moves
<1>1. DOMAIN rows \subseteq WriteNodes /\ \A i \in DOMAIN rows : rows[i] \in NodeRows
  BY WriteAssumption
<1>2. PICK types : types = [i \in DOMAIN rows |-> rows[i].type]
  OBVIOUS
<1>3. /\ ChangesGraph
      /\ gnode' = [i \in WriteNodes |-> IF i \in DOMAIN rows THEN rows[i] ELSE gnode[i]]
      /\ gedge' = Retyped(types) /\ touched' = touched \cup DOMAIN rows
  BY <1>2 DEF UpdateNodes
<1>4. DOMAIN types = DOMAIN rows /\ \A i \in DOMAIN types : types[i] = rows[i].type /\ types[i] \in NodeTypes
  BY <1>1, <1>2 DEF NodeRows
<1>5. gnode' \in [WriteNodes -> NodeRows \cup {NoRow}]
  BY <1>1, <1>3 DEF WriteInv, StoresTyped
<1>6. gedge' \in [Links -> EdgeRows \cup {NoRow}]
  BY <1>3, <1>4, RetypedTyped DEF WriteInv
<1>7. \A i \in WriteNodes : gnode[i] # NoRow =>
         gnode'[i] # NoRow /\ gnode'[i].type = IF i \in DOMAIN types THEN types[i] ELSE gnode[i].type
  BY <1>1, <1>3, <1>4, WriteFacts
<1>8. \A l \in Links : EdgeFitsEnds(l)'
  BY <1>3, <1>4, <1>7, EdgesHaveEnds, RetypedFit DEF WriteInv
<1>9. \A i \in WriteNodes \ touched' : gnode'[i] = gnode[i]
  BY <1>3
<1>10. \A l \in Links : IF gedge[l] = NoRow THEN gedge'[l] = NoRow
                        ELSE gedge'[l] # NoRow /\ gedge'[l].pack = gedge[l].pack
  BY <1>3, <1>4, RetypedEdges DEF WriteInv
<1>11. touched \subseteq touched' /\ touched' \subseteq WriteNodes \cup Links
  BY <1>1, <1>3 DEF WriteInv, StoresTyped
<1> QED BY <1>3, <1>5, <1>6, <1>8, <1>9, <1>10, <1>11, GraphChanged

LEMMA DeleteNodeSafe ==
    ASSUME WriteInv, NEW i \in WriteNodes, DeleteNode(i)
    PROVE  WriteInv' /\ Moves
BY EdgesHaveEnds, WriteFacts, GraphChanged DEF DeleteNode, WithoutEdgesOf, WriteInv, StoresTyped,
   EdgeFitsEnds

LEMMA DeleteEdgeSafe ==
    ASSUME WriteInv, NEW l \in Links, NEW pack, DeleteEdge(l, pack)
    PROVE  WriteInv' /\ Moves
BY EdgesHaveEnds, GraphChanged DEF DeleteEdge, WriteInv, StoresTyped, EdgeFitsEnds

LEMMA OwnedRows ==
    ASSUME NEW pack \in WritePacks, NEW row
    PROVE  /\ row \in NodeRows \cup {NoRow} => Owned(row, pack) \in NodeRows \cup {NoRow}
           /\ row \in EdgeRows \cup {NoRow} => Owned(row, pack) \in EdgeRows \cup {NoRow}
           /\ row = NoRow => Owned(row, pack) = NoRow
           /\ row \in NodeRows => Owned(row, pack) # NoRow /\ Owned(row, pack).type = row.type
           /\ row \in EdgeRows => /\ Owned(row, pack) # NoRow /\ Owned(row, pack).fromType = row.fromType
                                  /\ Owned(row, pack).toType = row.toType
BY WriteFacts DEF Owned, NodeRows, RowOwners, EdgeRows

LEMMA AssignPacksSafe ==
    ASSUME WriteInv, NEW ids \in SUBSET WriteNodes, NEW links \in SUBSET Links, NEW pack \in WritePacks,
           AssignPacks(ids, links, pack)
    PROVE  WriteInv' /\ Moves
BY OwnedRows, EdgesHaveEnds, WriteFacts, GraphChanged DEF AssignPacks, WriteInv, StoresTyped,
   EdgeFitsEnds

\* A step that changes nothing of the stores or of the calls.
LEMMA WriteStutters ==
    ASSUME WriteInv, UNCHANGED <<gnode, gedge, doc, registry, vec, edgeRegistry, writing, oneHost, billed, settled, replaced, touched>>,
           writeCalls' = writeCalls, storeFaults' = storeFaults, graphChanges' = graphChanges
    PROVE  WriteInv' /\ Moves
BY StillMoves, EdgesHaveEnds, OthersMove DEF copies, WriteInv, StoresTyped, EdgeFitsEnds

\* The graph takes a node's row: upsert_node's, or update_node's over the row read.
LEMMA GraphTakesNode ==
    ASSUME WriteInv, NEW w \in Writers, NEW c, c = writing[w], NEW p, p = PackOf[w], c.at = "graph",
           GraphAccepts(w), GraphTakes(w), UNCHANGED <<copies, edgeRegistry, oneHost, billed, touched>>,
           writeCalls' \in 0 .. MaxWriteCalls, storeFaults' \in 0 .. MaxStoreFaults, graphChanges' = graphChanges
    PROVE  /\ StoresTyped' /\ Moves /\ NewIsWhole /\ gnode'[c.id] = c.row
           /\ \A l \in Links : EdgeFitsEnds(l)'
           /\ c.id \notin touched => ~Foreign(doc[PlaceOf(c)], p) /\ ~Foreign(vec[c.id], p)
<1>0. c \in NodeCalls /\ c.row.pack = p /\ p \in WritePacks /\ NodeFits(c, p)
  BY ActiveCall DEF NodeStages
<1>1. c.id \in WriteNodes /\ c.row \in NodeRows /\ c.row # NoRow /\ c.row.type \in NodeTypes
  BY <1>0, WriteFacts DEF NodeCalls, NodeRows
<1>2. PICK types : types = [n \in {c.id} |-> c.row.type]
  OBVIOUS
<1>3. DOMAIN types = {c.id} /\ \A n \in DOMAIN types : types[n] = c.row.type /\ types[n] \in NodeTypes
  BY <1>1, <1>2
<1>4. /\ gnode' = [gnode EXCEPT ![c.id] = c.row]
      /\ gedge' = IF c.seen = NoRow THEN gedge ELSE Retyped(types)
      /\ settled' = IF gnode[c.id] = c.row THEN settled ELSE settled \ {c.id}
      /\ replaced' = IF gnode[c.id] \in {NoRow, c.row} THEN replaced ELSE replaced \cup {c.id}
  BY <1>2 DEF GraphTakes, Named, Wanted
<1>5. \/ c.seen = NoRow /\ gnode[c.id] \in {NoRow, c.row}
      \/ c.seen # NoRow /\ gnode[c.id] = c.seen
  BY DEF GraphAccepts, Named, Wanted
<1>6. /\ UNCHANGED <<doc, registry, vec, edgeRegistry, oneHost, billed, touched>>
  BY DEF copies
<1>7. gnode'[c.id] = c.row /\ \A n \in WriteNodes : n # c.id => gnode'[n] = gnode[n]
  BY <1>1, <1>4 DEF WriteInv, StoresTyped
<1>8. c.id \notin touched => ~Foreign(gnode[c.id], p)
  BY <1>0, <1>5 DEF NodeFits, SeesOwnRow, Foreign
<1>9. c.id \notin touched => ~Foreign(doc[PlaceOf(c)], p) /\ ~Foreign(vec[c.id], p)
  BY <1>0, <1>8 DEF NodeFits, DocIsClaimed, VectorIsClaimed, Foreign
<1>10. gedge' \in [Links -> EdgeRows \cup {NoRow}]
  BY <1>3, RetypedTyped, <1>4 DEF WriteInv, StoresTyped
<1>11. StoresTyped'
  BY <1>1, <1>4, <1>6, <1>10 DEF WriteInv, StoresTyped
<1>12. \A l \in Links : IF gedge[l] = NoRow THEN gedge'[l] = NoRow
                        ELSE gedge'[l] # NoRow /\ gedge'[l].pack = gedge[l].pack
  BY <1>3, <1>4, RetypedEdges DEF WriteInv
<1>13. Moves
  <2>1. ASSUME NEW n \in WriteNodes \ touched'
        PROVE  NodeMoves(n) /\ VectorMoves(n)
    <3>1. VectorMoves(n)
      BY <1>6 DEF VectorMoves
    <3>2. CASE n = c.id
      BY <1>0, <1>6, <1>7, <1>8, <2>1, <3>2, <1>1, <1>4, <3>1 DEF KeepsPack, Foreign, NodeMoves
    <3>3. CASE n # c.id
      BY <1>7, <3>1, <3>3 DEF NodeMoves, KeepsPack
    <3> QED BY <3>2, <3>3
  <2>2. \A l \in Links \ touched' : EdgeMoves(l)
    BY <1>12 DEF EdgeMoves
  <2>3. \A n \in settled \cap settled' : gnode'[n] = gnode[n]
    BY <1>4, <1>7 DEF WriteInv, StoresTyped
  <2>4. \A k : DocMoves(k) /\ RegistryMoves(k)
    BY <1>6 DEF DocMoves, RegistryMoves
  <2>5. touched \subseteq touched' /\ replaced \subseteq replaced'
    BY <1>4, <1>6
  <2> QED BY <1>6, <2>1, <2>2, <2>3, <2>4, <2>5 DEF Moves
<1>14. NewIsWhole
  BY <1>4, <1>6 DEF NewIsWhole
<1>15. \A l \in Links : EdgeFitsEnds(l)'
  BY <1>4, <1>5, <1>7, EdgesHaveEnds, WriteFacts, <1>1, <1>3, RetypedFit DEF EdgeFitsEnds, WriteInv
<1> QED BY <1>7, <1>9, <1>11, <1>13, <1>14, <1>15

\* The call whose row the graph took, or that does not know.
LEMMA TakenFits ==
    ASSUME NEW c \in NodeCalls, NEW k \in NodeCalls, NEW p \in WritePacks, c.row.pack = p, k.at \in {"docs", "held"},
           k.id = c.id, k.row = c.row, PlaceOf(k) = PlaceOf(c), gnode'[c.id] = c.row,
           UNCHANGED <<doc, vec, touched>>,
           c.id \notin touched => ~Foreign(doc[PlaceOf(c)], p) /\ ~Foreign(vec[c.id], p)
    PROVE  NodeFits(k, p)'
<1>1. SawRow(k)' /\ SeesOwnRow(k, p)' /\ CopiesAreThere(k)'
  BY ProbeStages DEF SawRow, SeesOwnRow, CopiesAreThere
<1>2. PICK place : place = PlaceOf(k)
  OBVIOUS
<1>3. (PlaceOf(k) = place)'
  BY <1>2 DEF PlaceOf, SpaceOf
<1>4. DocIsClaimed(k, p)'
  BY <1>2, <1>3 DEF DocIsClaimed
<1>5. VectorIsClaimed(k, p)'
  BY DEF VectorIsClaimed
<1>6. c.row # NoRow
  BY WriteFacts DEF NodeCalls
<1>7. RowIsOwn(k, p)' /\ RowIsThere(k)'
  BY <1>6 DEF RowIsOwn, RowIsThere
<1> QED BY <1>1, <1>4, <1>5, <1>7 DEF NodeFits

LEMMA WriteGraphSafe ==
    ASSUME WriteInv, NEW w \in Writers, WriteGraph(w)
    PROVE  WriteInv' /\ Moves
<1>1. PICK c : c = writing[w]
  OBVIOUS
<1>2. PICK p : p = PackOf[w]
  OBVIOUS
<1>3. c.at = "graph" /\ UNCHANGED <<copies, edgeRegistry, oneHost, billed, touched, graphChanges>>
  BY <1>1 DEF WriteGraph
<1>4. writeCalls' \in 0 .. MaxWriteCalls /\ storeFaults' \in 0 .. MaxStoreFaults
  BY DEF WriteGraph, WriteInv, StoresTyped
<1>5. c \in NodeCalls /\ c # Rest /\ c.row.pack = p /\ p \in WritePacks /\ CallTyped(c, p) /\ NodeFits(c, p)
  BY <1>1, <1>2, <1>3, ActiveCall DEF NodeStages
<1>6. CASE GraphAccepts(w) /\ GraphTakes(w) /\ writing' = [writing EXCEPT ![w].at = "docs", ![w].landed = TRUE]
  <2>1. PICK k : k = [c EXCEPT !.at = "docs", !.landed = TRUE]
    OBVIOUS
  <2>2. writing' = [writing EXCEPT ![w] = k]
    BY <1>1, <1>6, <2>1 DEF WriteInv, CallsTyped
  <2>3. k \in NodeCalls /\ k.at = "docs" /\ k.id = c.id /\ k.row = c.row /\ k.landed = TRUE
    BY <1>5, <2>1 DEF NodeCalls, NodeStages
  <2>4. PlaceOf(k) = PlaceOf(c)
    BY <2>3 DEF PlaceOf
  <2>5. /\ StoresTyped' /\ Moves /\ NewIsWhole /\ gnode'[c.id] = c.row
        /\ \A l \in Links : EdgeFitsEnds(l)'
        /\ c.id \notin touched => ~Foreign(doc[PlaceOf(c)], p) /\ ~Foreign(vec[c.id], p)
    BY <1>1, <1>2, <1>3, <1>4, <1>6, GraphTakesNode
  <2>6. NodeFits(k, p)'
    BY <1>3, <1>5, <2>3, <2>4, <2>5, TakenFits DEF copies
  <2>7. CallTyped(k, p)
    BY <1>5, <2>3 DEF CallTyped, PastGraph
  <2>8. k \notin EdgeCalls
    BY <2>3, CallKinds
  <2> QED BY <1>1, <1>2, <1>5, <2>2, <2>3, <2>5, <2>6, <2>7, <2>8, CallMoves
<1>7. CASE Ends(w) /\ UNCHANGED <<gnode, gedge, settled, replaced>>
  BY <1>7, <1>3, <1>1, <1>4, <1>5, RestIsTyped, CallKinds, CallReads DEF Ends, history
<1> QED BY <1>6, <1>7 DEF WriteGraph

LEMMA WriteGraphFailsSafe ==
    ASSUME WriteInv, NEW w \in Writers, WriteGraphFails(w)
    PROVE  WriteInv' /\ Moves
<1>1. PICK c : c = writing[w]
  OBVIOUS
<1>2. PICK p : p = PackOf[w]
  OBVIOUS
<1>3. c.at = "graph" /\ UNCHANGED <<copies, edgeRegistry, oneHost, billed, touched, graphChanges>>
  BY <1>1 DEF WriteGraphFails
<1>4. writeCalls' \in 0 .. MaxWriteCalls /\ storeFaults' \in 0 .. MaxStoreFaults
  BY FaultFits DEF WriteGraphFails, WriteInv, StoresTyped
<1>5. c \in NodeCalls /\ c # Rest /\ c.row.pack = p /\ p \in WritePacks /\ CallTyped(c, p) /\ NodeFits(c, p)
  BY <1>1, <1>2, <1>3, ActiveCall DEF NodeStages
<1>6. PICK k : k = [c EXCEPT !.at = "held", !.ok = FALSE]
  OBVIOUS
<1>7. writing' = [writing EXCEPT ![w] = k]
  BY <1>1, <1>6 DEF WriteInv, CallsTyped, WriteGraphFails
<1>8. k \in NodeCalls /\ k.at = "held" /\ k.id = c.id /\ k.row = c.row /\ k.landed = c.landed /\ k.ok = FALSE
  BY <1>5, <1>6 DEF NodeCalls, NodeStages
<1>9. PlaceOf(k) = PlaceOf(c)
  BY <1>8 DEF PlaceOf
<1>10. ~c.landed
  BY <1>3, <1>5, CallKinds DEF CallTyped, PastGraph, NodeCalls
<1>11. CallTyped(k, p)
  BY <1>5, <1>8, <1>10 DEF CallTyped
<1>12. k \notin EdgeCalls
  BY <1>8, CallKinds
<1>13. CASE UNCHANGED <<gnode, gedge, settled, replaced>>
  <2>1. SawRow(k) /\ SeesOwnRow(k, p) /\ RowIsOwn(k, p) /\ RowIsThere(k) /\ CopiesAreThere(k)
    BY <1>8, <1>10, ProbeStages DEF SawRow, SeesOwnRow, RowIsOwn, RowIsThere, CopiesAreThere, PastGraph
  <2>2. DocIsClaimed(k, p) /\ VectorIsClaimed(k, p)
    BY <1>3, <1>5, <1>8, <1>9 DEF NodeFits, DocIsClaimed, VectorIsClaimed
  <2>3. NodeFits(k, p)
    BY <2>1, <2>2 DEF NodeFits
  <2>4. UNCHANGED <<gnode, gedge, copies, edgeRegistry, oneHost, history, graphChanges>>
    BY <1>3, <1>13 DEF history
  <2> QED BY <1>1, <1>2, <1>4, <1>5, <1>7, <1>8, <1>11, <1>12, <2>3, <2>4, CallReads
<1>14. CASE GraphAccepts(w) /\ GraphTakes(w)
  <2>1. /\ StoresTyped' /\ Moves /\ NewIsWhole /\ gnode'[c.id] = c.row
        /\ \A l \in Links : EdgeFitsEnds(l)'
        /\ c.id \notin touched => ~Foreign(doc[PlaceOf(c)], p) /\ ~Foreign(vec[c.id], p)
    BY <1>1, <1>2, <1>3, <1>4, <1>14, GraphTakesNode
  <2>2. NodeFits(k, p)'
    BY <1>3, <1>5, <1>8, <1>9, <2>1, TakenFits DEF copies
  <2> QED BY <1>1, <1>2, <1>5, <1>7, <1>8, <1>11, <1>12, <2>1, <2>2, CallMoves
<1> QED BY <1>13, <1>14 DEF WriteGraphFails

\* The document, the registry row and the vector of a call.
LEMMA CopyWritten ==
    ASSUME WriteInv, NEW w \in Writers, NEW c, c = writing[w], NEW p, p = PackOf[w],
           UNCHANGED <<gnode, gedge, edgeRegistry, oneHost, history, graphChanges>>,
           writeCalls' = writeCalls, storeFaults' \in 0 .. MaxStoreFaults,
           doc' \in [NodeSpaces \X WriteNodes -> NodeRows \cup {NoRow}],
           registry' \in [NodeSpaces \X WriteNodes -> NodeTypes \cup {NoRow}],
           vec' \in [WriteNodes -> Vectors \cup {NoRow}],
           \A i \in WriteNodes \ touched : VectorMoves(i),
           \A q \in NodeSpaces \X WriteNodes : q[2] \notin touched => DocMoves(q) /\ RegistryMoves(q),
           NEW s \in PastGraph \cup {"bill"}, c.at \in PastGraph,
           s = "sql" => c.at = "docs", s = "vector" => c.at = "sql", s # "docs", s = "bill" => c.at = "vector",
           NEW k \in NodeCalls, writing' = [writing EXCEPT ![w] = k], k.at = s, k.id = c.id, k.row = c.row,
           k.landed = c.landed, k.ok => c.ok,
           k.ok /\ Secured(c.id) => /\ s = "sql" => doc'[PlaceOf(c)] = c.row
                                    /\ s = "vector" => doc'[PlaceOf(c)] = c.row /\ registry'[PlaceOf(c)] = c.row.type
                                    /\ s = "bill" => /\ doc'[PlaceOf(c)] = c.row /\ registry'[PlaceOf(c)] = c.row.type
                                                     /\ vec'[c.id] = VectorOf(c.row),
           vec' = vec \/ s = "bill"
    PROVE  WriteInv' /\ Moves
<1>0. c \in NodeCalls /\ c # Rest /\ c.row.pack = p /\ p \in WritePacks /\ CallTyped(c, p) /\ NodeFits(c, p)
  BY ActiveCall DEF NodeStages, PastGraph
<1>1. UNCHANGED <<billed, settled, replaced, touched>>
  BY DEF history
<1>2. StoresTyped'
  BY <1>1 DEF WriteInv, StoresTyped
<1>3. Moves
  BY <1>1 DEF NodeMoves, KeepsPack, EdgeMoves, Moves
<1>4. NewIsWhole
  BY <1>1 DEF NewIsWhole
<1>5. \A l \in Links : EdgeFitsEnds(l)'
  BY EdgesHaveEnds DEF EdgeFitsEnds
<1>6. CallTyped(k, p)
  BY <1>0, CallKinds DEF CallTyped
<1>7. NodeFits(k, p)'
  <2>1. SawRow(k)' /\ SeesOwnRow(k, p)' /\ DocIsClaimed(k, p)'
    BY ProbeStages DEF SawRow, SeesOwnRow, DocIsClaimed, PastGraph
  <2>2. VectorIsClaimed(k, p)'
    BY <1>0, <1>1 DEF NodeFits, VectorIsClaimed, PastGraph
  <2>3. RowIsOwn(k, p)'
    BY <1>0, <1>1 DEF NodeFits, RowIsOwn
  <2>4. RowIsThere(k)'
    BY <1>0, <1>1 DEF NodeFits, RowIsThere, Secured
  <2>5. CopiesAreThere(k)'
    BY <1>1 DEF PlaceOf, SpaceOf, VectorOf, Secured, CopiesAreThere
  <2> QED BY <2>1, <2>2, <2>3, <2>4, <2>5 DEF NodeFits
<1>8. k \notin EdgeCalls
  BY CallKinds
<1> QED BY <1>0, <1>2, <1>3, <1>4, <1>5, <1>6, <1>7, <1>8, CallMoves

LEMMA CopyFacts ==
    ASSUME WriteInv, NEW w \in Writers, NEW c, c = writing[w], NEW p, p = PackOf[w], c.at \in PastGraph
    PROVE  /\ c \in NodeCalls /\ c.row.pack = p /\ p # Unattributed
           /\ c.id \in WriteNodes /\ c.row \in NodeRows /\ c.row # NoRow
           /\ PlaceOf(c) \in NodeSpaces \X WriteNodes /\ PlaceOf(c)[2] = c.id
           /\ c.id \notin touched => gnode[c.id] # NoRow /\ gnode[c.id].pack = p
           /\ Secured(c.id) => gnode[c.id] = c.row
           /\ CopiesAreThere(c)
           /\ c.at = "docs" /\ c.id \notin touched => ~Foreign(doc[PlaceOf(c)], p)
           /\ c.id \notin touched => ~Foreign(vec[c.id], p)
<1>0. c \in NodeCalls /\ c # Rest /\ c.row.pack = p /\ p \in WritePacks /\ CallTyped(c, p) /\ NodeFits(c, p)
  BY ActiveCall DEF NodeStages, PastGraph
<1>1. c.id \in WriteNodes /\ c.row \in NodeRows /\ c.row # NoRow
  BY <1>0, WriteFacts DEF NodeCalls
<1>2. SpaceOf(c.row) \in NodeSpaces
  BY <1>1, WriteFacts DEF SpaceOf, NodeRows
<1>3. /\ c.id \notin touched => gnode[c.id] # NoRow /\ gnode[c.id].pack = p
      /\ Secured(c.id) => gnode[c.id] = c.row
  BY <1>0 DEF NodeFits, RowIsOwn, RowIsThere
<1>4. c.at = "docs" /\ c.id \notin touched => ~Foreign(doc[PlaceOf(c)], p)
  BY <1>0, <1>3 DEF NodeFits, DocIsClaimed, Foreign
<1>5. c.id \notin touched => ~Foreign(vec[c.id], p)
  BY <1>0, <1>3 DEF NodeFits, VectorIsClaimed, Foreign, PastGraph
<1> QED BY <1>0, <1>1, <1>2, <1>3, <1>4, <1>5, WriteFacts DEF PlaceOf, NodeFits

LEMMA CopyStep ==
    ASSUME WriteInv, NEW w \in Writers, NEW c \in NodeCalls, c = writing[w], NEW next \in NodeStages, NEW good \in BOOLEAN,
           UNCHANGED <<gnode, gedge, edgeRegistry, oneHost, history, surveyed, writeCalls, graphChanges>>,
           good => Goto(w, next) /\ UNCHANGED storeFaults,
           ~good => Faulty /\ writing' = [writing EXCEPT ![w].at = next, ![w].ok = FALSE]
    PROVE  /\ storeFaults' \in 0 .. MaxStoreFaults
           /\ \E k \in NodeCalls : /\ writing' = [writing EXCEPT ![w] = k] /\ k.at = next /\ k.id = c.id
                                   /\ k.row = c.row /\ k.landed = c.landed /\ (k.ok => good /\ c.ok)
<1>2. storeFaults' \in 0 .. MaxStoreFaults
  BY FaultFits
<1>3. CASE good
  <2>1. PICK k : k = [c EXCEPT !.at = next]
    OBVIOUS
  <2>2. k \in NodeCalls /\ k.at = next /\ k.id = c.id /\ k.row = c.row /\ k.landed = c.landed /\ k.ok = c.ok
    BY <2>1 DEF NodeCalls
  <2>3. writing' = [writing EXCEPT ![w] = k]
    BY <1>3, <2>1 DEF Goto
  <2> QED BY <1>2, <1>3, <2>2, <2>3
<1>4. CASE ~good
  BY <1>4, <1>2 DEF NodeCalls, WriteInv, CallsTyped
<1> QED BY <1>3, <1>4

LEMMA WriteDocSafe ==
    ASSUME WriteInv, NEW w \in Writers, WriteDoc(w)
    PROVE  WriteInv' /\ Moves
<1>1. PICK c : c = writing[w]
  OBVIOUS
<1>2. PICK p : p = PackOf[w]
  OBVIOUS
<1>3. c.at = "docs" /\ c.at \in PastGraph /\ registry' = registry /\ vec' = vec
  BY <1>1 DEF WriteDoc, WriteCopy, PastGraph
<1>4. /\ c \in NodeCalls /\ c.row.pack = p /\ p # Unattributed
      /\ c.id \in WriteNodes /\ c.row \in NodeRows /\ c.row # NoRow
      /\ PlaceOf(c) \in NodeSpaces \X WriteNodes /\ PlaceOf(c)[2] = c.id
      /\ c.id \notin touched => gnode[c.id] # NoRow /\ gnode[c.id].pack = p
      /\ Secured(c.id) => gnode[c.id] = c.row
      /\ c.id \notin touched => ~Foreign(doc[PlaceOf(c)], p)
  BY <1>1, <1>2, <1>3, CopyFacts
<1>5. PICK place : place = PlaceOf(c)
  OBVIOUS
<1>6. PICK good \in BOOLEAN : good <=> doc' = [doc EXCEPT ![place] = c.row] /\ Goto(w, "sql") /\ UNCHANGED storeFaults
  OBVIOUS
<1>7. good => doc' = [doc EXCEPT ![place] = c.row]
  BY <1>6
<1>8. /\ UNCHANGED <<gnode, gedge, edgeRegistry, oneHost, history, surveyed, writeCalls, graphChanges>>
      /\ good => Goto(w, "sql") /\ UNCHANGED storeFaults
      /\ ~good => doc' = doc /\ Faulty /\ writing' = [writing EXCEPT ![w].at = "sql", ![w].ok = FALSE]
  BY <1>1, <1>5, <1>6 DEF WriteDoc, WriteCopy, Wanted, Named, PlaceOf
<1>9. "sql" \in NodeStages
  BY DEF NodeStages
<1>10. UNCHANGED <<gnode, gedge, edgeRegistry, oneHost, history, graphChanges>> /\ writeCalls' = writeCalls
  BY <1>8
<1>11. PICK k \in NodeCalls : /\ writing' = [writing EXCEPT ![w] = k] /\ k.at = "sql" /\ k.id = c.id
                              /\ k.row = c.row /\ k.landed = c.landed /\ (k.ok => good /\ c.ok)
  BY <1>1, <1>4, <1>8, <1>9, CopyStep
<1>12. doc \in [NodeSpaces \X WriteNodes -> NodeRows \cup {NoRow}]
  BY DEF WriteInv, StoresTyped
<1>13. doc' \in [NodeSpaces \X WriteNodes -> NodeRows \cup {NoRow}]
  BY <1>4, <1>5, <1>7, <1>8, <1>12
<1>14. UNCHANGED <<gnode, oneHost, touched, replaced>>
  BY <1>10 DEF history
<1>15. ASSUME NEW q \in NodeSpaces \X WriteNodes, q[2] \notin touched
       PROVE  DocMoves(q) /\ RegistryMoves(q)
  <2>1. RegistryMoves(q)
    BY <1>3 DEF RegistryMoves
  <2>2. CASE doc'[q] = doc[q]
    BY <2>1, <2>2 DEF DocMoves
  <2>3. CASE doc'[q] # doc[q]
    <3>1. q = place /\ doc'[q] = c.row
      BY <1>4, <1>5, <1>7, <1>8, <1>12, <2>3
    <3>2. KeepsPack(doc[q], c.row)
      BY <1>4, <1>5, <1>15, <3>1 DEF KeepsPack, Foreign
    <3>3. Secured(q[2])' => Secured(c.id)
      BY <1>4, <1>5, <1>14, <3>1 DEF Secured
    <3> QED BY <1>4, <1>5, <1>14, <1>15, <2>1, <3>1, <3>2, <3>3 DEF DocMoves
  <2> QED BY <2>2, <2>3
<1>16. \A i \in WriteNodes \ touched : VectorMoves(i)
  BY <1>3 DEF VectorMoves
<1>17. k.ok => c.ok /\ doc'[PlaceOf(c)] = c.row
  BY <1>4, <1>5, <1>7, <1>11, <1>12
<1>18. /\ registry' \in [NodeSpaces \X WriteNodes -> NodeTypes \cup {NoRow}]
       /\ vec' \in [WriteNodes -> Vectors \cup {NoRow}]
  BY <1>3 DEF WriteInv, StoresTyped
<1>19. "sql" \in PastGraph \cup {"bill"} /\ "sql" \notin {"vector", "docs", "bill"}
  BY DEF PastGraph
<1>20. storeFaults' \in 0 .. MaxStoreFaults
  BY <1>8, FaultFits
<1> QED BY <1>1, <1>2, <1>3, <1>10, <1>20, <1>11, <1>13, <1>15, <1>16, <1>17, <1>18, <1>19, CopyWritten

LEMMA RegisterNodeSafe ==
    ASSUME WriteInv, NEW w \in Writers, RegisterNode(w)
    PROVE  WriteInv' /\ Moves
<1>1. PICK c : c = writing[w]
  OBVIOUS
<1>2. PICK p : p = PackOf[w]
  OBVIOUS
<1>3. c.at = "sql" /\ c.at \in PastGraph /\ doc' = doc /\ vec' = vec
  BY <1>1 DEF RegisterNode, WriteCopy, PastGraph
<1>4. /\ c \in NodeCalls /\ c.id \in WriteNodes /\ c.row \in NodeRows /\ c.row # NoRow
      /\ PlaceOf(c) \in NodeSpaces \X WriteNodes /\ PlaceOf(c)[2] = c.id
      /\ Secured(c.id) => gnode[c.id] = c.row
      /\ CopiesAreThere(c)
  BY <1>1, <1>2, <1>3, CopyFacts
<1>5. PICK place : place = PlaceOf(c)
  OBVIOUS
<1>6. PICK good \in BOOLEAN : good <=> registry' = [registry EXCEPT ![place] = c.row.type] /\ Goto(w, "vector") /\ UNCHANGED storeFaults
  OBVIOUS
<1>7. good => registry' = [registry EXCEPT ![place] = c.row.type]
  BY <1>6
<1>8. /\ UNCHANGED <<gnode, gedge, edgeRegistry, oneHost, history, surveyed, writeCalls, graphChanges>>
      /\ good => Goto(w, "vector") /\ UNCHANGED storeFaults
      /\ ~good => registry' = registry /\ Faulty /\ writing' = [writing EXCEPT ![w].at = "vector", ![w].ok = FALSE]
  BY <1>1, <1>5, <1>6 DEF RegisterNode, WriteCopy, Wanted, Named, PlaceOf
<1>9. "vector" \in NodeStages
  BY DEF NodeStages
<1>10. UNCHANGED <<gnode, gedge, edgeRegistry, oneHost, history, graphChanges>> /\ writeCalls' = writeCalls
  BY <1>8
<1>11. PICK k \in NodeCalls : /\ writing' = [writing EXCEPT ![w] = k] /\ k.at = "vector" /\ k.id = c.id
                              /\ k.row = c.row /\ k.landed = c.landed /\ (k.ok => good /\ c.ok)
  BY <1>1, <1>4, <1>8, <1>9, CopyStep
<1>12. registry \in [NodeSpaces \X WriteNodes -> NodeTypes \cup {NoRow}] /\ c.row.type \in NodeTypes
  BY <1>4 DEF WriteInv, StoresTyped, NodeRows
<1>13. registry' \in [NodeSpaces \X WriteNodes -> NodeTypes \cup {NoRow}]
  BY <1>4, <1>5, <1>7, <1>8, <1>12
<1>14. UNCHANGED <<gnode, oneHost, touched, replaced>>
  BY <1>10 DEF history
<1>15. ASSUME NEW q \in NodeSpaces \X WriteNodes, q[2] \notin touched
       PROVE  DocMoves(q) /\ RegistryMoves(q)
  <2>1. DocMoves(q)
    BY <1>3 DEF DocMoves
  <2>2. CASE registry'[q] = registry[q]
    BY <2>1, <2>2 DEF RegistryMoves
  <2>3. CASE registry'[q] # registry[q]
    BY <1>4, <1>5, <1>7, <1>8, <1>12, <2>3, <1>14, <2>1 DEF Secured, RegistryMoves
  <2> QED BY <2>2, <2>3
<1>16. \A i \in WriteNodes \ touched : VectorMoves(i)
  BY <1>3 DEF VectorMoves
<1>17. k.ok => c.ok /\ registry'[PlaceOf(c)] = c.row.type
  BY <1>4, <1>5, <1>7, <1>11, <1>12
<1>18. k.ok /\ Secured(c.id) => doc'[PlaceOf(c)] = c.row
  BY <1>3, <1>4, <1>17 DEF CopiesAreThere
<1>19. /\ doc' \in [NodeSpaces \X WriteNodes -> NodeRows \cup {NoRow}]
       /\ vec' \in [WriteNodes -> Vectors \cup {NoRow}]
  BY <1>3 DEF WriteInv, StoresTyped
<1>20. "vector" \in PastGraph \cup {"bill"} /\ "vector" \notin {"sql", "docs", "bill"}
  BY DEF PastGraph
<1>21. storeFaults' \in 0 .. MaxStoreFaults
  BY <1>8, FaultFits
<1> QED BY <1>1, <1>2, <1>3, <1>10, <1>21, <1>11, <1>13, <1>15, <1>16, <1>17, <1>18, <1>19, <1>20, CopyWritten

LEMMA WriteVectorSafe ==
    ASSUME WriteInv, NEW w \in Writers, WriteVector(w)
    PROVE  WriteInv' /\ Moves
<1>1. PICK c : c = writing[w]
  OBVIOUS
<1>2. PICK p : p = PackOf[w]
  OBVIOUS
<1>3. c.at = "vector" /\ c.at \in PastGraph /\ doc' = doc /\ registry' = registry
  BY <1>1 DEF WriteVector, WriteCopy, PastGraph
<1>4. /\ c \in NodeCalls /\ c.row.pack = p /\ p # Unattributed
      /\ c.id \in WriteNodes /\ c.row \in NodeRows /\ c.row # NoRow
      /\ c.id \notin touched => gnode[c.id] # NoRow /\ gnode[c.id].pack = p
      /\ Secured(c.id) => gnode[c.id] = c.row
      /\ CopiesAreThere(c)
      /\ c.id \notin touched => ~Foreign(vec[c.id], p)
  BY <1>1, <1>2, <1>3, CopyFacts
<1>5. PICK v : v = VectorOf(c.row)
  OBVIOUS
<1>6. PICK good \in BOOLEAN : good <=> vec' = [vec EXCEPT ![c.id] = v] /\ Goto(w, "bill") /\ UNCHANGED storeFaults
  OBVIOUS
<1>7. good => vec' = [vec EXCEPT ![c.id] = v]
  BY <1>6
<1>8. /\ UNCHANGED <<gnode, gedge, edgeRegistry, oneHost, history, surveyed, writeCalls, graphChanges>>
      /\ good => Goto(w, "bill") /\ UNCHANGED storeFaults
      /\ ~good => vec' = vec /\ Faulty /\ writing' = [writing EXCEPT ![w].at = "bill", ![w].ok = FALSE]
  BY <1>1, <1>5, <1>6 DEF WriteVector, WriteCopy, Wanted, Named, VectorOf
<1>9. "bill" \in NodeStages
  BY DEF NodeStages
<1>10. UNCHANGED <<gnode, gedge, edgeRegistry, oneHost, history, graphChanges>> /\ writeCalls' = writeCalls
  BY <1>8
<1>11. PICK k \in NodeCalls : /\ writing' = [writing EXCEPT ![w] = k] /\ k.at = "bill" /\ k.id = c.id
                              /\ k.row = c.row /\ k.landed = c.landed /\ (k.ok => good /\ c.ok)
  BY <1>1, <1>4, <1>8, <1>9, CopyStep
<1>12. vec \in [WriteNodes -> Vectors \cup {NoRow}]
  BY DEF WriteInv, StoresTyped
<1>13. v \in Vectors /\ v.pack = p
  BY <1>4, <1>5 DEF VectorOf, Vectors, NodeRows
<1>14. vec' \in [WriteNodes -> Vectors \cup {NoRow}]
  BY <1>4, <1>7, <1>8, <1>12, <1>13
<1>15. UNCHANGED <<gnode, oneHost, touched, replaced>>
  BY <1>10 DEF history
<1>16. ASSUME NEW i \in WriteNodes \ touched
       PROVE  VectorMoves(i)
  <2>1. CASE vec'[i] = vec[i]
    BY <2>1 DEF VectorMoves
  <2>2. CASE vec'[i] # vec[i]
    <3>1. i = c.id /\ vec'[i] = v
      BY <1>4, <1>7, <1>8, <1>12, <2>2
    <3>2. KeepsPack(vec[i], v)
      BY <1>4, <1>13, <3>1 DEF KeepsPack, Foreign
    <3>3. Secured(i)' => v = (VectorOf(gnode[i]))'
      BY <1>4, <1>5, <1>15, <3>1 DEF Secured, VectorOf
    <3> QED BY <1>4, <1>13, <1>15, <3>1, <3>2, <3>3 DEF VectorMoves
  <2> QED BY <2>1, <2>2
<1>17. \A q : DocMoves(q) /\ RegistryMoves(q)
  BY <1>3 DEF DocMoves, RegistryMoves
<1>18. k.ok => c.ok /\ vec'[c.id] = VectorOf(c.row)
  BY <1>4, <1>5, <1>7, <1>11, <1>12
<1>19. k.ok /\ Secured(c.id) => doc'[PlaceOf(c)] = c.row /\ registry'[PlaceOf(c)] = c.row.type
  BY <1>3, <1>4, <1>18 DEF CopiesAreThere
<1>20. /\ doc' \in [NodeSpaces \X WriteNodes -> NodeRows \cup {NoRow}]
       /\ registry' \in [NodeSpaces \X WriteNodes -> NodeTypes \cup {NoRow}]
  BY <1>3 DEF WriteInv, StoresTyped
<1>21. "bill" \in PastGraph \cup {"bill"} /\ "bill" \notin {"sql", "docs", "vector"}
  OBVIOUS
<1>22. storeFaults' \in 0 .. MaxStoreFaults
  BY <1>8, FaultFits
<1> QED BY <1>1, <1>2, <1>3, <1>10, <1>22, <1>11, <1>14, <1>16, <1>17, <1>18, <1>19, <1>20, <1>21, CopyWritten

\* The answer of a call, and its billing event.
LEMMA BillFacts ==
    ASSUME WriteInv, NEW w \in Writers, Bill(w), NEW c, c = writing[w]
    PROVE  /\ writing' = [writing EXCEPT ![w] = Rest]
           /\ billed' = billed \/ (c.landed /\ billed' = billed \cup {[id |-> c.id, row |-> c.row]})
           /\ UNCHANGED <<gnode, gedge, doc, registry, vec, edgeRegistry, oneHost, replaced, touched>>
           /\ writeCalls' \in 0 .. MaxWriteCalls /\ storeFaults' \in 0 .. MaxStoreFaults
           /\ graphChanges' \in 0 .. MaxGraphChanges
BY FaultFits DEF Bill, Billable, Named, Wanted, Ends, copies, WriteInv, StoresTyped

LEMMA AnswerSafe ==
    ASSUME WriteInv, NEW w \in Writers, NEW c, c = writing[w], c # Rest, Bill(w),
           c.landed /\ c.id \in WriteNodes => c.row \in NodeRows /\ (Secured(c.id) => gnode[c.id] = c.row),
           settled' = settled \/ (settled' = settled \cup {c.id} /\ c.id \in WriteNodes /\ Everywhere(c.id))
    PROVE  WriteInv' /\ Moves
<1>1. /\ writing' = [writing EXCEPT ![w] = Rest]
      /\ billed' = billed \/ (c.landed /\ billed' = billed \cup {[id |-> c.id, row |-> c.row]})
      /\ UNCHANGED <<gnode, gedge, doc, registry, vec, edgeRegistry, oneHost, replaced, touched>>
      /\ writeCalls' \in 0 .. MaxWriteCalls /\ storeFaults' \in 0 .. MaxStoreFaults
      /\ graphChanges' \in 0 .. MaxGraphChanges
  BY BillFacts
<1>2. PICK b : b = [id |-> c.id, row |-> c.row]
  OBVIOUS
<1>3. b.id = c.id /\ b.row = c.row
  BY <1>2
<1>4. billed' = billed \/ (c.landed /\ billed' = billed \cup {b})
  BY <1>1, <1>2
<1>5. StoresTyped'
  BY <1>3, <1>4, <1>1 DEF WriteInv, StoresTyped
<1>6. Moves
  BY <1>1 DEF Moves, NodeMoves, VectorMoves, EdgeMoves, DocMoves, RegistryMoves, KeepsPack
<1>7. NewIsWhole
  <2>1. \A i \in settled' \ settled : i = c.id /\ Everywhere(c.id)
    OBVIOUS
  <2>2. Everywhere(c.id) => Everywhere(c.id)'
    BY <1>1 DEF Everywhere, Secured, SpaceOf, VectorOf
  <2>3. \A x \in billed' \ billed : x = b /\ c.landed
    BY <1>4
  <2>4. c.landed => BillHolds(b)'
    BY <1>1, <1>3 DEF BillHolds, Secured
  <2> QED BY <1>1, <2>1, <2>2, <2>3, <2>4 DEF NewIsWhole
<1>8. \A l \in Links : EdgeFitsEnds(l)'
  BY <1>1, EdgesHaveEnds DEF EdgeFitsEnds
<1> QED BY <1>1, <1>5, <1>6, <1>7, <1>8, RestIsTyped, CallKinds, CallMoves

LEMMA AnswerNodeSafe ==
    ASSUME WriteInv, NEW w \in Writers, AnswerNode(w)
    PROVE  WriteInv' /\ Moves
<1>1. PICK c : c = writing[w]
  OBVIOUS
<1>2. PICK p : p = PackOf[w]
  OBVIOUS
<1>3. c.at = "bill" /\ Bill(w) /\ settled' = IF c.ok THEN settled \cup {c.id} ELSE settled
  BY <1>1 DEF AnswerNode, Named
<1>4. c \in NodeCalls /\ c # Rest /\ CallTyped(c, p) /\ NodeFits(c, p)
  BY <1>1, <1>2, <1>3, ActiveCall DEF NodeStages
<1>5. c.id \in WriteNodes /\ c.row \in NodeRows /\ c.row # NoRow
  BY <1>4, WriteFacts DEF NodeCalls
<1>6. c.landed /\ Secured(c.id) => gnode[c.id] = c.row
  BY <1>4 DEF NodeFits, RowIsThere
<1>7. c.ok => c.landed
  BY <1>3, <1>4, CallKinds DEF CallTyped
<1>8. c.ok => Everywhere(c.id)
  BY <1>6, <1>7, <1>3, <1>4, <1>5 DEF Everywhere, NodeFits, CopiesAreThere, PlaceOf
<1>9. settled' = settled \/ (settled' = settled \cup {c.id} /\ c.id \in WriteNodes /\ Everywhere(c.id))
  BY <1>3, <1>5, <1>8
<1> QED BY <1>1, <1>3, <1>4, <1>5, <1>6, <1>9, AnswerSafe

LEMMA AnswerEdgeSafe ==
    ASSUME WriteInv, NEW w \in Writers, AnswerEdge(w)
    PROVE  WriteInv' /\ Moves
BY ActiveCall, WriteFacts, AnswerSafe DEF AnswerEdge, EdgeStages, EdgeCalls

LEMMA RegisterEdgeSafe ==
    ASSUME WriteInv, NEW w \in Writers, RegisterEdge(w)
    PROVE  WriteInv' /\ Moves
<1>1. PICK c : c = writing[w]
  OBVIOUS
<1>2. PICK p : p = PackOf[w]
  OBVIOUS
<1>3. /\ c.at = "registerEdge" /\ edgeRegistry' \in {edgeRegistry, edgeRegistry \cup {c.id}}
      /\ UNCHANGED <<gnode, gedge, doc, registry, vec, oneHost, billed, settled, replaced, touched, writeCalls, graphChanges>>
  BY <1>1 DEF RegisterEdge, Named, copies, history
<1>4. storeFaults' \in 0 .. MaxStoreFaults
  BY FaultFits DEF RegisterEdge
<1>5. c \in EdgeCalls /\ c # Rest /\ c.row.pack = p /\ CallTyped(c, p) /\ EdgeFits(c, p)
  BY <1>1, <1>2, <1>3, ActiveCall DEF EdgeStages
<1>6. PICK k : k = [c EXCEPT !.at = "billEdge"]
  OBVIOUS
<1>7. writing' = [writing EXCEPT ![w] = k]
  BY <1>1, <1>6 DEF RegisterEdge, Goto
<1>8. k \in EdgeCalls /\ k.at = "billEdge" /\ k.id = c.id /\ k.row = c.row /\ k.landed = c.landed
  BY <1>5, <1>6, EdgeAt DEF EdgeStages
<1>9. c.id \in Links /\ (c.id \notin touched => gedge[c.id] # NoRow)
  BY <1>3, <1>5 DEF EdgeCalls, EdgeFits
<1>10. StoresTyped'
  BY <1>3, <1>9, <1>4 DEF WriteInv, StoresTyped
<1>11. Moves
  BY <1>3, StillMoves DEF copies
<1>12. NewIsWhole
  BY <1>3, <1>9 DEF NewIsWhole
<1>13. \A l \in Links : EdgeFitsEnds(l)'
  BY <1>3, EdgesHaveEnds DEF EdgeFitsEnds
<1>14. CallTyped(k, p)
  BY <1>5, <1>8 DEF CallTyped
<1>15. EdgeFits(k, p)'
  BY <1>8 DEF EdgeFits, EndIsSeen, EndIsOwn, ToPack
<1>16. k \notin NodeCalls
  BY <1>8, CallKinds
<1> QED BY <1>1, <1>2, <1>5, <1>7, <1>8, <1>10, <1>11, <1>12, <1>13, <1>14, <1>15, <1>16, CallMoves

\* The graph takes an edge's row between the ends it finds.
LEMMA GraphTakesEdge ==
    ASSUME WriteInv, NEW w \in Writers, NEW c, c = writing[w], NEW p, p = PackOf[w], c.at \in {"edge", "replaceEdge"},
           EdgeAccepts(w), EdgeTakes(w), UNCHANGED <<gnode, copies, edgeRegistry, oneHost, history, writeCalls, graphChanges>>,
           storeFaults' \in 0 .. MaxStoreFaults
    PROVE  /\ StoresTyped' /\ Moves /\ NewIsWhole /\ gedge'[c.id] # NoRow
           /\ \A l \in Links : EdgeFitsEnds(l)'
<1>0. c \in EdgeCalls /\ c.row.pack = p /\ p \in WritePacks /\ EdgeFits(c, p)
  BY ActiveCall DEF EdgeStages
<1>1. c.id \in Links /\ c.row \in EdgeWants /\ c.id[1] \in WriteNodes /\ c.id[2] \in WriteNodes
  BY <1>0, WriteFacts DEF EdgeCalls
<1>2. /\ gnode[c.id[1]] # NoRow /\ gnode[c.id[1]].type = c.row.fromType
      /\ gnode[c.id[2]] # NoRow /\ gnode[c.id[2]].type = c.row.toType
      /\ gedge' = [gedge EXCEPT ![c.id] = c.row]
      /\ gedge[c.id] # NoRow => gedge[c.id].pack = p
  BY <1>0 DEF EdgeAccepts, EndsHold, EndsMatch, EdgeTakes, Named, Wanted
<1>3. c.row \in EdgeRows /\ c.row # NoRow
  BY <1>1, <1>2, WriteFacts DEF WriteInv, StoresTyped, NodeRows, EdgeWants, EdgeRows, RowOwners
<1>4. gedge'[c.id] = c.row /\ \A l \in Links : l # c.id => gedge'[l] = gedge[l]
  BY <1>1, <1>2 DEF WriteInv, StoresTyped
<1>5. UNCHANGED <<gnode, doc, registry, vec, edgeRegistry, oneHost, billed, settled, replaced, touched>>
  BY DEF copies, history
<1>6. StoresTyped'
  BY <1>2, <1>3, <1>5 DEF WriteInv, StoresTyped
<1>7. \A l \in Links : EdgeFitsEnds(l)'
  BY <1>2, <1>4, <1>5, EdgesHaveEnds DEF EdgeFitsEnds
<1>8. JoinsOwn(c.id)'
  BY <1>0, <1>4, <1>5 DEF EdgeFits, EndIsOwn, ToPack, JoinsOwn
<1>9. Moves
  <2>1. \A l \in Links \ touched' : EdgeMoves(l)
    BY <1>0, <1>2, <1>3, <1>4, <1>8 DEF EdgeMoves
  <2>2. \A i \in WriteNodes \ touched' : NodeMoves(i) /\ VectorMoves(i)
    BY <1>5 DEF NodeMoves, VectorMoves, KeepsPack
  <2> QED BY <1>5, <2>1, <2>2 DEF Moves, DocMoves, RegistryMoves
<1>10. NewIsWhole
  BY <1>5 DEF NewIsWhole
<1> QED BY <1>3, <1>4, <1>6, <1>7, <1>9, <1>10

LEMMA WriteEdgeSafe ==
    ASSUME WriteInv, NEW w \in Writers, WriteEdge(w)
    PROVE  WriteInv' /\ Moves
<1>1. PICK c : c = writing[w]
  OBVIOUS
<1>2. PICK p : p = PackOf[w]
  OBVIOUS
<1>3. c.at \in {"edge", "replaceEdge"} /\ UNCHANGED <<gnode, copies, edgeRegistry, oneHost, history, writeCalls, storeFaults, graphChanges>>
  BY <1>1 DEF WriteEdge
<1>4. writeCalls' \in 0 .. MaxWriteCalls /\ storeFaults' \in 0 .. MaxStoreFaults
  BY <1>3 DEF WriteInv, StoresTyped
<1>5. c \in EdgeCalls /\ c # Rest /\ c.row.pack = p /\ p \in WritePacks /\ CallTyped(c, p) /\ EdgeFits(c, p)
  BY <1>1, <1>2, <1>3, ActiveCall DEF EdgeStages
<1>6. CASE EdgeAccepts(w) /\ EdgeTakes(w) /\ writing' = [writing EXCEPT ![w].at = "registerEdge", ![w].landed = TRUE]
  <2>1. PICK k : k = [c EXCEPT !.at = "registerEdge", !.landed = TRUE]
    OBVIOUS
  <2>2. writing' = [writing EXCEPT ![w] = k]
    BY <1>1, <1>6, <2>1 DEF WriteInv, CallsTyped
  <2>3. k \in EdgeCalls /\ k.at = "registerEdge" /\ k.id = c.id /\ k.row = c.row
    BY <1>5, <2>1 DEF EdgeCalls, EdgeStages
  <2>4. /\ StoresTyped' /\ Moves /\ NewIsWhole /\ gedge'[c.id] # NoRow
        /\ \A l \in Links : EdgeFitsEnds(l)'
    BY <1>1, <1>2, <1>3, <1>4, <1>6, GraphTakesEdge
  <2>5. EdgeFits(k, p)'
    BY <2>3, <2>4 DEF EdgeFits, EndIsSeen, EndIsOwn, ToPack
  <2>6. CallTyped(k, p)
    BY <1>5, <2>3 DEF CallTyped
  <2>7. k \notin NodeCalls
    BY <2>3, CallKinds
  <2> QED BY <1>1, <1>2, <1>5, <2>2, <2>3, <2>4, <2>5, <2>6, <2>7, CallMoves
<1>7. CASE Goto(w, "edgeDigest") /\ gedge' = gedge
  <2>1. PICK k : k = [c EXCEPT !.at = "edgeDigest"]
    OBVIOUS
  <2>2. writing' = [writing EXCEPT ![w] = k]
    BY <1>1, <1>7, <2>1 DEF Goto
  <2>3. k \in EdgeCalls /\ k.at = "edgeDigest" /\ k.id = c.id /\ k.row = c.row /\ k.landed = c.landed
    BY <1>5, <2>1, EdgeAt DEF EdgeStages
  <2>4. CallTyped(k, p)
    BY <1>3, <1>5, <2>3, CallKinds DEF CallTyped, EdgeCalls
  <2>5. EdgeFits(k, p)
    BY <1>3, <1>5, <2>3 DEF EdgeFits, EndIsSeen, EndIsOwn, ToPack
  <2>6. k \notin NodeCalls
    BY <2>3, CallKinds
  <2>7. UNCHANGED <<gnode, gedge, copies, edgeRegistry, oneHost, history, graphChanges>>
    BY <1>3, <1>7
  <2> QED BY <1>1, <1>2, <1>4, <1>5, <2>2, <2>3, <2>4, <2>5, <2>6, <2>7, CallReads
<1>8. CASE Ends(w) /\ gedge' = gedge
  BY <1>8, <1>3, <1>1, <1>4, <1>5, RestIsTyped, CallKinds, CallReads DEF Ends
<1> QED BY <1>6, <1>7, <1>8 DEF WriteEdge

LEMMA WriteEdgeFailsSafe ==
    ASSUME WriteInv, NEW w \in Writers, WriteEdgeFails(w)
    PROVE  WriteInv' /\ Moves
<1>1. PICK c : c = writing[w]
  OBVIOUS
<1>2. PICK p : p = PackOf[w]
  OBVIOUS
<1>3. c.at \in {"edge", "replaceEdge"} /\ UNCHANGED <<gnode, copies, edgeRegistry, oneHost, history, writeCalls, graphChanges>>
  BY <1>1 DEF WriteEdgeFails
<1>4. writeCalls' \in 0 .. MaxWriteCalls /\ storeFaults' \in 0 .. MaxStoreFaults
  BY FaultFits, <1>3 DEF WriteEdgeFails, WriteInv, StoresTyped
<1>5. c \in EdgeCalls /\ c # Rest /\ c.row.pack = p /\ p \in WritePacks /\ CallTyped(c, p) /\ EdgeFits(c, p)
  BY <1>1, <1>2, <1>3, ActiveCall DEF EdgeStages
<1>6. PICK k : k = [c EXCEPT !.at = "heldEdge"]
  OBVIOUS
<1>7. writing' = [writing EXCEPT ![w] = k]
  BY <1>1, <1>6 DEF Goto, WriteEdgeFails
<1>8. k \in EdgeCalls /\ k.at = "heldEdge" /\ k.id = c.id /\ k.row = c.row /\ k.landed = c.landed
  BY <1>5, <1>6, EdgeAt DEF EdgeStages
<1>9. CallTyped(k, p)
  BY <1>3, <1>5, <1>8, CallKinds DEF CallTyped, EdgeCalls
<1>10. EdgeFits(k, p) /\ EdgeFits(k, p)'
  BY <1>8 DEF EdgeFits, EndIsSeen, EndIsOwn, ToPack
<1>11. k \notin NodeCalls
  BY <1>8, CallKinds
<1>12. CASE gedge' = gedge
  BY <1>3, <1>12, <1>1, <1>2, <1>4, <1>5, <1>7, <1>8, <1>9, <1>10, <1>11, CallReads
<1>13. CASE EdgeAccepts(w) /\ EdgeTakes(w)
  <2>1. /\ StoresTyped' /\ Moves /\ NewIsWhole
        /\ \A l \in Links : EdgeFitsEnds(l)'
    BY <1>1, <1>2, <1>3, <1>4, <1>13, GraphTakesEdge
  <2> QED BY <1>1, <1>2, <1>5, <1>7, <1>8, <1>9, <1>10, <1>11, <2>1, CallMoves
<1> QED BY <1>12, <1>13 DEF WriteEdgeFails

LEMMA WriteStarts ==
    ASSUME WriteInit
    PROVE  WriteInv
<1>1. PICK h \in Holdings : gnode = h.nodes /\ gedge = h.edges /\ doc = h.docs /\ vec = h.vectors
  BY DEF WriteInit
<1>2. /\ gnode \in [WriteNodes -> NodeRows \cup {NoRow}] /\ gedge \in [Links -> EdgeRows \cup {NoRow}]
      /\ doc \in [NodeSpaces \X WriteNodes -> NodeRows \cup {NoRow}] /\ vec \in [WriteNodes -> Vectors \cup {NoRow}]
      /\ \A l \in Links : gedge[l] # NoRow =>
            /\ gnode[l[1]] # NoRow /\ gnode[l[1]].type = gedge[l].fromType
            /\ gnode[l[2]] # NoRow /\ gnode[l[2]].type = gedge[l].toType
            /\ \A k \in {1, 2} : ~Foreign(gnode[l[k]], gedge[l].pack)
  BY <1>1, HoldingsAssumption
<1>3. StoresTyped
  BY WriteFacts, <1>2 DEF WriteInit, StoresTyped
<1>4. writing = [w \in Writers |-> Rest]
  BY DEF WriteInit
<1>5. CallsTyped
  BY <1>4 DEF CallsTyped, CallTyped
<1>6. OneCall
  BY <1>4 DEF OneCall
<1>7. CallsAreRight
  BY <1>4, CallKinds DEF CallsAreRight
<1>8. WritesAreWhole
  BY <1>2, WholeParts DEF EdgeFitsEnds, JoinsOwn, WholeRows, WriteInit
<1> QED BY <1>3, <1>5, <1>6, <1>7, <1>8 DEF WriteInv

LEMMA CallSafe ==
    ASSUME WriteInv, NEW w \in Writers,
           \/ ReadDigest(w) \/ Probe(w) \/ ReadFails(w)
           \/ WriteGraph(w) \/ WriteGraphFails(w) \/ Held(w)
           \/ WriteDoc(w) \/ RegisterNode(w) \/ WriteVector(w) \/ AnswerNode(w)
           \/ LookUpEnds(w) \/ ProbeEdge(w) \/ WriteEdge(w) \/ WriteEdgeFails(w)
           \/ ReadEdgeDigest(w) \/ HeldEdge(w) \/ RegisterEdge(w) \/ AnswerEdge(w)
           \/ CrashWriter(w)
    PROVE  WriteInv' /\ Moves
BY ReadDigestSafe, ProbeSafe, CallStops, WriteGraphSafe, WriteGraphFailsSafe, HeldSafe, WriteDocSafe, RegisterNodeSafe,
   WriteVectorSafe, AnswerNodeSafe, LookUpEndSafe, ProbeEdgeSafe, WriteEdgeSafe, WriteEdgeFailsSafe, ReadEdgeDigestSafe,
   HeldEdgeSafe, RegisterEdgeSafe, AnswerEdgeSafe

LEMMA WriteSteps ==
    ASSUME WriteInv, [WriteNext]_writeVars
    PROVE  WriteInv' /\ Moves
<1>1. ASSUME NEW w \in Writers,
             \/ \E i \in WriteNodes, type \in NodeTypes, text \in Texts, replaces \in BOOLEAN :
                   BeginNode(w, i, type, text, replaces)
             \/ \E link \in Links, text \in EdgeTexts, replaces \in BOOLEAN : BeginEdge(w, link, text, replaces)
             \/ ReadDigest(w) \/ Probe(w) \/ ReadFails(w)
             \/ WriteGraph(w) \/ WriteGraphFails(w) \/ Held(w)
             \/ WriteDoc(w) \/ RegisterNode(w) \/ WriteVector(w) \/ AnswerNode(w)
             \/ LookUpEnds(w) \/ ProbeEdge(w) \/ WriteEdge(w) \/ WriteEdgeFails(w)
             \/ ReadEdgeDigest(w) \/ HeldEdge(w) \/ RegisterEdge(w) \/ AnswerEdge(w)
             \/ CrashWriter(w)
      PROVE  WriteInv' /\ Moves
  BY <1>1, BeginSafe, CallSafe
<1>2. ASSUME NEW rows \in NodeBatches, UpsertNodes(rows) \/ UpdateNodes(rows)
      PROVE  WriteInv' /\ Moves
  BY <1>2, UpsertNodesSafe, UpdateNodesSafe
<1>3. ASSUME NEW edges \in EdgeBatches, UpsertEdges(edges)
      PROVE  WriteInv' /\ Moves
  BY <1>3, UpsertEdgesSafe
<1>4. ASSUME NEW i \in WriteNodes, DeleteNode(i)
      PROVE  WriteInv' /\ Moves
  BY <1>4, DeleteNodeSafe
<1>5. ASSUME NEW l \in Links, NEW pack \in WritePacks, DeleteEdge(l, pack)
      PROVE  WriteInv' /\ Moves
  BY <1>5, DeleteEdgeSafe
<1>6. ASSUME NEW ids \in SUBSET WriteNodes, NEW links \in SUBSET Links, NEW pack \in WritePacks, AssignPacks(ids, links, pack)
      PROVE  WriteInv' /\ Moves
  BY <1>6, AssignPacksSafe
<1>7. CASE Survey \/ UNCHANGED writeVars
  BY <1>7, WriteStutters DEF Survey, writeVars, copies, history
<1> QED BY <1>1, <1>2, <1>3, <1>4, <1>5, <1>6, <1>7 DEF WriteNext

\* The inductive invariant of the builder (ontology/builder.py) and its writers.
THEOREM WriteInvHolds == WriteSpec => []WriteInv
<1>1. WriteInv /\ [WriteNext]_writeVars => WriteInv'
  BY WriteSteps
<1> QED BY <1>1, WriteStarts, PTL DEF WriteSpec

\* The types of the stores and of the calls of the write path.
THEOREM WriteTypesCorrect == WriteSpec => []WriteTypeOK
<1>1. WriteInv => WriteTypeOK
  BY CallKinds, WriteFacts DEF WriteInv, CallsTyped, StoresTyped, WriteTypeOK
<1> QED BY <1>1, WriteInvHolds, PTL

\* The write path keeps its stores together: what was answered is in every store,
\* edges fit and join their own pack's nodes, and what is registered or billed is
\* in the graph.
THEOREM WritesStayWhole == WriteSpec => []WritesAreWhole
<1>1. WriteInv => WritesAreWhole
  BY DEF WriteInv
<1> QED BY <1>1, WriteInvHolds, PTL

RowsKeepPacks ==
    /\ \A k \in DOMAIN doc : k[2] \notin touched' => KeepsPack(doc[k], doc'[k])
    /\ \A i \in WriteNodes \ touched' : /\ KeepsPack(gnode[i], gnode'[i])
                                      /\ KeepsPack(vec[i], vec'[i])
    /\ \A l \in Links \ touched' : KeepsPack(gedge[l], gedge'[l])

LEMMA StepsKeepPacks == WriteInv /\ [WriteNext]_writeVars => RowsKeepPacks
BY WriteSteps DEF RowsKeepPacks, WriteInv, StoresTyped, Moves, DocMoves, KeepsPack, NodeMoves,
   VectorMoves, EdgeMoves

\* No step gives a row of one pack to another, in the graph, the documents or
\* the vectors: the checks of a call and its writes are apart, and still every
\* row it writes over has no pack or its own (builder.py, pack/write_gate.py).
THEOREM PacksStay == WriteSpec => PacksKeepTheirRows
<1>1. WriteSpec => [][RowsKeepPacks]_writeVars
  BY StepsKeepPacks, WriteInvHolds, PTL DEF WriteSpec
<1> QED BY <1>1 DEF PacksKeepTheirRows, RowsKeepPacks

-----------------------------------------------------------------------------
(***************************************************************************)
(* The three together: a behaviour moves one of them, the others rest.     *)
(***************************************************************************)

\* Every behaviour is one of each component.
LEMMA WritesAreEach == WritesSpec => WriteSpec /\ SourceSpec /\ NeoSpec
<1>1. WritesInit => WriteInit /\ SourceInit /\ NeoInit
  BY DEF WritesInit
<1>2. [WritesNext]_allVars => [WriteNext]_writeVars
  BY DEF WritesNext, allVars
<1>3. [WritesNext]_allVars => [SourceNext]_sourceVars
  BY DEF WritesNext, allVars
<1>4. [WritesNext]_allVars => [NeoNext]_neoVars
  BY DEF WritesNext, allVars
<1> QED BY <1>1, <1>2, <1>3, <1>4, PTL DEF WritesSpec, WriteSpec, SourceSpec, NeoSpec

\* The types of the components that write.
THEOREM WritesTypesCorrect == WritesSpec => []WritesTypesOK
<1>1. WriteTypeOK /\ SourceTypeOK /\ NeoTypeOK => WritesTypesOK
  BY DEF WritesTypesOK
<1> QED BY <1>1, WritesAreEach, WriteTypesCorrect, SourceTypesCorrect, NeoTypesCorrect, PTL

\* What a write that answered leaves behind fits together, for any number of
\* writers, hosts, sources and clients.
THEOREM WritesSound == WritesSpec => []WritesAreSound
<1>1. WritesAreWhole /\ SourcesAreSound /\ StartsWritable => WritesAreSound
  BY DEF WritesAreSound
<1> QED BY <1>1, WritesAreEach, WritesStayWhole, SourcesStaySound, NeoStartsWritable, PTL

\* No write takes a row from another pack, or replaces what its writer has not
\* read; a rewrite of a source keeps its text.
THEOREM OthersSpared == WritesSpec => WritesSpareOthers
BY WritesAreEach, PacksStay, RewritesKeepTexts, NeoReplacesWhatWasRead DEF WritesSpareOthers
=============================================================================
