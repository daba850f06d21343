---------------------------- MODULE GraphMigration ----------------------------
(***************************************************************************)
(* The SQL graph store of stores/_sql_graph_base.py over one database: its *)
(* move from the legacy schema, whose nodes are keyed by type and id, to   *)
(* the target schema, whose nodes are keyed by id alone, and the writers   *)
(* that only the target schema admits.                                     *)
(*                                                                         *)
(* A dry run reads an inventory and saves a plan; an apply takes a plan    *)
(* file, which an operator may have edited, proves it against the rows it  *)
(* finds in one exclusive transaction, and leaves a receipt under its      *)
(* request id.  A store object classifies the schema once, when it opens.  *)
(***************************************************************************)
EXTENDS Integers, FiniteSets

CONSTANTS
    GTypes, GIds,          \* types and ids of nodes
    Props, PropValues,     \* user properties, and what they may hold
    NoValue,               \* a property that is not there, and a caller's empty hands
    OwnerProp,             \* the property pack_id
    InitialGraphs,         \* [schema, nodes, edges]: the databases to start from
    Mappings,              \* mapping files: [to: keys -> key, rename: fields -> property]
    NewRows,               \* payloads the writers bring
    Callers, RequestIds,
    MaxEdits, MaxDryRuns, MaxWrites    \* bounds of the instance

Key == [type : GTypes, id : GIds]
Payload == [Props -> PropValues \cup {NoValue}]
NodeRow == [key : Key, props : Payload]
\* A relation has one name here: an edge is what its ends are, in either schema.
EdgeRow == [from : Key, to : Key, props : Payload]

KeysOf(nodes) == {n.key : n \in nodes}

\* The primary keys of the legacy tables; and what the target schema is for.
Keyed(nodes, edges) ==
    /\ \A m, n \in nodes : m.key = n.key => m = n
    /\ \A e, d \in edges : e.from = d.from /\ e.to = d.to => e = d
Whole(nodes, edges) ==
    /\ \A m, n \in nodes : m.key.id = n.key.id => m = n
    /\ \A e \in edges : {e.from, e.to} \subseteq KeysOf(nodes)
    /\ \A e, d \in edges : e.from = d.from /\ e.to = d.to => e = d

\* What plans and receipts are made of.
Inventories == [kind : {"legacy", "target"}, nodes : SUBSET NodeRow, edges : SUBSET EdgeRow]
Covers == UNION {[fields -> Props] : fields \in SUBSET (Key \X Props)}
NodeSpecs == [sources : SUBSET Key, target : Key, cover : Covers, props : Payload]
EdgeSpecs == [source : Key \X Key, from : Key, to : Key, props : Payload, kept : BOOLEAN]
Plans == [source : Inventories, edited : BOOLEAN, nodes : SUBSET NodeSpecs, edges : SUBSET EdgeSpecs]
Contents == (SUBSET NodeRow) \X (SUBSET EdgeRow)
Receipts == [plan : Plans, before : Contents, after : Contents]

ASSUME MigrationAssumption ==
    /\ OwnerProp \in Props /\ NoValue \notin PropValues \cup Receipts
    /\ NewRows \subseteq Payload
    /\ {MaxEdits, MaxDryRuns, MaxWrites} \subseteq Nat
    /\ \A m \in Mappings : /\ \A k \in DOMAIN m.to : m.to[k] \in Key
                           /\ \A f \in DOMAIN m.rename : m.rename[f] \in Props
    /\ \A g \in InitialGraphs : /\ g.schema \in {"legacy", "target"}
                                /\ g.nodes \subseteq NodeRow /\ g.edges \subseteq EdgeRow
                                /\ Keyed(g.nodes, g.edges)
                                /\ g.schema = "target" => Whole(g.nodes, g.edges)

VARIABLES
    schema,      \* what the tables of the database are
    gNodes, gEdges,
    ledger,      \* request id -> receipt
    planFile,    \* the saved plan
    caller,      \* per caller: its store object and the call it is in
    used         \* what has been used of the bounds

graphVars == <<schema, gNodes, gEdges, ledger, planFile, caller, used>>

Row(nodes, k) == CHOOSE n \in nodes : n.key = k
FieldsOf(nodes) == {f \in KeysOf(nodes) \X Props : Row(nodes, f[1]).props[f[2]] # NoValue}
ValueOf(nodes, f) == Row(nodes, f[1]).props[f[2]]

\* The fingerprint of an inventory is the inventory, schema kind included.
Inventory(kind, nodes, edges) == [kind |-> kind, nodes |-> nodes, edges |-> edges]

------------------------------------------------------------------------------
\* Building a plan.  A node without a mapping keeps its key.
Image(m, k) == IF k \in DOMAIN m.to THEN m.to[k] ELSE k
Group(inv, m, k) == {n \in inv.nodes : Image(m, n.key) = Image(m, k)}
Renamed(m, f) == IF f \in DOMAIN m.rename THEN m.rename[f] ELSE f[2]

\* Two rows of one id need a mapping each; only mapped rows may merge.
KeysResolve(inv, m) ==
    /\ DOMAIN m.to \subseteq KeysOf(inv.nodes)
    /\ \A k, l \in KeysOf(inv.nodes) : k # l =>
          /\ k.id = l.id => k \in DOMAIN m.to
          /\ Image(m, k).id = Image(m, l).id =>
                Image(m, k) = Image(m, l) /\ {k, l} \subseteq DOMAIN m.to

\* _derive_user_properties: values that differ need a resolution each, and no
\* two values may end in one property.
PropsResolve(inv, m) ==
    LET fields == FieldsOf(inv.nodes) IN
    /\ DOMAIN m.rename \subseteq fields
    /\ \A f, g \in fields : f # g /\ Image(m, f[1]) = Image(m, g[1]) =>
          /\ Renamed(m, f) = Renamed(m, g) => ValueOf(inv.nodes, f) = ValueOf(inv.nodes, g)
          /\ f[2] = g[2] /\ ValueOf(inv.nodes, f) # ValueOf(inv.nodes, g) =>
                f \in DOMAIN m.rename
          /\ {f, g} \subseteq DOMAIN m.rename => Renamed(m, f) # Renamed(m, g)

EdgesResolve(inv, m) ==
    /\ \A e \in inv.edges : {e.from, e.to} \subseteq KeysOf(inv.nodes)
    /\ \A e, d \in inv.edges :
          Image(m, e.from) = Image(m, d.from) /\ Image(m, e.to) = Image(m, d.to)
             => e.props = d.props

NodeSpec(inv, m, k) ==
    LET group == Group(inv, m, k)
        cover == [f \in FieldsOf(group) |-> Renamed(m, f)]
    IN [sources |-> KeysOf(group), target |-> Image(m, k), cover |-> cover,
        props |-> [p \in Props |->
                     IF \E f \in DOMAIN cover : cover[f] = p
                     THEN ValueOf(group, CHOOSE f \in DOMAIN cover : cover[f] = p)
                     ELSE NoValue]]

Parallel(inv, m, e) == {d \in inv.edges : /\ Image(m, d.from) = Image(m, e.from)
                                         /\ Image(m, d.to) = Image(m, e.to)}
Chosen(edges) == CHOOSE d \in edges : TRUE

EdgeSpec(inv, m, e) ==
    [source |-> <<e.from, e.to>>, from |-> Image(m, e.from), to |-> Image(m, e.to),
     props |-> e.props, kept |-> e = Chosen(Parallel(inv, m, e))]

Buildable(inv, m) == KeysResolve(inv, m) /\ PropsResolve(inv, m) /\ EdgesResolve(inv, m)

Plan(inv, m) == [source |-> inv, edited |-> FALSE,
                 nodes |-> {NodeSpec(inv, m, k) : k \in KeysOf(inv.nodes)},
                 edges |-> {EdgeSpec(inv, m, e) : e \in inv.edges}]

------------------------------------------------------------------------------
\* What an apply demands of the plan it was given: _validate_decoded_plan.
CoversProps(spec, inv) ==
    LET group == {n \in inv.nodes : n.key \in spec.sources} IN
    /\ DOMAIN spec.cover = FieldsOf(group)
    /\ \A f \in DOMAIN spec.cover : spec.props[spec.cover[f]] = ValueOf(group, f)
    /\ \A p \in Props : spec.props[p] # NoValue => \E f \in DOMAIN spec.cover : spec.cover[f] = p

NodesCovered(plan, inv) ==
    /\ UNION {s.sources : s \in plan.nodes} = KeysOf(inv.nodes)
    /\ \A s, t \in plan.nodes : s # t =>
          s.sources \cap t.sources = {} /\ s.target.id # t.target.id
    /\ \A s \in plan.nodes : CoversProps(s, inv)

\* Mutant: an edge whose spec is missing goes unnoticed.
EdgesListed(plan, inv) ==
    \A s \in plan.edges : \E e \in inv.edges : s.source = <<e.from, e.to>> /\ s.props = e.props

EdgesCovered(plan, inv) ==
    /\ {s.source : s \in plan.edges} = {<<e.from, e.to>> : e \in inv.edges}
    /\ EdgesListed(plan, inv)
    /\ \A s, t \in plan.edges : s # t => s.source # t.source

\* Mutant: the ends of an edge are ids, whatever type the edge says they have.
EndsKnown(plan) ==
    \A s \in plan.edges : {s.from.id, s.to.id} \subseteq {n.target.id : n \in plan.nodes}

EndsAgree(plan) ==
    \A s \in plan.edges : {s.from, s.to} \subseteq {n.target : n \in plan.nodes}

\* One spec is kept for each target edge, and the others say the same.
OneIsKept(plan) ==
    \A s, t \in plan.edges : s.from.id = t.from.id /\ s.to.id = t.to.id =>
        /\ s.from = t.from /\ s.to = t.to /\ s.props = t.props
        /\ s.kept /\ t.kept => s = t
        /\ \E u \in plan.edges : u.kept /\ u.from = s.from /\ u.to = s.to

Valid(plan, inv) ==
    /\ plan.source = inv
    /\ NodesCovered(plan, inv) /\ EdgesCovered(plan, inv)
    /\ OneIsKept(plan) /\ EndsAgree(plan)

TargetNodes(plan) == {[key |-> s.target, props |-> s.props] : s \in plan.nodes}
TargetEdges(plan) == {[from |-> s.from, to |-> s.to, props |-> s.props] :
                         s \in {t \in plan.edges : t.kept}}

\* One slip of the hand in a plan file, whose fingerprints are made to fit: a
\* spec goes, or says another target or value.
NodeSlips(s) ==
    {{}} \cup {{[s EXCEPT !.target = k]} : k \in Key}
         \cup {{[s EXCEPT !.props[p] = v]} : p \in Props, v \in PropValues \cup {NoValue}}
EdgeSlips(s) ==
    {{}, {[s EXCEPT !.kept = ~@]}} \cup {{[s EXCEPT !.to = k]} : k \in Key}
         \cup {{[s EXCEPT !.props[p] = v]} : p \in Props, v \in PropValues}

NodesSwapped(plan, s, t) == [plan EXCEPT !.edited = TRUE, !.nodes = (@ \ {s}) \cup t]
EdgesSwapped(plan, s, t) == [plan EXCEPT !.edited = TRUE, !.edges = (@ \ {s}) \cup t]

------------------------------------------------------------------------------
Closed == [at |-> "closed", kind |-> "partial", nodes |-> {}, edges |-> {},
           plan |-> NoValue, req |-> NoValue, receipt |-> NoValue]

GraphInit ==
    /\ \E g \in InitialGraphs : schema = g.schema /\ gNodes = g.nodes /\ gEdges = g.edges
    /\ ledger = [r \in RequestIds |-> NoValue]
    /\ planFile = NoValue
    /\ caller = [c \in Callers |-> Closed]
    /\ used = [edits |-> 0, dryRuns |-> 0, writes |-> 0]

Spend(bound, max) == used[bound] < max /\ used' = [used EXCEPT ![bound] = @ + 1]
Sets(c, r) == caller' = [caller EXCEPT ![c] = r]

\* A store object is opened, or a process dies and its next run opens one.
OpenStore(c) ==
    /\ Sets(c, [Closed EXCEPT !.at = "open", !.kind = schema])
    /\ UNCHANGED <<schema, gNodes, gEdges, ledger, planFile, used>>

\* inspect_graph_identity: two statements and no transaction.
ReadNodes(c) ==
    /\ caller[c].at = "open"
    /\ Spend("dryRuns", MaxDryRuns)
    /\ Sets(c, [caller[c] EXCEPT !.at = "reading", !.nodes = gNodes])
    /\ UNCHANGED <<schema, gNodes, gEdges, ledger, planFile>>

ReadEdges(c) ==
    /\ caller[c].at = "reading"
    /\ Sets(c, [caller[c] EXCEPT !.at = "read", !.edges = gEdges])
    /\ UNCHANGED <<schema, gNodes, gEdges, ledger, planFile, used>>

Released(c) == [Closed EXCEPT !.at = "open", !.kind = caller[c].kind]

DryRun(c, m) ==
    LET inv == Inventory(caller[c].kind, caller[c].nodes, caller[c].edges) IN
    /\ caller[c].at = "read"
    /\ planFile' = IF Buildable(inv, m) THEN Plan(inv, m) ELSE planFile
    /\ Sets(c, Released(c))
    /\ UNCHANGED <<schema, gNodes, gEdges, ledger, used>>

EditPlan ==
    /\ planFile # NoValue
    /\ Spend("edits", MaxEdits)
    /\ \/ \E s \in planFile.nodes : \E t \in NodeSlips(s) : planFile' = NodesSwapped(planFile, s, t)
       \/ \E s \in planFile.edges : \E t \in EdgeSlips(s) : planFile' = EdgesSwapped(planFile, s, t)
    /\ UNCHANGED <<schema, gNodes, gEdges, ledger, caller>>

\* The digest of an apply request is that of its plan: the file, its source
\* fingerprint and the backup go together.
Answers(c, r, plan) ==
    IF ledger[r].plan = plan
    THEN Sets(c, [caller[c] EXCEPT !.at = "answered", !.plan = plan, !.req = r, !.receipt = ledger[r]])
    ELSE Sets(c, [caller[c] EXCEPT !.at = "refused", !.plan = plan, !.req = r])

\* _apply_migration before its transaction: the ledger, which a failed read
\* makes look empty; then the backup, which may be missing or another file.
LookUp(c, r) ==
    /\ caller[c].at \in {"open", "refused"} /\ planFile # NoValue
    /\ \/ ledger[r] # NoValue /\ Answers(c, r, planFile)
       \/ \E at \in {"ready", "refused"} :
             Sets(c, [caller[c] EXCEPT !.at = at, !.plan = planFile, !.req = r])
    /\ UNCHANGED <<schema, gNodes, gEdges, ledger, planFile, used>>

Receipt(plan, nodes, edges) == [plan |-> plan, before |-> <<gNodes, gEdges>>,
                                after |-> <<nodes, edges>>]

\* Mutant: the transaction does not look at the ledger first.
ReplaysNever(r) == FALSE

Replays(r) == ledger[r] # NoValue

\* The inventory says what the store object thinks the schema is.
Acceptable(c) ==
    LET plan == caller[c].plan IN
    /\ Valid(plan, Inventory(caller[c].kind, gNodes, gEdges))
    /\ caller[c].kind = "target" => /\ TargetNodes(plan) = gNodes
                                    /\ TargetEdges(plan) = gEdges

\* The exclusive transaction.  The answer may be lost behind the commit: the
\* caller sees an error, and may send the same request again.
Commit(c) ==
    LET plan == caller[c].plan
        r == caller[c].req
        receipt == Receipt(plan, TargetNodes(plan), TargetEdges(plan))
    IN /\ caller[c].at = "ready"
       /\ ~Replays(r) /\ Acceptable(c)
       /\ schema' = "target"
       /\ gNodes' = TargetNodes(plan) /\ gEdges' = TargetEdges(plan)
       /\ ledger' = [ledger EXCEPT ![r] = receipt]
       /\ \/ Sets(c, [caller[c] EXCEPT !.at = "answered", !.receipt = receipt, !.kind = "target"])
          \/ Sets(c, Released(c))
       /\ UNCHANGED <<planFile, used>>

\* Nothing is written: another caller's receipt is answered, or the plan does
\* not fit, or the transaction fails and is rolled back.
Settle(c) ==
    LET r == caller[c].req IN
    /\ caller[c].at = "ready"
    /\ IF Replays(r)
       THEN Sets(c, [caller[c] EXCEPT
              !.at = IF ledger[r].plan = caller[c].plan THEN "answered" ELSE "refused",
              !.receipt = IF ledger[r].plan = caller[c].plan THEN ledger[r] ELSE NoValue,
              !.kind = IF ledger[r].plan = caller[c].plan THEN "target" ELSE @])
       ELSE Sets(c, IF Acceptable(c) THEN Released(c) ELSE [caller[c] EXCEPT !.at = "refused"])
    /\ UNCHANGED <<schema, gNodes, gEdges, ledger, planFile, used>>

------------------------------------------------------------------------------
\* The writers.  Each one is a transaction, and none runs on a store object
\* that was opened on a legacy database.
MayWrite(c) == caller[c].kind = "target" /\ Spend("writes", MaxWrites)
GraphRest == UNCHANGED <<schema, ledger, planFile, caller>>

\* An id that is there with other properties is a conflict.
UpsertNode(c, row) ==
    /\ MayWrite(c)
    /\ row.key.id \notin {n.key.id : n \in gNodes}
    /\ gNodes' = gNodes \cup {row}
    /\ UNCHANGED gEdges /\ GraphRest

\* update_node and reclassify_node compare the digest of a row read before,
\* and take the types of the incident edges along.
UpdateNode(c, old, row) ==
    /\ MayWrite(c)
    /\ old \in caller[c].nodes /\ old \in gNodes /\ row.key.id = old.key.id
    /\ gNodes' = (gNodes \ {old}) \cup {row}
    /\ LET moved(k) == IF k = old.key THEN row.key ELSE k IN
       gEdges' = {[e EXCEPT !.from = moved(@), !.to = moved(@)] : e \in gEdges}
    /\ GraphRest

\* Mutant: the row alone.
EdgesLeft(k) == gEdges

EdgesBeside(k) == {e \in gEdges : k \notin {e.from, e.to}}

DeleteNode(c, k) ==
    /\ MayWrite(c) /\ k \in KeysOf(gNodes)
    /\ gNodes' = {n \in gNodes : n.key # k}
    /\ gEdges' = EdgesBeside(k)
    /\ GraphRest

UpsertEdge(c, row) ==
    /\ MayWrite(c)
    /\ {row.from, row.to} \subseteq KeysOf(gNodes)
    /\ \A e \in gEdges : e.from # row.from \/ e.to # row.to
    /\ gEdges' = gEdges \cup {row}
    /\ UNCHANGED gNodes /\ GraphRest

\* The edge must be the row that was read, and belong to the pack of the caller.
UpdateEdge(c, old, props) ==
    /\ MayWrite(c)
    /\ old \in caller[c].edges /\ old \in gEdges
    /\ {old.from, old.to} \subseteq KeysOf(gNodes)
    /\ props[OwnerProp] = old.props[OwnerProp] /\ props[OwnerProp] # NoValue
    /\ gEdges' = (gEdges \ {old}) \cup {[old EXCEPT !.props = props]}
    /\ UNCHANGED gNodes /\ GraphRest

DeleteEdge(c, e, owner) ==
    /\ MayWrite(c) /\ e \in gEdges /\ e.props[OwnerProp] = owner
    /\ gEdges' = gEdges \ {e}
    /\ UNCHANGED gNodes /\ GraphRest

\* Mutant: the owner replaces the other properties.
OwnedAlone(row, owner) == [row EXCEPT !.props = [p \in {OwnerProp} |-> owner]]

\* The owner is set beside the other properties.
Owned(row, owner) == [row EXCEPT !.props[OwnerProp] = owner]

\* backfill_pack_provenance: the records were made for this very graph; a row
\* that has another owner refuses the whole batch.
BackfillProvenance(c, owner) ==
    /\ MayWrite(c)
    /\ caller[c].nodes = gNodes /\ caller[c].edges = gEdges
    /\ \E ns \in SUBSET gNodes, es \in SUBSET gEdges :
        /\ ns \cup es # {}
        /\ \A row \in ns \cup es : row.props[OwnerProp] \in {NoValue, owner}
        /\ \A e \in es : {e.from, e.to} \subseteq KeysOf(gNodes)
        /\ gNodes' = (gNodes \ ns) \cup {Owned(n, owner) : n \in ns}
        /\ gEdges' = (gEdges \ es) \cup {Owned(e, owner) : e \in es}
    /\ GraphRest

GraphNext ==
    \/ \E c \in Callers :
        \/ OpenStore(c) \/ ReadNodes(c) \/ ReadEdges(c) \/ Commit(c) \/ Settle(c)
        \/ \E m \in Mappings : DryRun(c, m)
        \/ \E r \in RequestIds : LookUp(c, r)
        \/ \E k \in Key : DeleteNode(c, k)
        \/ \E k \in Key, p \in NewRows :
              \/ UpsertNode(c, [key |-> k, props |-> p])
              \/ \E old \in caller[c].nodes : UpdateNode(c, old, [key |-> k, props |-> p])
              \/ \E l \in Key : UpsertEdge(c, [from |-> k, to |-> l, props |-> p])
        \/ \E e \in gEdges :
              \/ \E owner \in PropValues : DeleteEdge(c, e, owner)
              \/ \E p \in NewRows : UpdateEdge(c, e, p)
        \/ \E owner \in PropValues : BackfillProvenance(c, owner)
    \/ EditPlan

GraphSpec == GraphInit /\ [][GraphNext]_graphVars

------------------------------------------------------------------------------
GraphTypeOK ==
    /\ schema \in {"legacy", "target"}
    /\ gNodes \subseteq NodeRow /\ gEdges \subseteq EdgeRow
    /\ \A c \in Callers : caller[c].nodes \subseteq NodeRow /\ caller[c].edges \subseteq EdgeRow

\* Once the schema is the target: no id twice, no edge without its ends, the
\* types an edge was stored with are those of its ends today, and no two edges
\* between the same ends.  The tables declare no foreign key; it takes the
\* validator, every writer and update_node's second statement to keep this.
GraphIsWhole ==
    schema = "target" => Whole(gNodes, gEdges)

\* An apply that leaves a receipt loses no property value of any node and no
\* edge, and makes none up, whatever was edited in its plan; an edge of a plan
\* nobody edited runs between what its ends became.
Holds(row, t) == \A p \in Props : row.props[p] # NoValue => \E q \in Props : t.props[q] = row.props[p]

CutoverLosesNothing ==
    [][\A r \in RequestIds : ledger[r] = NoValue /\ ledger'[r] # NoValue =>
        LET plan == ledger'[r].plan IN
        /\ \A n \in gNodes : \E s \in plan.nodes :
              n.key \in s.sources /\ \E t \in gNodes' : t.key = s.target /\ Holds(n, t)
        /\ \A t \in gNodes' : \A q \in Props : t.props[q] # NoValue =>
              \E n \in gNodes : \E p \in Props : n.props[p] = t.props[q]
        /\ {e.props : e \in gEdges} = {e.props : e \in gEdges'}
        /\ ~plan.edited => \A e \in gEdges : \E s, t \in plan.nodes :
              /\ e.from \in s.sources /\ e.to \in t.sources
              /\ [e EXCEPT !.from = s.target, !.to = t.target] \in gEdges']_graphVars

\* A request that was committed is answered with its receipt when it is sent
\* again, also by a caller that looked before the commit and waited for the
\* lock; and a request id never stands for two plans.
RetryIsAnswered ==
    [][\A c \in Callers :
        /\ caller[c].at = "ready" /\ caller'[c].at = "refused" =>
              ledger[caller[c].req] = NoValue \/ ledger[caller[c].req].plan # caller[c].plan
        /\ caller'[c].at = "answered" =>
              /\ ledger'[caller'[c].req] = caller'[c].receipt
              /\ caller'[c].receipt.plan = caller'[c].plan]_graphVars
==============================================================================
