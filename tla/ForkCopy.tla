------------------------------ MODULE ForkCopy ------------------------------
(***************************************************************************)
(* What one pack_fork call copies (pack/fork.py, pack/fork_remap.py).      *)
(* PackLifecycle has the registry's side of a fork, with its competitors;  *)
(* this module has the content's side: which rows of the source pack       *)
(* survive the preflight, what becomes of the ids and of the references    *)
(* in them, which writes may fail after the reservation, and what the call *)
(* then says.                                                              *)
(*                                                                         *)
(* Other writers keep changing the source pack, and the call reads it      *)
(* axis by axis without a lock, so every read returns any rows: the fork   *)
(* must be right for each combination.  Every row carries one reference,   *)
(* the value of its REFERENCE_KEYS; all rows carry the same one, forkMeans.*)
(***************************************************************************)
EXTENDS Integers, Sequences, FiniteSets, SequencesExt

CONSTANTS
    ForkNodes, ForkSources,  \* content ids of the source pack
    Odd,                     \* the content whose id may be spelled like a pack's
    Anchor,                  \* the id of the source pack's anchor node
    Stray,                   \* an id no read returns
    ForkEdgeEnds,            \* <<from, to>> of the source pack's edges
    VectorReads,             \* the vector exports considered
    MaxForkDefects,          \* rows with a defect in one read
    LossNum, LossDen,        \* FORK_MAX_LOSS_RATIO
    MaxRewrites              \* rewrites of a source's text under the call

ForkContents == ForkNodes \cup ForkSources
References == ForkContents \cup {Anchor, "tag", "elsewhere", "nested"}

ASSUME ForkAssumption ==
    /\ ForkNodes \cap ForkSources = {} /\ Odd \in ForkContents
    /\ {Anchor, Stray} \cap ForkContents = {} /\ Anchor # Stray
    /\ \A e \in ForkEdgeEnds : {e[1], e[2]} \subseteq ForkNodes \cup {Anchor}
    /\ {"tag", "elsewhere", "nested"} \cap (ForkContents \cup {Anchor, Stray}) = {}
    /\ VectorReads \subseteq Seq([of : ForkContents \cup {Anchor, Stray}, dim : Nat,
                                 grade : {"fine", "mistagged", "invalid"}])
    /\ LossNum \in Nat /\ LossDen \in Nat \ {0} /\ MaxRewrites \in Nat

VARIABLES
    forkMeans,   \* what the reference in every row refers to
    spelled,     \* Odd's id is spelled like: "plain", the "source" or the "target" pack
    forkPc,
    plan,        \* what survived the preflight
    exported,    \* the vector export
    forkTarget,  \* what the stores hold under the new pack
    forkRow,     \* the new pack's registry row
    reply,       \* what the call answered
    live,        \* text and state of the sources, as other writers leave them
    forkNoted        \* the first state read of the source being copied

forkVars == <<forkMeans, spelled, forkPc, plan, exported, forkTarget, forkRow, reply, live, forkNoted>>

NothingNoted == [text |-> -1, settled |-> FALSE]
NoReply == [status |-> "none", observed |-> "none", confirmed |-> FALSE]
NoPlan == [nodes |-> {}, edges |-> {}, sources |-> {}, texts |-> <<>>, batch |-> {}]
EmptyTarget == [anchor |-> FALSE, nodes |-> {}, edges |-> {}, sources |-> {}, vectors |-> <<>>]

-----------------------------------------------------------------------------
(* Preflight: one verdict per row, "drop" (Tier 1) or "reject" (the fork). *)

NodeDefects == {"noId", "noType", "grammar", "alias", "labels", "types", "long"}
Rejecting == {"labels", "types", "long", "impostor", "anchorId", "twice"}
EdgeDefects == {"noId", "shape", "alias"}
SourceDefects == {"noId", "alias", "anchorId", "twice"}

RowReads ==
    [nodes : [ForkNodes -> NodeDefects \cup {"absent", "fine"}],
     anchor : {"absent", "fine", "impostor"},
     edges : [ForkEdgeEnds -> EdgeDefects \cup {"absent", "fine"}],
     sources : [ForkSources -> SourceDefects \cup {"absent", "fine"}]]

Fine(rows) == {x \in DOMAIN rows : rows[x] = "fine"}
StillPresent(rows) == {x \in DOMAIN rows : rows[x] # "absent"}
Defective(rows) == {x \in DOMAIN rows : rows[x] \notin {"absent", "fine"}}
Defects(r) == Cardinality(Defective(r.nodes)) + Cardinality(Defective(r.edges))
              + Cardinality(Defective(r.sources)) + (IF r.anchor = "impostor" THEN 1 ELSE 0)

NodeSurvivors(r) == Fine(r.nodes)
NodeRejects(r) == r.anchor = "impostor" \/ \E n \in ForkNodes : r.nodes[n] \in Rejecting

\* An edge survives with its ends: copied nodes, or the anchor, which is never
\* copied but always has a counterpart.
EdgeSurvivors(r) == {e \in Fine(r.edges) : {e[1], e[2]} \subseteq NodeSurvivors(r) \cup {Anchor}}
SourceSurvivors(r) == Fine(r.sources)
SourceRejects(r) == \E s \in ForkSources : r.sources[s] \in Rejecting

TooLossy(total, dropped) == dropped * LossDen > LossNum * total

RowsTooLossy(r) ==
    LET Lost(rows, kept) == Cardinality(StillPresent(rows)) - Cardinality(kept)
        anchors == IF r.anchor = "absent" THEN 0 ELSE 1
    IN  \/ TooLossy(Cardinality(StillPresent(r.nodes)) + anchors, Lost(r.nodes, NodeSurvivors(r)))
        \/ TooLossy(Cardinality(StillPresent(r.edges)), Lost(r.edges, EdgeSurvivors(r)))
        \/ TooLossy(Cardinality(StillPresent(r.sources)), Lost(r.sources, SourceSurvivors(r)))

Copied == plan.nodes \cup plan.sources
Mapped == Copied \cup {Anchor}

\* Mutant: the ids of the copied nodes alone are compared with the pack's id
NodeNamesakeOfPack(kept) == spelled = "source" /\ Odd \in kept \cap ForkNodes

\* A copied content spelled like the source pack would make the pack's tag and a
\* reference to that content the same string.
NamesakeOfPack(kept) == spelled = "source" /\ Odd \in kept

-----------------------------------------------------------------------------
(* Vectors: first match wins, then one slot per id at one dimension.       *)

Classified(v) ==
    CASE v.of = Anchor -> "anchor"
      [] v.of \notin Copied -> "orphan"
      [] v.grade = "mistagged" -> "mistagged"
      [] v.grade = "invalid" -> "invalid"
      [] OTHER -> "batch"

Usable(vs) == {i \in DOMAIN vs : Classified(vs[i]) = "batch"}
BatchDim(vs) == vs[Min(Usable(vs))].dim

\* Pass 1: each id once, for the first record of the first record's dimension.
\* The batch is the set of the positions kept, in their order.
KeepFirst(vs) ==
    LET good == {i \in Usable(vs) : vs[i].dim = BatchDim(vs)}
    IN  {i \in good : \A j \in good : j < i => vs[j].of # vs[i].of}

VectorsDropped(vs) ==
    Cardinality({i \in DOMAIN vs : Classified(vs[i]) # "anchor"}) - Cardinality(KeepFirst(vs))

-----------------------------------------------------------------------------
(* References: a value is rewritten as a string, whatever it meant.        *)

Spelling(ref) == IF ref = "tag" /\ spelled = "source" THEN Odd ELSE ref
SourceTag == Spelling("tag")
CopyOf(c) == IF c = Anchor THEN "copy of anchor" ELSE <<"copy", c>>

\* fork_remap rule 3: a mapped id, the source pack's tag, or left alone.
Remapped(value) ==
    IF value \in Mapped THEN CopyOf(value)
    ELSE IF value = SourceTag THEN "target tag" ELSE value

\* What a copy's reference should say; a reference to a content that was not
\* copied has no counterpart.
Meant(ref) ==
    IF ref \in Mapped THEN CopyOf(ref) ELSE IF ref = "tag" THEN "target tag" ELSE ref
HasCounterpart(ref) == ref \notin ForkContents \ Mapped

Written(id) == [of |-> id, ref |-> Remapped(Spelling(forkMeans)), text |-> 0]
Garbled(id) == [of |-> id, ref |-> Spelling(forkMeans), text |-> 0]

-----------------------------------------------------------------------------
ForkInit ==
    /\ forkMeans \in References /\ spelled \in {"plain", "source", "target"}
    /\ forkPc = "rows" /\ plan = NoPlan /\ exported = <<>> /\ forkTarget = EmptyTarget
    /\ forkRow = "none" /\ reply = NoReply
    /\ live = [s \in ForkSources |-> [text |-> 0, settled |-> TRUE]]
    /\ forkNoted = NothingNoted

ForkAnswer(status, observed, confirmed) ==
    /\ reply' = [status |-> status, observed |-> observed, confirmed |-> confirmed]
    /\ forkPc' = "done"

Rejected == ForkAnswer("rejected", "none", TRUE)

\* Authorization, availability, caps, the slug's format: nothing exists yet.
Refuse ==
    /\ forkPc \in {"rows", "vectors"}
    /\ Rejected
    /\ UNCHANGED <<forkMeans, spelled, plan, exported, forkTarget, forkRow, live, forkNoted>>

ReadRows ==
    /\ forkPc = "rows"
    /\ \E r \in RowReads :
         /\ Defects(r) <= MaxForkDefects
         /\ IF NodeRejects(r) \/ SourceRejects(r) \/ RowsTooLossy(r)
                \/ NamesakeOfPack(NodeSurvivors(r) \cup SourceSurvivors(r))
            THEN Rejected /\ UNCHANGED plan
            ELSE /\ plan' = [NoPlan EXCEPT !.nodes = NodeSurvivors(r), !.edges = EdgeSurvivors(r),
                                           !.sources = SourceSurvivors(r),
                                           !.texts = [s \in SourceSurvivors(r) |-> live[s].text]]
                 /\ forkPc' = "vectors" /\ UNCHANGED reply
    /\ UNCHANGED <<forkMeans, spelled, exported, forkTarget, forkRow, live, forkNoted>>

\* The export is a second read, later than the count; its cap check is Refuse.
ReadVectors ==
    /\ forkPc = "vectors"
    /\ \E vs \in VectorReads :
         /\ exported' = vs
         /\ IF TooLossy(Len(vs), VectorsDropped(vs))
            THEN Rejected /\ UNCHANGED plan
            ELSE /\ plan' = [plan EXCEPT !.batch = KeepFirst(vs)]
                 /\ forkPc' = "reserve" /\ UNCHANGED reply
    /\ UNCHANGED <<forkMeans, spelled, forkTarget, forkRow, live, forkNoted>>

\* begin_pack_creation; when its answer is lost the row may be there or not.
Reserve ==
    /\ forkPc = "reserve"
    /\ \/ forkRow' = "creating" /\ forkPc' = "check" /\ UNCHANGED reply
       \/ forkRow' \in {"none", "creating"} /\ ForkAnswer("rejected", "registration", FALSE)
    /\ UNCHANGED <<forkMeans, spelled, plan, exported, forkTarget, live, forkNoted>>

\* _compensate_reservation: the deletion counts when it is confirmed, or when
\* the row is found gone; it only takes a row that is still "creating".
Compensate ==
    \/ /\ forkRow' = (IF forkRow = "creating" THEN "none" ELSE forkRow)
       /\ IF forkRow = "creating" THEN Rejected ELSE ForkAnswer("rejected", "inspect", FALSE)
    \/ UNCHANGED forkRow /\ ForkAnswer("rejected", "inspect", FALSE)

\* The target half of the namespace guard.
NamesakeOfTarget == spelled = "target" /\ Odd \in Copied

\* Steps 10 to 12: no writer has run, so every refusal takes the reservation back.
CheckTarget ==
    /\ forkPc = "check"
    /\ \/ ~NamesakeOfTarget /\ forkPc' = "anchor" /\ UNCHANGED <<forkRow, reply>>
       \/ Compensate
    /\ UNCHANGED <<forkMeans, spelled, plan, exported, forkTarget, live, forkNoted>>

-----------------------------------------------------------------------------
(* Writes: from here on a failure demotes, nothing is deleted.             *)

\* A write that reports every leg, one that does not, and one that reports
\* every leg but left the row's reference as it was.
Puts(field, id, next) ==
    \/ /\ forkTarget' = [forkTarget EXCEPT ![field] = @ \cup {Written(id)}]
       /\ forkPc' = next
    \/ /\ forkTarget' = [forkTarget EXCEPT ![field] = @ \cup {Garbled(id)}]
       /\ forkPc' = next
    \/ /\ \/ UNCHANGED forkTarget
          \/ forkTarget' = [forkTarget EXCEPT ![field] = @ \cup {Written(id)}]
       /\ forkPc' = "demote"

PutAnchor ==
    /\ forkPc = "anchor"
    /\ \/ forkTarget' = [forkTarget EXCEPT !.anchor = TRUE] /\ forkPc' = "nodes"
       \/ \E landed \in BOOLEAN : forkTarget' = [forkTarget EXCEPT !.anchor = landed] /\ forkPc' = "demote"
    /\ UNCHANGED <<forkMeans, spelled, plan, exported, forkRow, reply, live, forkNoted>>

Undone(field) == plan[field] \ {x.of : x \in forkTarget[field]}

PutNodes ==
    /\ forkPc = "nodes"
    /\ IF Undone("nodes") = {} THEN forkPc' = "edges" /\ UNCHANGED forkTarget
       ELSE \E n \in Undone("nodes") : Puts("nodes", n, "nodes")
    /\ UNCHANGED <<forkMeans, spelled, plan, exported, forkRow, reply, live, forkNoted>>

PutEdges ==
    /\ forkPc = "edges"
    /\ IF Undone("edges") = {} THEN forkPc' = "sources" /\ UNCHANGED forkTarget
       ELSE \E e \in Undone("edges") : Puts("edges", e, "edges")
    /\ UNCHANGED <<forkMeans, spelled, plan, exported, forkRow, reply, live, forkNoted>>

NextSource == CHOOSE s \in Undone("sources") : TRUE

\* _verified_source_copy_state reads the state twice.
NoteState ==
    /\ forkPc = "sources" /\ forkNoted = NothingNoted /\ Undone("sources") # {}
    /\ \/ forkNoted' = live[NextSource] /\ UNCHANGED forkPc
       \/ forkPc' = "demote" /\ UNCHANGED forkNoted
    /\ UNCHANGED <<forkMeans, spelled, plan, exported, forkTarget, forkRow, reply, live>>

\* Mutant: the text read by the preflight is not compared
AgreesTwice(s) == live[s] = forkNoted

\* Both reads agree with each other and with the text the preflight listed.
ForkVerified(s) == live[s] = forkNoted /\ forkNoted.text = plan.texts[s]

PutSource ==
    /\ forkPc = "sources" /\ forkNoted # NothingNoted
    /\ IF ~ForkVerified(NextSource) THEN forkPc' = "demote" /\ UNCHANGED forkTarget
       ELSE LET s == NextSource
                row == [Written(s) EXCEPT !.text = IF forkNoted.text = plan.texts[s] THEN 0 ELSE 1]
            IN  \/ forkTarget' = [forkTarget EXCEPT !.sources = @ \cup {row}] /\ UNCHANGED forkPc
                \/ /\ \/ UNCHANGED forkTarget
                      \/ forkTarget' = [forkTarget EXCEPT !.sources = @ \cup {row}]
                   /\ forkPc' = "demote"
    /\ forkNoted' = NothingNoted
    /\ UNCHANGED <<forkMeans, spelled, plan, exported, forkRow, reply, live>>

SourcesCopied ==
    /\ forkPc = "sources" /\ forkNoted = NothingNoted /\ Undone("sources") = {}
    /\ forkPc' = "import"
    /\ UNCHANGED <<forkMeans, spelled, plan, exported, forkTarget, forkRow, reply, live, forkNoted>>

\* One import of the whole batch; what it says landed is compared with the
\* batch.  The mapped metadata always names the new pack.
Import ==
    /\ forkPc = "import"
    /\ LET Landed(n) == [i \in {j \in plan.batch : j <= n} |-> Written(exported[i].of)]
       IN  \/ forkTarget' = [forkTarget EXCEPT !.vectors = Landed(Len(exported))] /\ forkPc' = "verify"
           \/ \E n \in 0..Len(exported) :
                /\ plan.batch # {}
                /\ forkTarget' = [forkTarget EXCEPT !.vectors = Landed(n)]
                /\ forkPc' = "demote"
    /\ UNCHANGED <<forkMeans, spelled, plan, exported, forkRow, reply, live, forkNoted>>

TargetRows ==
    forkTarget.nodes \cup forkTarget.edges \cup forkTarget.sources
        \cup {forkTarget.vectors[i] : i \in DOMAIN forkTarget.vectors}

\* Mutant: only references to copied ids are looked for
LeakedIds == {x \in TargetRows : x.ref \in Mapped}

\* _h4_verify: a reference that still says a source id or the source pack.
Leaked == {x \in TargetRows : x.ref \in Mapped \/ x.ref = SourceTag}

VerifyCopy ==
    /\ forkPc = "verify"
    /\ forkPc' \in (IF Leaked = {} THEN {"ready", "demote"} ELSE {"demote"})
    /\ UNCHANGED <<forkMeans, spelled, plan, exported, forkTarget, forkRow, reply, live, forkNoted>>

-----------------------------------------------------------------------------
(* The verdict.                                                            *)

\* Both transitions only take a row that is still "creating".
Moves(onto) == forkRow' = (IF forkRow = "creating" THEN onto ELSE forkRow)

MarkReadyCopy ==
    /\ forkPc = "ready"
    /\ \/ forkRow = "creating" /\ Moves("ready") /\ ForkAnswer("ok", "ready", TRUE)
       \/ \* no answer, or "no row updated": the row says what happened
          /\ (Moves("ready") \/ UNCHANGED forkRow)
          /\ IF forkRow' = "ready"
             THEN ForkAnswer("ok", "ready", TRUE) \/ (forkPc' = "demote" /\ UNCHANGED reply)
             ELSE forkPc' = "demote" /\ UNCHANGED reply
    /\ UNCHANGED <<forkMeans, spelled, plan, exported, forkTarget, live, forkNoted>>

DemoteCopy ==
    /\ forkPc = "demote"
    /\ \/ forkRow = "creating" /\ Moves("partial") /\ ForkAnswer("partial", "partial", TRUE)
       \/ /\ (Moves("partial") \/ UNCHANGED forkRow)
          /\ \/ ForkAnswer("partial", "unknown", FALSE)
             \/ ForkAnswer("partial", forkRow', forkRow' = "partial")
    /\ UNCHANGED <<forkMeans, spelled, plan, exported, forkTarget, live, forkNoted>>

-----------------------------------------------------------------------------
(* Others: writers of the source pack, and the registry's repair.          *)

\* The text matters between its two readers, the preflight and the copy.
RewriteText ==
    /\ forkPc \in {"vectors", "sources"}
    /\ \E s \in plan.sources \ {x.of : x \in forkTarget.sources} :
         \/ /\ live[s].settled /\ live[s].text < MaxRewrites
            /\ live' = [live EXCEPT ![s] = [text |-> @.text + 1, settled |-> FALSE]]
         \/ ~live[s].settled /\ live' = [live EXCEPT ![s].settled = TRUE]
    /\ UNCHANGED <<forkMeans, spelled, forkPc, plan, exported, forkTarget, forkRow, reply,
                   forkNoted>>

\* repair_incomplete_packs demotes a row that stays "creating" too long.
RepairDemotes ==
    /\ forkRow = "creating" /\ forkRow' = "partial"
    /\ UNCHANGED <<forkMeans, spelled, forkPc, plan, exported, forkTarget, reply, live, forkNoted>>

ForkNext ==
    \/ Refuse \/ ReadRows \/ ReadVectors \/ Reserve \/ CheckTarget
    \/ PutAnchor \/ PutNodes \/ PutEdges \/ NoteState \/ PutSource \/ SourcesCopied
    \/ Import \/ VerifyCopy \/ MarkReadyCopy \/ DemoteCopy
    \/ RewriteText \/ RepairDemotes

ForkSpec == ForkInit /\ [][ForkNext]_forkVars

-----------------------------------------------------------------------------
ForkPcs == {"rows", "vectors", "reserve", "check", "anchor", "nodes", "edges", "sources",
            "import", "verify", "ready", "demote", "done"}

\* The phases, rows and answers of a call.
ForkTypeOK ==
    /\ forkMeans \in References /\ spelled \in {"plain", "source", "target"}
    /\ forkPc \in ForkPcs /\ forkRow \in {"none", "creating", "partial", "ready"}
    /\ plan.nodes \subseteq ForkNodes /\ plan.sources \subseteq ForkSources
    /\ plan.edges \subseteq ForkEdgeEnds /\ forkTarget.anchor \in BOOLEAN
    /\ {x.of : x \in forkTarget.nodes} \subseteq plan.nodes
    /\ {x.of : x \in forkTarget.edges} \subseteq plan.edges
    /\ {x.of : x \in forkTarget.sources} \subseteq plan.sources
    /\ reply.status \in {"none", "ok", "partial", "rejected"} /\ reply.confirmed \in BOOLEAN

\* No edge of the copy hangs: its ends are copied nodes or the new anchor, and
\* a vector belongs to a copied node or source and has no twin.
NothingDangles ==
    LET nodes == {x.of : x \in forkTarget.nodes}
        sources == {x.of : x \in forkTarget.sources}
    IN  /\ \A x \in forkTarget.edges : \A end \in {x.of[1], x.of[2]} :
              IF end = Anchor THEN forkTarget.anchor ELSE end \in nodes
        /\ \A i, j \in DOMAIN forkTarget.vectors :
              /\ forkTarget.vectors[i].of \in nodes \cup sources
              /\ i # j => forkTarget.vectors[i].of # forkTarget.vectors[j].of

\* A ready copy is whole: each row that survived is there, each exported vector
\* of a copied content at the batch's dimension has a slot, and every reference
\* means in the copy what it meant in the source.
ReadyIsWhole ==
    LET places == {forkTarget.vectors[i].of : i \in DOMAIN forkTarget.vectors}
    IN  forkRow = "ready" =>
          /\ forkTarget.anchor
          /\ Undone("nodes") = {} /\ Undone("edges") = {} /\ Undone("sources") = {}
          /\ \A i \in Usable(exported) :
                exported[i].dim = BatchDim(exported) => exported[i].of \in places
          /\ HasCounterpart(forkMeans) => \A x \in TargetRows : x.ref = Meant(forkMeans)
          /\ \A x \in forkTarget.sources : x.text = 0

\* The answer is true of the stores: "ok" only for a ready copy, a confirmed
\* "partial" only for a row that is partial, and a rejection wrote no row of
\* content and, unless it says so, left no reservation.
AnswerIsTrue ==
    /\ reply.status = "ok" => forkRow = "ready"
    /\ reply.status = "partial" /\ reply.confirmed => forkRow = "partial"
    /\ reply.status = "rejected" =>
          /\ forkTarget = EmptyTarget
          /\ reply.confirmed => forkRow = "none"

ForkIsHonest == NothingDangles /\ ReadyIsWhole /\ AnswerIsTrue
=============================================================================
