------------------------------ MODULE MCWrites ------------------------------
(***************************************************************************)
(* One instance of the components that write nodes, edges, source texts    *)
(* and vectors: each behaviour exercises one of them, named by part, while *)
(* the others stay in an initial state.  They share no state.              *)
(***************************************************************************)
EXTENDS OntologyWrite, SourceText, Neo4jGraph, TLC

VARIABLE part    \* the component that moves

CONSTANTS
    ow1, ow2, oi1, oi2, ty1, ty2, sp1, sp2, tx1, tx2, pk1, pk2,   \* the builder
    sd1, sd2, st1, st2, sk1, sk2,                                 \* the source texts
    gn1, gtA, gtB, gpA, gcl1, gcl2                                \* neo4j

-----------------------------------------------------------------------------
(* The builder: two nodes and the edge between them, of two packs. *)
ORow(t, p) == [type |-> t, pack |-> p, text |-> tx1]
OEdge(p, t) == [fromType |-> ty1, toType |-> ty1, pack |-> p, text |-> t]
MCSpaceOfType == ty1 :> sp1 @@ ty2 :> sp2
MCPackOf == ow1 :> pk1 @@ ow2 :> pk2
MCLinks == {<<oi1, oi2>>}
MCNodeBatches == {oi1 :> ORow(ty1, Unattributed) @@ oi2 :> ORow(ty2, pk2), oi1 :> ORow(ty2, pk2)}
MCEdgeBatches == {<<oi1, oi2>> :> OEdge(Unattributed, tx1)}
NoneHeld == [nodes |-> [i \in {oi1, oi2} |-> NoRow], edges |-> [l \in MCLinks |-> NoRow],
             docs |-> [k \in {sp1, sp2} \X {oi1, oi2} |-> NoRow], vectors |-> [i \in {oi1, oi2} |-> NoRow]]
MCHoldings == {
    [NoneHeld EXCEPT !.docs[<<sp1, oi1>>] = ORow(ty1, pk2), !.vectors[oi2] = [pack |-> pk2, text |-> tx1]],
    [NoneHeld EXCEPT !.nodes = oi1 :> ORow(ty1, pk1) @@ oi2 :> ORow(ty1, Unattributed),
                     !.edges[<<oi1, oi2>>] = OEdge(pk1, tx2)]}

-----------------------------------------------------------------------------
(* Source texts: a short one and a long one, a vector of another text. *)
SRow(t, p, h) == [text |-> t, pack |-> p, helper |-> h, n |-> 0]
SVec(t, p) == [text |-> t, pack |-> p, n |-> 0]
MCSourceRank == sd1 :> 1 @@ sd2 :> 2
MCDeletions == {<<sd1>>, <<sd1, sd2>>}
MCSourceWorlds == {
    [rows |-> sd1 :> SRow(st1, sk1, "absent") @@ sd2 :> SRow(st2, sk2, "unknown"),
     vectors |-> sd1 :> SVec(st2, sk1) @@ sd2 :> SVec(st2, sk2)],
    [rows |-> sd1 :> SRow(st2, sk1, "unknown") @@ sd2 :> Missing,
     vectors |-> sd1 :> SVec(st1, sk1) @@ sd2 :> Missing],
    [rows |-> sd1 :> Missing @@ sd2 :> SRow(st2, sk2, "unknown"),
     vectors |-> sd1 :> Missing @@ sd2 :> Missing]}

MCEdgeKeys == {<<gn1, gn1>>}

-----------------------------------------------------------------------------
allVars == <<writeVars, sourceVars, neoVars, part>>

\* The initial state a component rests in while another one moves.
AtRest(name, resting) == part = name \/ resting

WritesInit ==
    /\ part \in {"builder", "sources", "neo4j"}
    /\ WriteInit /\ AtRest("builder", oneHost /\ vec = [i \in WriteNodes |-> NoRow])
    /\ SourceInit /\ AtRest("sources", docKind = "sqlite" /\ srow[sd2] = Missing)
    /\ NeoInit

WritesNext ==
    /\ UNCHANGED part
    /\ \/ part = "builder" /\ WriteNext /\ UNCHANGED <<sourceVars, neoVars>>
       \/ part = "sources" /\ SourceNext /\ UNCHANGED <<writeVars, neoVars>>
       \/ part = "neo4j" /\ NeoNext /\ UNCHANGED <<writeVars, sourceVars>>

WritesSpec == WritesInit /\ [][WritesNext]_allVars

\* Every component's variables keep their types.
WritesTypesOK ==
    /\ part = "builder" => WriteTypeOK
    /\ part = "sources" => SourceTypeOK
    /\ part = "neo4j" => NeoTypeOK

\* What a write that answered leaves behind fits together: nodes with their
\* edges, documents and vectors (ontology/builder), a source's row with its text
\* and vector (pack/source_writer), and a Neo4j that may be written.
WritesAreSound == WritesAreWhole /\ SourcesAreSound /\ StartsWritable

\* No write takes a row from another pack, or replaces what its writer has not
\* read; a rewrite of a source keeps its text.
WritesSpareOthers == PacksKeepTheirRows /\ RewritesKeepTheText /\ ReplacesWhatWasRead
=============================================================================
