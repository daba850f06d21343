------------------------------ MODULE MCStores ------------------------------
(***************************************************************************)
(* One instance of the components that move rows between the stores and    *)
(* repair them: each behaviour exercises one of them, named by part, while *)
(* the others stay in an initial state.  They share no state: each of them *)
(* models the stores at its own level.                                     *)
(***************************************************************************)
EXTENDS PackLoad, PackOwnership, GraphMigration, CleanupRun, SpaceBackfill, TLC

VARIABLE part    \* the component that moves

CONSTANTS
    gT, gU, ga, gb, gc, pk, po, v1, v2, nov,      \* graph identities
    h1, h2,                                       \* the cleanup
    i1, i2, s1, k1, k2                            \* the space backfill

-----------------------------------------------------------------------------
(* Loads: two nodes, two chunks, one of which shares its id with a node, two *)
(* edges, of which one file has both, and files that change, retype, move    *)
(* and drop them.  One has an edge of a node it does not list, one none, one *)
(* a row that is refused.                                                    *)
CONSTANTS la, ls, lc, lT, lU, lp, lq, noRow

Says(t, sp, x) == [type |-> t, space |-> sp, value |-> x]
Text(x, m) == [text |-> x, meta |-> m]
MCEdges == {<<la, ls>>, <<ls, la>>}
\* lc is a chunk that every file with chunks lists.
FileOf(na, ns, ch, ed) ==
    [nodes |-> la :> na @@ ls :> ns, chunks |-> ls :> ch @@ lc :> Text(1, 1),
     edges |-> <<la, ls>> :> ed @@ <<ls, la>> :> noRow]
MCFiles == {
    [FileOf(Says(lT, lp, 1), Says(lT, lp, 1), Text(1, 1), 1) EXCEPT !.edges[<<ls, la>>] = 1],
    FileOf(Says(lU, lp, 1), Says(lT, lq, 1), Text(1, 2), 2),
    [FileOf(noRow, Says(lT, lp, 2), noRow, 1) EXCEPT !.chunks[lc] = noRow],
    FileOf(Says(lT, lq, 2), Says(lT, lp, 1), noRow, 1),
    FileOf(Says(lT, lp, 1), Says(lT, lp, 2), Text(1, 1), noRow),
    FileOf(Says(lU, lq, 1), Says(lT, lp, 1), Text(1, 1), 1)}
MCRefused == {Says(lU, lq, 1)}

-----------------------------------------------------------------------------
(* Ownership: a graph node, its document and a third, of several shapes. *)
CONSTANTS n1, d1, x1, o1, o2, dp, e1, y1, y2, nopack, nospace, bad

OwnRow(k, i, sp, p, h, b) ==
    [kind |-> k, id |-> i, space |-> sp, pack |-> p, hint |-> h, sound |-> b]
OwnTriple(x, y, z) == [r \in Rows |-> CASE r = n1 -> x [] r = d1 -> y [] OTHER -> z]
MCLegacyRows == {
    OwnTriple(OwnRow("node", y1, e1, nopack, o1, TRUE), OwnRow("doc", y1, e1, nopack, o2, TRUE),
              OwnRow("source", y2, nospace, nopack, o2, TRUE)),
    OwnTriple(OwnRow("node", y1, nospace, o1, nopack, TRUE), OwnRow("doc", y1, e1, nopack, nopack, FALSE),
              OwnRow("edge", y2, nospace, nopack, o2, TRUE)),
    OwnTriple(OwnRow("node", y1, e1, nopack, nopack, TRUE), OwnRow("doc", y1, nospace, nopack, o1, TRUE),
              OwnRow("doc", y2, e1, nopack, nopack, FALSE)),
    OwnTriple(OwnRow("node", y1, e1, nopack, nopack, TRUE), OwnRow("doc", y2, e1, o1, nopack, TRUE),
              OwnRow("source", y2, nospace, bad, nopack, TRUE)),
    OwnTriple(OwnRow("node", y1, e1, nopack, nopack, FALSE), OwnRow("doc", y1, e1, nopack, o1, TRUE),
              OwnRow("source", y2, nospace, nopack, nopack, TRUE))}

-----------------------------------------------------------------------------
(* Graphs: an id used twice, a qualified graph, a graph to be renamed. *)
GK(t, i) == [type |-> t, id |-> i]
GP(x, y) == pk :> x @@ po :> y
GN(t, i, x, y) == [key |-> GK(t, i), props |-> GP(x, y)]
GE(k, l, x, y) == [from |-> k, to |-> l, props |-> GP(x, y)]
MCInitialGraphs == {
    [schema |-> "legacy",
     nodes |-> {GN(gT, ga, v1, nov), GN(gU, ga, v2, nov), GN(gT, gb, v1, v1)},
     edges |-> {GE(GK(gT, ga), GK(gT, gb), v1, v1), GE(GK(gU, ga), GK(gT, gb), v1, v1)}],
    [schema |-> "target",
     nodes |-> {GN(gT, ga, v1, v1), GN(gU, gb, v2, nov)},
     edges |-> {GE(GK(gT, ga), GK(gU, gb), v2, v1)}],
    [schema |-> "legacy",
     nodes |-> {GN(gT, ga, v1, v1), GN(gU, gb, v2, nov)},
     edges |-> {GE(GK(gT, ga), GK(gU, gb), v2, nov)}]}
MCMappings == {
    [to |-> <<>>, rename |-> <<>>],
    [to |-> GK(gT, ga) :> GK(gU, ga) @@ GK(gU, ga) :> GK(gU, ga),
     rename |-> <<GK(gT, ga), pk>> :> po @@ <<GK(gU, ga), pk>> :> pk],
    [to |-> GK(gT, ga) :> GK(gT, gc), rename |-> <<>>],
    [to |-> GK(gT, ga) :> GK(gT, gc) @@ GK(gU, ga) :> GK(gU, ga), rename |-> <<>>]}
MCNewRows == {GP(v1, v1), GP(v2, nov)}

MCLinks == {{h1, h2}, {h1}}

-----------------------------------------------------------------------------
(* Space backfill: records with and without a graph twin, of several packs. *)
BG(sp, pack) == [sound |-> TRUE, space |-> sp, pack |-> pack]
BD(sp, pack) == [sound |-> TRUE, space |-> sp, pack |-> pack]
BV(sp, pack, dup, b) ==
    [sound |-> TRUE, space |-> sp, pack |-> pack, part |-> dup, sourced |-> b]
Broken == [sound |-> FALSE, space |-> Nothing, pack |-> Nothing]
MCGrSpaces == {Evidence, s1}
Each(x, y) == [i \in RecIds |-> IF i = i1 THEN x ELSE y]
MCWorlds == {
    [graph |-> Each(BG(s1, k1), Nothing), docs |-> Each(BD(Nothing, k1), BD(Nothing, k2)),
     vectors |-> Each(BV(Nothing, k1, k1, FALSE), BV(Nothing, k2, k2, FALSE))],
    [graph |-> Each(BG(s1, k2), Broken), docs |-> Each(BD(Nothing, k1), BD(Nothing, k2)),
     vectors |-> Each(BV(Nothing, k2, k2, FALSE), BV(Nothing, k2, k1, TRUE))],
    [graph |-> Each(Nothing, BG(Nothing, k1)), docs |-> Each(BD(s1, k1), Nothing),
     vectors |-> Each(BV(Nothing, k1, k1, FALSE), BV(Nothing, k1, k1, FALSE))],
    [graph |-> Each(Nothing, Nothing), docs |-> Each(Nothing, Broken),
     vectors |-> Each(BV(Nothing, k1, k1, TRUE), BV(Nothing, k1, k1, FALSE))],
    [graph |-> Each(BG(s1, k1), Nothing), docs |-> Each(Nothing, BD(Nothing, k1)),
     vectors |-> Each(BV(Nothing, Nothing, Nothing, TRUE), BV(Nothing, k2, k2, FALSE))]}

-----------------------------------------------------------------------------
\* The two callers of a graph differ in nothing but their names.
CallersAlike == Permutations(Callers)

allVars == <<loadVars, graphVars, cleanupVars, backfillVars, ownershipVars, part>>

\* The initial state a component rests in while another one moves.
AtRest(name, resting) == part = name \/ resting

StoresInit ==
    /\ part \in {"load", "graph", "cleanup", "backfill", "ownership"}
    /\ LoadInit /\ GraphInit /\ CleanupInit /\ BackfillInit /\ OwnershipInit
    /\ AtRest("graph", gEdges = (CHOOSE g \in InitialGraphs : TRUE).edges)
    /\ AtRest("ownership", ownRows = (CHOOSE l \in LegacyRows : TRUE) /\ owner = [x \in OwnPacks |-> "nobody"])
    /\ AtRest("backfill", world = CHOOSE w \in Worlds : TRUE)

StoresNext ==
    /\ UNCHANGED part
    /\ \/ /\ part = "load" /\ LoadNext
          /\ UNCHANGED <<graphVars, cleanupVars, backfillVars, ownershipVars>>
       \/ /\ part = "graph" /\ GraphNext
          /\ UNCHANGED <<loadVars, cleanupVars, backfillVars, ownershipVars>>
       \/ /\ part = "cleanup" /\ CleanupNext
          /\ UNCHANGED <<loadVars, graphVars, backfillVars, ownershipVars>>
       \/ /\ part = "backfill" /\ BackfillNext
          /\ UNCHANGED <<loadVars, graphVars, cleanupVars, ownershipVars>>
       \/ /\ part = "ownership" /\ OwnershipNext
          /\ UNCHANGED <<loadVars, graphVars, cleanupVars, backfillVars>>

StoresSpec == StoresInit /\ [][StoresNext]_allVars

\* Every component's variables keep their types.
StoresTypesOK ==
    /\ part = "load" => LoadTypeOK
    /\ part = "graph" => GraphTypeOK
    /\ part = "cleanup" => CleanupTypeOK
    /\ part = "backfill" => BackfillTypeOK
    /\ part = "ownership" => OwnershipTypeOK

\* A run that reports success has done what it was for, and a later run of the
\* same input changes nothing: loading a pack (pack/load), filling in spaces
\* (scripts/backfill_space) and owners (scripts/migrate_pack_ownership).  However
\* a run ends, the graph is whole (stores/_sql_graph_base) and a cleanup can be
\* finished or rolled back (scripts/cleanup_openclaw_heartbeat_493).  An
\* exit of 0 does not count document rows that are no JSON object (README, 5).
RunsLeaveWholeStores ==
    /\ Converges /\ BackfillConverges /\ ExitZeroMeansOwned /\ AttributionIsStable
    /\ GraphIsWhole /\ CleanupIsRecoverable

\* No step loses a row that the input, the cutover or the rollback had to keep,
\* takes a space from a record, or answers a committed request with anything but
\* its receipt.
StoresKeepTheirRows ==
    /\ LosesOnlyStale /\ CutoverLosesNothing /\ RollbackIsWhole
    /\ SpacesStay /\ RetryIsAnswered
=============================================================================
