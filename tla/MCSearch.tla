------------------------------ MODULE MCSearch ------------------------------
(***************************************************************************)
(* One instance of the components that a search goes through: each         *)
(* behaviour exercises one of them, named by engineOf, while the others    *)
(* stay in an initial state.  They share no state.                         *)
(***************************************************************************)
EXTENDS VectorSearch, NodeIndex, PrunedSearch, VectorSlots, PackSelection, TLC

VARIABLE engineOf    \* the component that moves

CONSTANTS
    ix1, ix2,                             \* processes with a node index
    da, db, dc,                           \* documents of a pruned question
    vs1, vs2, vpA, vpB, vw1, vw2,         \* vector slots
    xp1, xp2, wa, wb, wc, wd, ws          \* packs to choose from, and words

-----------------------------------------------------------------------------
(* Vector search: three rows of three packs, and a fourth pack without rows, *)
(* so that a question over three packs is one scan.                          *)
CONSTANTS sr1, sr2, sr3, spA, spB, spC, spD, sth1, sth2

MCDistance == sr1 :> 1 @@ sr2 :> 2 @@ sr3 :> 3
MCRowPack == sr1 :> spA @@ sr2 :> spB @@ sr3 :> spC
MCRowSpace == sr1 :> "one" @@ sr2 :> "two" @@ sr3 :> "two"
MCAsked(p, s) == [packs |-> p, space |-> s]
MCQuestions ==
    sth1 :> {MCAsked(AnyPack, AnySpace), MCAsked({spB, spC, spD}, AnySpace)}
 @@ sth2 :> {MCAsked(AnyPack, AnySpace), MCAsked({spB, spC}, AnySpace),
             MCAsked(AnyPack, "two"), MCAsked({spA, spB}, "two")}

-----------------------------------------------------------------------------
(* Node index: processes that agree, and that differ in length or format. *)
MCSetting(f, c) == [format |-> f, chars |-> c]
MCSettingWorlds == {ix1 :> MCSetting("1", 8) @@ ix2 :> x :
                      x \in {MCSetting("1", 8), MCSetting("1", 9), MCSetting("2", 8)}}

-----------------------------------------------------------------------------
(* Pruned search: a single list of two, and two groups with one place each. *)
MCBound == <<4, 2, 1>>
MCAdds == [Documents -> {<<x, y, z>> : x \in {0, 3, 4}, y \in {0, 2}, z \in {0, 1}}]
MCTables ==
    {[adds |-> f, group |-> [d \in Documents |-> "g"], groups |-> {"g"}, limit |-> 2] : f \in MCAdds}
    \cup {[adds |-> f, group |-> [d \in Documents |-> IF d = dc THEN "h" ELSE "g"],
           groups |-> {"g", "h"}, limit |-> 1] : f \in MCAdds}

-----------------------------------------------------------------------------
(* Vector slots: calls that claim, share, hand over, repeat and name no owner. *)
MCVector(o, ks, u) == [owner |-> o, keys |-> ks, uri |-> u, by |-> NoVectorWriter]
MCItem(x, o, ks) == [id |-> x, owner |-> o, keys |-> ks]
MCBatch(op, p, items) == [op |-> op, items |-> items, pack |-> p]
MCSeeds == {
    [x \in {vs1, vs2} |-> NoVector],
    [x \in {vs1, vs2} |-> IF x = vs1 THEN MCVector(vpA, {"text", "space"}, FALSE) ELSE NoVector],
    [x \in {vs1, vs2} |-> IF x = vs1 THEN MCVector(vpA, {"text", "space"}, TRUE)
                                     ELSE MCVector(Unowned, {"text"}, FALSE)]}
MCBatches == [w \in {vw1, vw2} |->
  IF w = vw1
  THEN {MCBatch("upsert", vpB, <<MCItem(vs1, vpA, {"text"}), MCItem(vs2, vpA, {"text", "space"})>>),
        MCBatch("upsert", vpB, <<MCItem(vs1, Unowned, {"text"})>>),
        MCBatch("upsert", vpB, <<MCItem(vs1, Unowned, {})>>),
        MCBatch("import", vpA, <<MCItem(vs1, Unowned, {"text", "pack"}), MCItem(vs2, vpA, {"text"})>>),
        MCBatch("delete", vpB, <<MCItem(vs1, Unowned, {})>>)}
  ELSE {MCBatch("upsert", vpB, <<MCItem(vs2, vpB, {"text"}), MCItem(vs1, vpB, {"text"})>>),
        MCBatch("upsert", vpB, <<MCItem(vs2, vpA, {"space"}), MCItem(vs1, vpA, {"space"})>>),
        MCBatch("upsert", vpB, <<MCItem(vs1, vpA, {"text"}), MCItem(vs1, vpA, {"text"})>>),
        MCBatch("upsert", vpB, <<MCItem(vs1, vpA, {"text"}), MCItem(vs1, vpB, {"text"})>>),
        MCBatch("import", vpB, <<MCItem(vs2, vpB, {"text"}), MCItem(vs1, vpB, {"text"})>>),
        MCBatch("import", vpB, <<MCItem(vs2, vpB, {"text"}), MCItem(vs1, vpA, {"text"})>>),
        MCBatch("add", vpB, <<MCItem(vs1, vpB, {"text"}), MCItem(vs2, vpB, {"text"})>>),
        MCBatch("add", vpB, <<MCItem(vs1, vpB, {"text"}), MCItem(vs1, vpB, {"text"})>>)}]

-----------------------------------------------------------------------------
(* Pack selection: packs of mirrored names, rows that hide the directory. *)
MCSelName == xp1 :> <<wa, wb>> @@ xp2 :> <<wb, wa>>
MCSelFragments == [w \in SelWords |-> IF w = wd THEN {ws} ELSE {}]
MCSelAliases == {{wc, wd}}
MCRow(readable, title, text) == [readable |-> readable, title |-> title, description |-> text]
MCSelRows == {MCRow(TRUE, <<>>, <<>>), MCRow(TRUE, <<wd>>, <<>>), MCRow(FALSE, <<wb>>, <<wa>>)}
MCSelManifests == {[title |-> <<wc>>, description |-> <<wb>>, source |-> <<wb>>,
                    keywords |-> {wc}, tags |-> {ws}]}
MCSelContents == {{}, {wa}}
MCSelQuestions == {<<wa, wb>>, <<wc>>, <<ws, wa>>}

-----------------------------------------------------------------------------
partVars == <<indexVars, pruneVars, vectorVars, searchVars, selVars>>

\* The initial state a component rests in while another one moves.
AtRest(name, resting) == engineOf = name \/ resting

SearchesInit ==
    /\ engineOf \in {"index", "pruning", "slots", "vectors", "selection"}
    /\ AtRest("index", /\ settings = CHOOSE f \in SettingWorlds : TRUE
                       /\ nodeRow = [k \in NodeKeys |-> NoEntry])
    /\ IndexInit
    /\ AtRest("pruning", table = CHOOSE t \in ScoreTables : TRUE)
    /\ PruneInit
    /\ AtRest("slots", /\ vectorKind = "sqlite" /\ slots = [x \in SlotIds |-> NoVector]
                       /\ batch = [w \in VectorWriters |-> CHOOSE b \in VectorBatches[w] : TRUE]
                       /\ asked = [r \in VectorReaders |-> vs1])
    /\ VectorInit
    /\ SearchInit
    /\ AtRest("vectors", engine = "exact" /\ Live = SearchRows)
    /\ AtRest("selection", /\ packRows = [p \in SelPacks |-> <<>>] /\ manifests = packRows
                           /\ contents = [p \in SelPacks |-> {}]
                           /\ ask = CHOOSE q \in Askings : TRUE)
    /\ SelectionInit

SearchesNext ==
    /\ UNCHANGED engineOf
    /\ \/ engineOf = "index" /\ IndexNext /\ UNCHANGED <<pruneVars, vectorVars, searchVars,
                                                         selVars>>
       \/ engineOf = "pruning" /\ PruneNext /\ UNCHANGED <<indexVars, vectorVars, searchVars,
                                                           selVars>>
       \/ engineOf = "slots" /\ VectorNext /\ UNCHANGED <<indexVars, pruneVars, searchVars,
                                                          selVars>>
       \/ engineOf = "vectors" /\ SearchNext /\ UNCHANGED <<indexVars, pruneVars, vectorVars, selVars>>
       \/ engineOf = "selection" /\ SelectionNext /\ UNCHANGED <<indexVars, pruneVars, vectorVars, searchVars>>

SearchesSpec == SearchesInit /\ [][SearchesNext]_<<partVars, engineOf>>

\* Every component's variables keep their types.
SearchesTypesOK ==
    /\ engineOf = "index" => NodeIndexTypeOK
    /\ engineOf = "pruning" => PruneTypeOK
    /\ engineOf = "slots" => VectorTypeOK
    /\ engineOf = "vectors" => SearchTypeOK
    /\ engineOf = "selection" => SelectionTypeOK

\* What a question is answered with is what the stores hold and its caller may
\* read, or the answer says what is missing: the node index
\* (stores/_node_bm25_sqlite), the pruned keyword search (stores/_node_bm25_prune), the
\* cached and the exact vector search (stores/sqlite_vec_store), the vector slots
\* a caller was told are written or gone (stores/*vector*, stores/chroma_store),
\* and the choice of packs (services/pack_selection).
AnswersAreHonest ==
    /\ IndexIsHonest /\ PruningIsExact /\ SearchIsSound /\ SelectionIsSound
    /\ SlotsAreSettled /\ AbsentMeansGone /\ ImportsAreOurs
=============================================================================
