----------------------------- MODULE Stores_proofs -----------------------------
(***************************************************************************)
(* Proofs about the components that move rows between the stores and       *)
(* repair them, for any number of rows, packs, runs and records and any    *)
(* faults: the migration of pack ownership (PackOwnership), the backfill   *)
(* of spaces (SpaceBackfill), the cleanup of the heartbeat rows            *)
(* (CleanupRun), the migration of graph identities (GraphMigration), the   *)
(* loads of packs (PackLoad), and the five together (MCStores).            *)
(***************************************************************************)
EXTENDS MCStores, TLAPS, FiniteSetTheorems

-----------------------------------------------------------------------------
(***************************************************************************)
(* PackOwnership: a run that exits 0 leaves every pack with an owner, and  *)
(* runs that failed or died leave nothing that a later run would decide    *)
(* otherwise.                                                              *)
(***************************************************************************)
MigStages == {"idle", "default", "graph", "register graph", "insert graph", "register docs", "insert docs",
              "select doc", "update doc", "select source", "update source", "exit 0", "exit 1", "exit 3"}
InsertStages == {"insert graph", "insert docs"}
UpdateStages == {"update doc", "update source"}
\* The graph is tagged; its packs are registered; so are those of the documents.
TaggedStages == MigStages \ {"idle", "default", "graph", "exit 1"}
NamedStages == TaggedStages \ {"register graph"}
DocStages == {"insert docs", "select doc", "update doc", "select source", "update source", "exit 0"}

\* A pack with an owner whom this run may meet, or one that the run is about to
\* register, unless it has noticed that somebody else did.
HasOwner(p) == owner[p] # "nobody" /\ (owner[p] = "other" => mig.accept \/ tags > 0)
Coming(p) == mig.at \in InsertStages /\ (p \in mig.left \/ mig.lost)
Named(p) == HasOwner(p) \/ Coming(p)

OwnTyped ==
    /\ before \in [Rows -> LegacyRow] /\ ownRows \in [Rows -> LegacyRow]
    /\ owner \in [OwnPacks -> {"nobody", "local", "other"}]
    /\ migrations \in 0 .. MaxMigrations /\ tags \in 0 .. MaxTags
    /\ mig.at \in MigStages /\ mig.accept \in BOOLEAN /\ mig.lost \in BOOLEAN /\ mig.unfit \in BOOLEAN
    /\ mig.planned \subseteq OwnPacks
    /\ mig.at \in InsertStages => mig.left \subseteq OwnPacks
    /\ DOMAIN mig = DOMAIN Fresh

\* Of a row nothing changes but its pack, and only once.
RowsFollow ==
    \A r \in Rows :
        /\ ownRows[r].kind = before[r].kind /\ ownRows[r].id = before[r].id
        /\ ownRows[r].space = before[r].space /\ ownRows[r].hint = before[r].hint
        /\ ownRows[r].sound = before[r].sound
        /\ before[r].pack # NoPack => ownRows[r].pack = before[r].pack
        /\ ownRows[r].pack = before[r].pack \/ ownRows[r].pack \in OwnPacks
        /\ r \in GraphRows => ownRows[r].pack \in {before[r].pack, Resolved(before[r], DefaultPack)}

GraphIsTagged ==
    /\ mig.at \in TaggedStages \cup {"graph"} => owner[DefaultPack] = "local"
    /\ mig.at \in TaggedStages => \A r \in GraphRows : ownRows[r].pack \in OwnPacks

PacksAreNamed ==
    /\ mig.at \in NamedStages =>
          (\A r \in GraphRows : Named(ownRows[r].pack)) /\ (\A p \in mig.planned : Named(p))
    /\ mig.at \in DocStages => \A r \in DocRows :
          /\ ownRows[r].pack \in OwnPacks => Named(ownRows[r].pack)
          /\ r \in Fillable({"doc", "source"}) => Named(Target(r))

\* What is left to fill in was decided as the first run would have.
ChunksAreRight ==
    mig.at \in UpdateStages =>
        \A x \in mig.left : /\ x \in OwnPacks \X Rows /\ x[2] \in DocRows
                            /\ x[1] = FirstPack(x[2]) /\ Named(x[1])

FitSoFar ==
    /\ mig.at = "exit 0" => ~mig.unfit
    /\ mig.at \in {"update doc", "select source", "update source", "exit 0"} /\ ~mig.unfit =>
          \A r \in Kind("doc") : ownRows[r].pack # Malformed
    /\ mig.at \in {"update source", "exit 0"} /\ ~mig.unfit =>
          \A r \in Kind("source") : ownRows[r].pack # Malformed

OwnInv == OwnTyped /\ RowsFollow /\ GraphIsTagged /\ PacksAreNamed /\ ChunksAreRight /\ FitSoFar /\ AttributionIsStable

LEMMA OwnFacts ==
    /\ DefaultPack \in OwnPacks /\ NoPack \notin OwnPacks /\ Malformed \notin OwnPacks /\ Malformed # NoPack
    /\ LegacyRows \subseteq [Rows -> LegacyRow] /\ MaxMigrations \in Nat /\ MaxTags \in Nat
BY OwnershipAssumption

LEMMA FreshIs ==
    /\ Fresh.at = "idle" /\ Fresh.accept = FALSE /\ Fresh.left = {} /\ Fresh.planned = {} /\ Fresh.lost = FALSE
    /\ Fresh.unfit = FALSE /\ DOMAIN Fresh = {"at", "accept", "left", "planned", "lost", "unfit"}
BY DEF Fresh

LEMMA LegacyRowIs ==
    ASSUME NEW x \in LegacyRow
    PROVE  /\ x.kind \in {"node", "edge", "doc", "source"} /\ x.pack \in OwnPacks \cup {NoPack, Malformed}
           /\ x.hint \in OwnPacks \cup {NoPack} /\ x.sound \in BOOLEAN
BY DEF LegacyRow

LEMMA OwnInitInv == OwnershipInit => OwnInv
<1> SUFFICES ASSUME OwnershipInit PROVE OwnInv
  OBVIOUS
<1>1. /\ ownRows \in [Rows -> LegacyRow] /\ before = ownRows
      /\ owner \in [OwnPacks -> {"nobody", "other"}] /\ mig = Fresh /\ migrations = 0 /\ tags = 0
  BY OwnFacts DEF OwnershipInit
<1>2. OwnTyped
  <2>1. owner \in [OwnPacks -> {"nobody", "local", "other"}] /\ before \in [Rows -> LegacyRow]
    BY <1>1
  <2>2. migrations \in 0 .. MaxMigrations /\ tags \in 0 .. MaxTags
    BY <1>1, OwnFacts
  <2> QED BY <1>1, <2>1, <2>2, FreshIs DEF OwnTyped, MigStages, InsertStages
<1>3. RowsFollow
  BY <1>1 DEF RowsFollow
<1>4. mig.at = "idle"
  BY <1>1, FreshIs
<1>5. GraphIsTagged /\ PacksAreNamed /\ ChunksAreRight /\ FitSoFar
  BY <1>4 DEF GraphIsTagged, PacksAreNamed, ChunksAreRight, FitSoFar, TaggedStages, NamedStages, DocStages, UpdateStages
<1>6. AttributionIsStable
  BY <1>1 DEF AttributionIsStable
<1> QED BY <1>2, <1>3, <1>5, <1>6 DEF OwnInv

\* The kinds of rows, and who is whose twin, do not change.
LEMMA KindsStay ==
    ASSUME RowsFollow, RowsFollow', before' = before
    PROVE  /\ \A w : Kind(w)' = Kind(w)
           /\ GraphRows' = GraphRows /\ DocRows' = DocRows
           /\ \A r \in Rows : Twins(r)' = Twins(r)
BY DEF RowsFollow, Kind, Twins, GraphRows, DocRows

LEMMA TwinsAreRows ==
    ASSUME NEW r \in Rows, NEW x \in Twins(r)
    PROVE  x \in Rows /\ x \in GraphRows /\ ownRows[r].kind = "doc"
BY DEF Twins, Kind, GraphRows

\* A document without a pack gets the pack that the first run would give it.
LEMMA TargetIsFirst ==
    ASSUME OwnInv, mig.at \in TaggedStages, NEW r \in DocRows, ownRows[r].pack = NoPack
    PROVE  Target(r) = FirstPack(r) /\ Target(r) \in OwnPacks /\ before[r].pack = NoPack
<1>1. r \in Rows /\ ownRows[r] \in LegacyRow /\ before[r] \in LegacyRow
  BY DEF OwnInv, OwnTyped, DocRows, Kind
<1>2. before[r].pack = NoPack /\ ownRows[r].hint = before[r].hint
  BY <1>1, OwnFacts DEF OwnInv, RowsFollow
<1> DEFINE twins == FirstTwins(r)
<1>3. twins = Twins(r)
  BY <1>1 DEF OwnInv, RowsFollow, Twins, Kind, FirstTwins
<1>4. CASE twins = {}
  BY <1>3, <1>4, <1>2, <1>1, LegacyRowIs, OwnFacts DEF Target, FirstPack, Resolved
<1>5. CASE twins # {}
  <2> DEFINE x == AnyOf(Twins(r))
  <2>1. x \in Twins(r)
    BY <1>3, <1>5 DEF AnyOf
  <2>2. Target(r) = Resolved(ownRows[x], DefaultPack)
    BY <1>3, <1>5 DEF Target
  <2>3. FirstPack(r) = Resolved(before[x], DefaultPack)
    BY <1>2, <1>3, <1>5 DEF FirstPack
  <2>4. x \in Rows /\ x \in GraphRows
    BY <1>1, <2>1, TwinsAreRows
  <2>5. ownRows[x].pack \in OwnPacks
    BY <2>4 DEF OwnInv, GraphIsTagged
  <2>6. ownRows[x].pack \in {before[x].pack, Resolved(before[x], DefaultPack)}
    BY <2>4 DEF OwnInv, RowsFollow
  <2> QED BY <2>2, <2>3, <2>5, <2>6, <1>2, OwnFacts DEF Resolved
<1> QED BY <1>4, <1>5

-----------------------------------------------------------------------------
(* Steps that change no row.  Whoever is named stays named.                 *)

LEMMA OwnersStay ==
    ASSUME OwnInv, NEW p \in OwnPacks, HasOwner(p), owner' \in [OwnPacks -> {"nobody", "local", "other"}],
           \A q \in OwnPacks : owner[q] # "nobody" => owner'[q] = owner[q],
           mig'.accept = mig.accept, tags' = tags
    PROVE  HasOwner(p)'
BY DEF HasOwner

\* Nothing is claimed of a run that has not yet tagged the graph.
LEMMA OwnRest ==
    ASSUME OwnInv, UNCHANGED <<ownRows, before, tags>>, OwnTyped',
           mig'.at \in {"idle", "default", "exit 1"}
    PROVE  OwnInv'
<1>1. RowsFollow'
  BY DEF OwnInv, RowsFollow, GraphRows, Kind
<1>2. GraphIsTagged' /\ PacksAreNamed' /\ ChunksAreRight' /\ FitSoFar'
  BY DEF GraphIsTagged, PacksAreNamed, ChunksAreRight, FitSoFar, TaggedStages, NamedStages, DocStages, UpdateStages
<1>3. AttributionIsStable'
  BY DEF FirstTwins, FirstPack, OwnInv, AttributionIsStable
<1> QED BY <1>1, <1>2, <1>3 DEF OwnInv

LEMMA OwnSame ==
    ASSUME OwnInv, UNCHANGED <<ownRows, before, tags>>
    PROVE  /\ RowsFollow' /\ AttributionIsStable'
           /\ GraphRows' = GraphRows /\ DocRows' = DocRows /\ Missing' = Missing
           /\ \A w : Kind(w)' = Kind(w) /\ Fillable({w})' = Fillable({w})
           /\ Fillable({"doc", "source"})' = Fillable({"doc", "source"})
           /\ \A r \in Rows : Target(r)' = Target(r) /\ FirstPack(r)' = FirstPack(r)
<1>0. \A r \in Rows : FirstPack(r)' = FirstPack(r)
  BY DEF FirstTwins, FirstPack
<1>1. RowsFollow' /\ AttributionIsStable'
  BY <1>0 DEF OwnInv, RowsFollow, GraphRows, Kind, AttributionIsStable
<1>2. /\ GraphRows' = GraphRows /\ DocRows' = DocRows /\ Missing' = Missing /\ \A w : Kind(w)' = Kind(w)
  BY DEF GraphRows, DocRows, Kind, Missing
<1>3. \A r \in Rows : Twins(r)' = Twins(r)
  BY DEF Twins, Kind
<1>4. \A w : Fillable(w)' = Fillable(w)
  BY <1>3 DEF Fillable, Missing, Excluded
<1>5. \A r \in Rows : Target(r)' = Target(r) /\ FirstPack(r)' = FirstPack(r)
  BY <1>0, <1>3 DEF Target
<1> QED BY <1>1, <1>2, <1>4, <1>5

LEMMA DocRowsAreRows ==
    ASSUME OwnTyped
    PROVE  GraphRows \subseteq Rows /\ DocRows \subseteq Rows /\ Rows = GraphRows \cup DocRows
BY LegacyRowIs DEF OwnTyped, GraphRows, DocRows, Kind

LEMMA MigWith ==
    ASSUME OwnTyped, NEW s
    PROVE  LET next == [mig EXCEPT !.at = s]
           IN /\ next.at = s /\ next.accept = mig.accept /\ next.left = mig.left /\ next.planned = mig.planned
              /\ next.lost = mig.lost /\ next.unfit = mig.unfit /\ DOMAIN next = DOMAIN Fresh
BY FreshIs DEF OwnTyped

LEMMA StartMigrationSafe ==
    ASSUME OwnInv, NEW accept \in BOOLEAN, StartMigration(accept)
    PROVE  OwnInv'
<1>1. /\ mig'.at = "default" /\ mig'.accept = accept /\ mig'.left = {} /\ mig'.planned = {} /\ mig'.lost = FALSE
      /\ mig'.unfit = FALSE /\ DOMAIN mig' = DOMAIN Fresh
  BY FreshIs DEF StartMigration
<1>2. migrations' \in 0 .. MaxMigrations
  <2>1. migrations \in 0 .. MaxMigrations /\ migrations < MaxMigrations /\ migrations' = migrations + 1
    BY DEF StartMigration, OwnInv, OwnTyped
  <2> QED BY <2>1, OwnFacts
<1>3. OwnTyped'
  BY <1>1, <1>2 DEF StartMigration, OwnInv, OwnTyped, MigStages, InsertStages
<1> QED BY <1>1, <1>3, OwnRest DEF StartMigration

LEMMA DieSafe ==
    ASSUME OwnInv, Die
    PROVE  OwnInv'
BY FreshIs, OwnRest DEF Die, OwnInv, OwnTyped, MigStages, InsertStages

LEMMA EnsureSafe ==
    ASSUME OwnInv, EnsureDefaultPack
    PROVE  OwnInv'
<1>0. OwnTyped /\ mig.at = "default"
  BY DEF OwnInv, EnsureDefaultPack
<1>1. CASE owner[DefaultPack] = "other"
  <2>1. mig' = [mig EXCEPT !.at = "exit 1"] /\ owner' = owner
    BY <1>1 DEF EnsureDefaultPack, Goes
  <2>2. OwnTyped'
    BY <1>0, <2>1, MigWith DEF EnsureDefaultPack, OwnTyped, MigStages, InsertStages
  <2> QED BY <2>1, <2>2, <1>0, MigWith, OwnRest DEF EnsureDefaultPack
<1>2. CASE owner[DefaultPack] # "other"
  <2>1. mig' = [mig EXCEPT !.at = "graph"] /\ owner' = [owner EXCEPT ![DefaultPack] = "local"]
    BY <1>2 DEF EnsureDefaultPack, Goes
  <2>2. mig'.at = "graph"
    BY <1>0, <2>1, MigWith
  <2>3. OwnTyped'
    BY <1>0, <2>1, MigWith DEF EnsureDefaultPack, OwnTyped, MigStages, InsertStages
  <2>4. RowsFollow' /\ AttributionIsStable'
    BY OwnSame DEF EnsureDefaultPack
  <2>5. owner'[DefaultPack] = "local"
    BY <2>1, OwnFacts DEF OwnInv, OwnTyped
  <2> QED BY <2>2, <2>3, <2>4, <2>5 DEF OwnInv, GraphIsTagged, PacksAreNamed, ChunksAreRight, FitSoFar, TaggedStages,
             NamedStages, DocStages, UpdateStages
<1> QED BY <1>1, <1>2

\* Somebody else registers a pack, or the run does: what the run had, it keeps.
LEMMA OwnersGrow ==
    ASSUME OwnInv, UNCHANGED <<ownRows, before, tags>>, OwnTyped', mig'.at = mig.at, mig'.accept = mig.accept,
           mig'.planned = mig.planned, mig'.unfit = mig.unfit,
           mig.at \in UpdateStages => mig'.left = mig.left,
           \A q \in OwnPacks : owner[q] # "nobody" => owner'[q] = owner[q],
           \A q \in OwnPacks : Coming(q) => Coming(q)' \/ HasOwner(q)'
    PROVE  OwnInv'
<1>1. \A q \in OwnPacks : Named(q) => Named(q)'
  BY OwnersStay DEF Named, OwnTyped
<1>2. /\ RowsFollow' /\ AttributionIsStable' /\ GraphRows' = GraphRows /\ DocRows' = DocRows
      /\ Kind("doc")' = Kind("doc") /\ Kind("source")' = Kind("source")
      /\ Fillable({"doc", "source"})' = Fillable({"doc", "source"})
      /\ \A r \in Rows : Target(r)' = Target(r) /\ FirstPack(r)' = FirstPack(r)
  BY OwnSame
<1>3. GraphIsTagged'
  BY <1>2, OwnFacts DEF OwnInv, GraphIsTagged
<1>4. DocRows \subseteq Rows /\ GraphRows \subseteq Rows
  BY DocRowsAreRows DEF OwnInv
<1>5. PacksAreNamed'
  <2>1. ASSUME mig.at \in NamedStages
        PROVE  (\A r \in GraphRows : Named(ownRows[r].pack)') /\ (\A p \in mig.planned : Named(p)')
    BY <2>1, <1>1 DEF OwnInv, GraphIsTagged, NamedStages, PacksAreNamed, OwnTyped
  <2>2. ASSUME mig.at \in DocStages, NEW r \in DocRows
        PROVE  /\ ownRows[r].pack \in OwnPacks => Named(ownRows[r].pack)'
               /\ r \in Fillable({"doc", "source"}) => Named(Target(r))'
    <3>1. mig.at \in TaggedStages
      BY <2>2 DEF DocStages, TaggedStages, MigStages
    <3>2. r \in Fillable({"doc", "source"}) => Target(r) \in OwnPacks
      BY <3>1, TargetIsFirst DEF Fillable, Missing
    <3>3. Target(r)' = Target(r)
      BY <1>2, <1>4
    <3>4. r \in Fillable({"doc", "source"}) => Named(Target(r))
      BY <2>2 DEF OwnInv, PacksAreNamed
    <3>5. r \in Fillable({"doc", "source"}) => Named(Target(r))'
      BY <3>2, <1>1, <3>4, <3>3 DEF Named, HasOwner, Coming
    <3> QED BY <1>1, <2>2, <3>5 DEF OwnInv, PacksAreNamed
  <2> QED BY <1>2, <2>1, <2>2 DEF PacksAreNamed
<1>6. ChunksAreRight'
  BY <1>1, <1>2, <1>4 DEF OwnInv, ChunksAreRight
<1>7. FitSoFar'
  BY <1>2, <1>4 DEF OwnInv, FitSoFar
<1> QED BY <1>2, <1>3, <1>5, <1>6, <1>7 DEF OwnInv

LEMMA InsertSafe ==
    ASSUME OwnInv, NEW p \in OwnPacks, InsertCandidate(p)
    PROVE  OwnInv'
BY FreshIs, OwnersGrow DEF OwnInv, InsertCandidate, InsertStages, Insert, OwnTyped, Coming,
   HasOwner, UpdateStages

LEMMA OtherRegistersSafe ==
    ASSUME OwnInv, NEW p \in OwnPacks, OtherRegisters(p)
    PROVE  OwnInv'
BY OwnersGrow DEF OtherRegisters, OwnInv, OwnTyped, Coming

-----------------------------------------------------------------------------
(* The two gates, and what follows when everybody is registered.            *)

LEMMA GatesSafe ==
    ASSUME OwnInv, GateGraphPacks \/ GateDocPacks
    PROVE  OwnInv'
<1>0. OwnTyped /\ UNCHANGED <<ownRows, before, owner, migrations, tags>>
  BY DEF OwnInv, GateGraphPacks, GateDocPacks
<1>1. PICK packs, planned, to :
        /\ Gate(packs, planned, to)
        /\ \/ /\ mig.at = "register graph" /\ packs = {ownRows[r].pack : r \in GraphRows}
              /\ planned = {DefaultPack} /\ to = "insert graph"
           \/ mig.at = "register docs" /\ packs = PacksOfDocs /\ planned = mig.planned /\ to = "insert docs"
  BY DEF GateGraphPacks, GateDocPacks
<1>2. planned \subseteq OwnPacks /\ \A q \in planned : HasOwner(q)
  <2>1. CASE mig.at = "register graph"
    BY <1>1, <2>1, OwnFacts DEF OwnInv, GraphIsTagged, TaggedStages, MigStages, HasOwner
  <2>2. CASE mig.at = "register docs"
    BY <1>0, <1>1, <2>2 DEF OwnInv, OwnTyped, PacksAreNamed, NamedStages, TaggedStages, MigStages, Named, Coming, InsertStages
  <2> QED BY <1>1, <2>1, <2>2
<1>3. packs \subseteq OwnPacks
  <2>1. mig.at \in TaggedStages
    BY <1>1 DEF TaggedStages, MigStages
  <2>2. CASE mig.at = "register graph"
    BY <1>1, <2>1, <2>2 DEF OwnInv, GraphIsTagged
  <2>3. CASE mig.at = "register docs"
    <3>1. DocRows \subseteq Rows
      BY DocRowsAreRows, <1>0
    <3>2. \A r \in DocRows : ownRows[r].pack \in OwnPacks \cup {NoPack, Malformed}
      BY <1>0, <3>1, LegacyRowIs DEF OwnTyped
    <3>3. \A r \in Fillable({"doc", "source"}) : r \in DocRows /\ ownRows[r].pack = NoPack
      BY DEF Fillable, Missing, DocRows, Kind
    <3>4. \A r \in Fillable({"doc", "source"}) : Target(r) \in OwnPacks
      BY <2>1, <3>3, TargetIsFirst
    <3>5. {ownRows[r].pack : r \in DocRows} \ {NoPack, Malformed} \subseteq OwnPacks
      BY ONLY <3>2
    <3>6. {Target(r) : r \in Fillable({"doc", "source"})} \subseteq OwnPacks
      BY ONLY <3>4
    <3>7. PacksOfDocs \subseteq OwnPacks
      BY ONLY <3>5, <3>6 DEF PacksOfDocs
    <3>8. packs = PacksOfDocs
      BY <1>1, <2>3
    <3> QED BY ONLY <3>7, <3>8
  <2> QED BY <1>1, <2>2, <2>3
<1>5. CASE (\E p \in packs : owner[p] = "other") /\ ~mig.accept
  <2>1. mig' = [mig EXCEPT !.at = "exit 1"]
    BY <1>1, <1>5 DEF Gate, Goes
  <2>2. OwnTyped'
    BY <1>0, <2>1, MigWith DEF OwnTyped, MigStages, InsertStages
  <2> QED BY <1>0, <2>1, <2>2, MigWith, OwnRest
<1>6. CASE ~((\E p \in packs : owner[p] = "other") /\ ~mig.accept)
  <2> DEFINE candidates == {p \in packs \ planned : owner[p] = "nobody"}
  <2>1. mig' = [mig EXCEPT !.at = to, !.left = candidates, !.planned = planned \cup candidates]
    BY <1>1, <1>6 DEF Gate
  <2>2. /\ mig'.at = to /\ mig'.left = candidates /\ mig'.planned = planned \cup candidates
        /\ mig'.accept = mig.accept /\ mig'.unfit = mig.unfit /\ mig'.lost = mig.lost /\ DOMAIN mig' = DOMAIN Fresh
    BY <1>0, <2>1, FreshIs DEF OwnTyped
  <2>3. to \in InsertStages /\ candidates \subseteq OwnPacks
    BY <1>1, <1>3 DEF InsertStages
  <2>4. OwnTyped'
    BY <1>0, <1>2, <2>2, <2>3 DEF OwnTyped, MigStages, InsertStages
  <2>5. \A q \in planned : HasOwner(q)'
    BY <1>0, <1>2, <2>2 DEF HasOwner
  <2>6. \A q \in packs : Named(q)'
    BY <2>5, <2>2, <2>3, <1>0, <1>6 DEF Named, Coming, HasOwner
  <2>7. \A q \in mig'.planned : Named(q)'
    BY <2>2, <2>3, <2>5 DEF Named, Coming
  <2>8. /\ RowsFollow' /\ AttributionIsStable' /\ GraphRows' = GraphRows /\ DocRows' = DocRows
        /\ Fillable({"doc", "source"})' = Fillable({"doc", "source"})
        /\ \A r \in Rows : Target(r)' = Target(r)
    BY <1>0, OwnSame
  <2>9. GraphIsTagged'
    BY <1>0, <1>1, <2>2, <2>8 DEF OwnInv, GraphIsTagged, TaggedStages, MigStages
  <2>10. PacksAreNamed'
    <3>1. \A r \in GraphRows : Named(ownRows[r].pack)'
      <4>1. CASE mig.at = "register graph"
        BY <1>1, <4>1, <1>0, <2>6 DEF Named, HasOwner, Coming
      <4>2. CASE mig.at = "register docs"
        BY <4>2, <1>0, <2>2 DEF OwnInv, PacksAreNamed, NamedStages, TaggedStages, MigStages, Named,
           Coming, InsertStages, HasOwner
      <4> QED BY <1>1, <4>1, <4>2
    <3>2. ASSUME mig'.at \in DocStages, NEW r \in DocRows
          PROVE  /\ ownRows[r].pack \in OwnPacks => Named(ownRows[r].pack)'
                 /\ r \in Fillable({"doc", "source"}) => Named(Target(r))'
      <4>1. packs = PacksOfDocs
        BY <1>1, <2>2, <3>2 DEF DocStages
      <4>2. ownRows[r].pack \in OwnPacks => ownRows[r].pack \in packs
        BY <4>1, <3>2, OwnFacts DEF PacksOfDocs
      <4>3. r \in Fillable({"doc", "source"}) => Target(r) \in packs
        BY <4>1 DEF PacksOfDocs
      <4>4. Target(r)' = Target(r)
        BY <1>0, <2>8, <3>2, DocRowsAreRows
      <4>5. r \in Fillable({"doc", "source"}) => Named(Target(r))'
        BY <4>3, <2>6, <4>4 DEF Named, HasOwner, Coming
      <4>6. ownRows[r].pack \in OwnPacks => Named(ownRows[r].pack)'
        BY <4>2, <1>0, <2>6 DEF Named, HasOwner, Coming
      <4> QED BY <4>5, <4>6
    <3> QED BY <1>0, <2>7, <2>8, <3>1, <3>2 DEF PacksAreNamed
  <2>11. ChunksAreRight' /\ FitSoFar'
    BY <1>1, <2>2 DEF ChunksAreRight, FitSoFar, UpdateStages
  <2> QED BY <2>4, <2>8, <2>9, <2>10, <2>11 DEF OwnInv
<1> QED BY <1>5, <1>6

\* The run goes on to its next stage, with everybody named as before.
LEMMA OwnGoesOn ==
    ASSUME OwnInv, UNCHANGED <<ownRows, before, owner, migrations, tags>>, OwnTyped',
           mig.at \in NamedStages, mig'.at \in NamedStages \ InsertStages,
           mig'.at \in DocStages => mig.at \in DocStages,
           mig'.accept = mig.accept, mig'.planned = mig.planned,
           \A p : Named(p) => HasOwner(p), ChunksAreRight', FitSoFar'
    PROVE  OwnInv'
BY OwnSame, DocRowsAreRows DEF Named, HasOwner, OwnInv, GraphIsTagged, NamedStages, PacksAreNamed,
   Coming

LEMMA RegisteredSafe ==
    ASSUME OwnInv, Registered
    PROVE  OwnInv'
<1>0. OwnTyped /\ UNCHANGED <<ownRows, before, owner, migrations, tags>> /\ mig.at \in InsertStages /\ mig.left = {}
  BY DEF OwnInv, Registered, InsertStages
<1>1. PICK to : mig' = [mig EXCEPT !.at = to] /\ to = IF mig.lost THEN "exit 1"
            ELSE IF mig.at = "insert graph" THEN "register docs" ELSE "select doc"
  BY DEF Registered, Goes
<1>2. /\ mig'.at = to /\ mig'.accept = mig.accept /\ mig'.planned = mig.planned /\ mig'.unfit = mig.unfit
      /\ mig'.lost = mig.lost /\ mig'.left = mig.left /\ DOMAIN mig' = DOMAIN Fresh
  BY <1>0, <1>1, MigWith
<1>3. OwnTyped'
  BY <1>0, <1>1, <1>2 DEF OwnTyped, MigStages, InsertStages
<1>9. mig.at = "insert graph" \/ mig.at = "insert docs"
  BY <1>0 DEF InsertStages
<1>4. CASE mig.lost
  BY <1>0, <1>1, <1>2, <1>3, <1>4, OwnRest
<1>5. CASE ~mig.lost
  <2>1. \A p : Named(p) => HasOwner(p)
    BY <1>0, <1>5 DEF Named, Coming
  <2>2. ChunksAreRight' /\ FitSoFar'
    <3>1. to \in {"register docs", "select doc"}
      BY <1>1, <1>5
    <3> QED BY <1>2, <3>1 DEF ChunksAreRight, FitSoFar, UpdateStages
  <2>3. /\ mig.at \in NamedStages /\ mig'.at \in NamedStages \ InsertStages
        /\ mig'.at \in DocStages => mig.at \in DocStages
    <3>1. CASE mig.at = "insert graph"
      <4>1. mig'.at = "register docs"
        BY <1>1, <1>2, <1>5, <3>1
      <4> QED BY <3>1, <4>1 DEF NamedStages, TaggedStages, MigStages, InsertStages, DocStages
    <3>2. CASE mig.at = "insert docs"
      <4>1. mig'.at = "select doc"
        BY <1>1, <1>2, <1>5, <3>2
      <4> QED BY <3>2, <4>1 DEF NamedStages, TaggedStages, MigStages, InsertStages, DocStages
    <3> QED BY <1>9, <3>1, <3>2
  <2> QED BY <1>0, <1>2, <1>3, <2>1, <2>2, <2>3, OwnGoesOn
<1> QED BY <1>4, <1>5

-----------------------------------------------------------------------------
(* Filling in the documents.                                                *)

SelectStages == {"select doc", "select source"}

LEMMA DocStagesAre ==
    ASSUME NEW s \in SelectStages \cup UpdateStages \cup {"exit 0", "exit 3"}
    PROVE  /\ s \in MigStages /\ s \in NamedStages \ InsertStages /\ s \in TaggedStages
           /\ s \notin InsertStages /\ (s # "exit 3" => s \in DocStages)
BY DEF SelectStages, UpdateStages, MigStages, NamedStages, TaggedStages, InsertStages, DocStages

LEMMA KindStages ==
    /\ SelectOf["doc"] = "select doc" /\ SelectOf["source"] = "select source"
    /\ UpdateOf["doc"] = "update doc" /\ UpdateOf["source"] = "update source"
BY DEF SelectOf, UpdateOf

LEMMA SelectSafe ==
    ASSUME OwnInv, NEW kind \in {"doc", "source"}, SelectDocs(kind)
    PROVE  OwnInv'
<1>0. OwnTyped /\ UNCHANGED <<ownRows, before, owner, migrations, tags>>
  BY DEF OwnInv, SelectDocs
<1>1. /\ mig.at \in SelectStages /\ UpdateOf[kind] \in UpdateStages
      /\ kind = "doc" => mig.at = "select doc" /\ UpdateOf[kind] = "update doc"
      /\ kind = "source" => mig.at = "select source" /\ UpdateOf[kind] = "update source"
  BY KindStages DEF SelectDocs, SelectStages, UpdateStages
<1> DEFINE unfit == mig.unfit \/ (\E r \in Kind(kind) : Excluded(r) \/ ownRows[r].pack = Malformed)
<1>2. mig' = [mig EXCEPT !.at = UpdateOf[kind], !.left = {<<Target(r), r>> : r \in Fillable({kind})}, !.unfit = unfit]
  BY DEF SelectDocs
<1>3. /\ mig'.at = UpdateOf[kind] /\ mig'.left = {<<Target(r), r>> : r \in Fillable({kind})}
      /\ mig'.unfit = unfit /\ mig'.accept = mig.accept /\ mig'.planned = mig.planned /\ mig'.lost = mig.lost
      /\ DOMAIN mig' = DOMAIN Fresh
  BY <1>0, <1>2, FreshIs DEF OwnTyped
<1>4. mig.at \in TaggedStages /\ mig.at \in DocStages /\ mig.at \in NamedStages /\ mig.at \notin InsertStages
  BY <1>1, DocStagesAre, SelectStages = {"select doc", "select source"} DEF SelectStages
<1>5. OwnTyped'
  BY <1>0, <1>1, <1>3, DocStagesAre DEF OwnTyped
<1>6. \A p : Named(p) => HasOwner(p)
  BY <1>4 DEF Named, Coming
<1>7. ChunksAreRight'
  <2>0. SUFFICES ASSUME NEW x \in mig'.left
        PROVE  x \in OwnPacks \X Rows /\ x[2] \in DocRows' /\ x[1] = FirstPack(x[2])' /\ Named(x[1])'
    BY DEF ChunksAreRight
  <2>1. PICK r \in Fillable({kind}) : x = <<Target(r), r>>
    BY <1>3
  <2>2. r \in DocRows /\ r \in Rows /\ ownRows[r].pack = NoPack /\ r \in Fillable({"doc", "source"})
    BY DEF Fillable, Missing, DocRows, Kind
  <2>3. Target(r) = FirstPack(r) /\ Target(r) \in OwnPacks
    BY <1>4, <2>2, TargetIsFirst
  <2>4. FirstPack(r)' = FirstPack(r) /\ DocRows' = DocRows /\ Target(r)' = Target(r)
    BY <1>0, <2>2, OwnSame
  <2>5. HasOwner(Target(r))
    BY <1>4, <1>6, <2>2 DEF OwnInv, PacksAreNamed
  <2>6. PICK q \in OwnPacks : q = Target(r)
    BY <2>3
  <2>7. HasOwner(q)'
    BY <1>0, <1>3, <2>5, <2>6 DEF HasOwner
  <2>8. x[1] = q /\ x[2] = r
    BY <2>1, <2>6
  <2>9. Named(x[1])'
    BY <2>7, <2>8, <2>1 DEF Named
  <2> QED BY <2>1, <2>2, <2>3, <2>4, <2>9
<1>8. FitSoFar'
  BY <1>0, OwnSame, <1>1, <1>3 DEF OwnInv, FitSoFar
<1>9. mig'.at \in NamedStages \ InsertStages /\ mig'.at \in DocStages
  BY <1>1, <1>3, DocStagesAre DEF UpdateStages
<1> QED BY <1>0, <1>3, <1>4, <1>5, <1>6, <1>7, <1>8, <1>9, OwnGoesOn

LEMMA FilledSafe ==
    ASSUME OwnInv, NEW kind \in {"doc", "source"}, Filled(kind)
    PROVE  OwnInv'
<1>0. OwnTyped /\ UNCHANGED <<ownRows, before, owner, migrations, tags>>
  BY DEF OwnInv, Filled
<1>1. PICK to : /\ mig' = [mig EXCEPT !.at = to]
                /\ to = IF kind = "doc" THEN "select source" ELSE IF mig.unfit THEN "exit 3" ELSE "exit 0"
  BY DEF Filled, Goes
<1>2. /\ mig.at \in UpdateStages
      /\ kind = "doc" => mig.at = "update doc"
      /\ kind = "source" => mig.at = "update source"
  BY KindStages DEF Filled, UpdateStages
<1>3. /\ mig'.at = to /\ mig'.accept = mig.accept /\ mig'.planned = mig.planned /\ mig'.unfit = mig.unfit
      /\ mig'.lost = mig.lost /\ mig'.left = mig.left /\ DOMAIN mig' = DOMAIN Fresh
  BY <1>0, <1>1, MigWith
<1>4. to \in SelectStages \cup UpdateStages \cup {"exit 0", "exit 3"} /\ to \notin UpdateStages
  BY <1>1 DEF SelectStages, UpdateStages
<1>5. mig.at \in DocStages /\ mig.at \in NamedStages /\ mig.at \notin InsertStages
  BY <1>2, DocStagesAre DEF UpdateStages
<1>6. OwnTyped'
  BY <1>0, <1>3, <1>4, DocStagesAre DEF OwnTyped
<1>7. \A p : Named(p) => HasOwner(p)
  BY <1>5 DEF Named, Coming
<1>8. ChunksAreRight'
  BY <1>3, <1>4 DEF ChunksAreRight
<1>9. FitSoFar'
  <2>1. \A w : Kind(w)' = Kind(w)
    BY <1>0, OwnSame
  <2>2. FitSoFar
    BY DEF OwnInv
  <2>3. CASE kind = "doc"
    <3>1. mig.at = "update doc" /\ mig'.at = "select source"
      BY <1>1, <1>2, <1>3, <2>3
    <3> QED BY <1>0, <1>3, <2>1, <2>2, <3>1 DEF FitSoFar
  <2>4. CASE kind = "source"
    <3>1. to # "select source" /\ to # "update doc" /\ to # "update source"
      BY <1>1, <2>4
    <3>3. to = "exit 0" => ~mig.unfit
      BY <1>1, <2>4
    <3>2. mig.unfit \/ ((\A r \in Kind("doc") : ownRows[r].pack # Malformed) /\ (\A r \in Kind("source") : ownRows[r].pack # Malformed))
      BY <1>2, <2>4, <2>2 DEF FitSoFar
    <3> QED BY <1>0, <1>3, <2>1, <3>1, <3>2, <3>3 DEF FitSoFar
  <2> QED BY <2>3, <2>4
<1>10. mig'.at \in NamedStages \ InsertStages
  BY <1>3, <1>4, DocStagesAre
<1> QED BY <1>0, <1>3, <1>5, <1>6, <1>7, <1>8, <1>9, <1>10, OwnGoesOn

\* Rows get their packs: the graph all at once, documents by the run and by
\* others, where no run has more to say of them.
GetsPack(r, p) == ownRows[r].pack = NoPack /\ ownRows'[r] = [ownRows[r] EXCEPT !.pack = p]

LEMMA GettingKeeps ==
    ASSUME OwnTyped, NEW r \in Rows, NEW p, GetsPack(r, p)
    PROVE  /\ ownRows'[r].pack = p /\ ownRows'[r].kind = ownRows[r].kind /\ ownRows'[r].id = ownRows[r].id
           /\ ownRows'[r].space = ownRows[r].space /\ ownRows'[r].hint = ownRows[r].hint
           /\ ownRows'[r].sound = ownRows[r].sound
           /\ p \in OwnPacks => ownRows'[r] \in LegacyRow
BY DEF OwnTyped, GetsPack, LegacyRow

\* One step gives packs to rows that have none.
Filling ==
    /\ before' = before /\ ownRows' \in [Rows -> LegacyRow]
    /\ \A r \in Rows : \/ ownRows'[r] = ownRows[r]
                       \/ \E p \in OwnPacks : GetsPack(r, p) /\ (r \in GraphRows => p = Resolved(ownRows[r], DefaultPack))

LEMMA FillingKeeps ==
    ASSUME OwnInv, Filling
    PROVE  RowsFollow'
BY GettingKeeps DEF OwnInv, Filling, GetsPack, GraphRows, Kind, RowsFollow, Resolved

LEMMA BackfillGraphSafe ==
    ASSUME OwnInv, BackfillGraph
    PROVE  OwnInv'
<1>0. OwnTyped /\ mig.at = "graph" /\ UNCHANGED <<before, owner, migrations, tags>>
  BY DEF OwnInv, BackfillGraph
<1>1. CASE Unreadable
  <2>1. mig' = [mig EXCEPT !.at = "exit 1"] /\ ownRows' = ownRows
    BY <1>1 DEF BackfillGraph, Goes
  <2>2. OwnTyped'
    BY <1>0, <2>1, MigWith DEF OwnTyped, MigStages, InsertStages
  <2> QED BY <1>0, <2>1, <2>2, MigWith, OwnRest
<1>2. CASE ~Unreadable
  <2>1. /\ mig' = [mig EXCEPT !.at = "register graph"]
        /\ ownRows' = [r \in Rows |-> IF r \in GraphRows
                                      THEN [ownRows[r] EXCEPT !.pack = Resolved(ownRows[r], DefaultPack)]
                                      ELSE ownRows[r]]
    BY <1>2 DEF BackfillGraph, Goes
  <2>2. /\ mig'.at = "register graph" /\ mig'.accept = mig.accept /\ mig'.planned = mig.planned
        /\ mig'.unfit = mig.unfit /\ mig'.lost = mig.lost /\ DOMAIN mig' = DOMAIN Fresh
    BY <1>0, <2>1, MigWith
  <2>3. ASSUME NEW r \in GraphRows
        PROVE  /\ ownRows'[r] \in LegacyRow /\ ownRows'[r].pack \in OwnPacks
               /\ \/ ownRows'[r] = ownRows[r]
                  \/ \E p \in OwnPacks : GetsPack(r, p) /\ p = Resolved(ownRows[r], DefaultPack)
    <3>1. r \in Rows /\ ownRows[r] \in LegacyRow /\ ownRows[r].pack \in OwnPacks \cup {NoPack}
      BY <1>0, <1>2, DocRowsAreRows, LegacyRowIs DEF OwnTyped, Unreadable
    <3>2. ownRows'[r] = [ownRows[r] EXCEPT !.pack = Resolved(ownRows[r], DefaultPack)]
      BY <2>1, <3>1
    <3>3. CASE ownRows[r].pack = NoPack
      BY <3>1, <3>3, LegacyRowIs, OwnFacts, <3>2, <1>0, GettingKeeps DEF Resolved, GetsPack
    <3>4. CASE ownRows[r].pack # NoPack
      BY <3>2, <3>4, <3>1 DEF Resolved, LegacyRow
    <3> QED BY <3>3, <3>4
  <2>4. \A r \in Rows \ GraphRows : ownRows'[r] = ownRows[r]
    BY <2>1
  <2>5. ownRows' \in [Rows -> LegacyRow]
    BY <1>0, <2>3, <2>4, <2>1 DEF OwnTyped
  <2>6. Filling
    BY <1>0, <2>3, <2>4, <2>5 DEF Filling
  <2>7. RowsFollow'
    BY <2>6, FillingKeeps
  <2>8. /\ GraphRows' = GraphRows
        /\ \A r \in Rows : Twins(r)' = Twins(r)
    BY <1>0, <2>7, KindsStay DEF OwnInv
  <2>9. OwnTyped'
    BY <1>0, <2>2, <2>5 DEF OwnTyped, MigStages, InsertStages
  <2>10. GraphIsTagged'
    BY <1>0, <2>2, <2>3, <2>8 DEF OwnInv, GraphIsTagged
  <2>11. PacksAreNamed' /\ ChunksAreRight' /\ FitSoFar'
    BY <2>2 DEF PacksAreNamed, ChunksAreRight, FitSoFar, NamedStages, DocStages, UpdateStages
  <2>12. AttributionIsStable'
    <3> SUFFICES ASSUME tags = 0, NEW r \in Rows PROVE ownRows'[r].pack \in {before[r].pack, FirstPack(r)'}
      BY <1>0 DEF AttributionIsStable
    <3>1. FirstPack(r)' = FirstPack(r)
      BY <1>0 DEF FirstTwins, FirstPack
    <3>2. CASE r \in GraphRows
      BY <3>2, <1>0, <2>7, <2>8, <3>1 DEF OwnInv, RowsFollow, GraphRows, Kind, FirstPack, FirstTwins
    <3>3. CASE r \notin GraphRows
      BY <1>0, <2>4, <3>1, <3>3 DEF OwnInv, AttributionIsStable
    <3> QED BY <3>2, <3>3
  <2> QED BY <2>7, <2>9, <2>10, <2>11, <2>12 DEF OwnInv
<1> QED BY <1>1, <1>2

\* Documents get packs that have an owner.
LEMMA DocsFilled ==
    ASSUME OwnInv, Filling, OwnTyped', owner' = owner, tags' \in {tags, tags + 1},
           mig'.at = mig.at, mig'.accept = mig.accept, mig'.planned = mig.planned, mig'.unfit = mig.unfit,
           mig'.lost = mig.lost, mig.at \in InsertStages => mig'.left = mig.left,
           mig.at \in UpdateStages => mig'.left \subseteq mig.left,
           \A r \in Rows : ownRows'[r] # ownRows[r] => r \in DocRows /\ HasOwner(ownRows[r].pack)',
           AttributionIsStable'
    PROVE  OwnInv'
<1>0. OwnTyped /\ before' = before /\ RowsFollow' /\ RowsFollow
  BY FillingKeeps DEF OwnInv, Filling
<1>1. /\ GraphRows' = GraphRows /\ DocRows' = DocRows /\ \A w : Kind(w)' = Kind(w)
      /\ \A r \in Rows : Twins(r)' = Twins(r)
  BY <1>0, KindsStay
<1>2. GraphRows \subseteq Rows /\ DocRows \subseteq Rows /\ GraphRows \cap DocRows = {}
  BY <1>0, DocRowsAreRows DEF GraphRows, DocRows, Kind
<1>3. \A r \in GraphRows : ownRows'[r] = ownRows[r]
  BY <1>2
<1>4. ASSUME NEW q \in OwnPacks, Named(q)
      PROVE  Named(q)'
  BY <1>0, OwnFacts, <1>4 DEF OwnTyped, HasOwner, Coming, Named
<1>5. ASSUME NEW r \in Rows, ownRows'[r] # ownRows[r]
      PROVE  ownRows[r].pack = NoPack /\ ownRows'[r].pack \in OwnPacks
  BY <1>0, <1>5, GettingKeeps DEF Filling, GetsPack
<1>6. GraphIsTagged'
  BY <1>1, <1>3 DEF OwnInv, GraphIsTagged
<1>7. PacksAreNamed'
  <2>1. ASSUME mig.at \in NamedStages
        PROVE  (\A r \in GraphRows : Named(ownRows[r].pack)') /\ (\A p \in mig.planned : Named(p)')
    BY <2>1, <1>4, <1>3, <1>0 DEF OwnInv, GraphIsTagged, NamedStages, PacksAreNamed, Named,
       HasOwner, Coming, OwnTyped
  <2>2. ASSUME mig.at \in DocStages, NEW r \in DocRows, ownRows'[r].pack \in OwnPacks
        PROVE  Named(ownRows[r].pack)'
    BY <2>2, <1>4, <1>2 DEF OwnInv, PacksAreNamed, Named, HasOwner, Coming
  <2>3. ASSUME mig.at \in DocStages, NEW r \in DocRows, r \in Fillable({"doc", "source"})'
        PROVE  Named(Target(r))'
    <3>1. r \in Rows /\ ownRows'[r].pack = NoPack
      BY <1>2, <2>3 DEF Fillable, Missing
    <3>2. ownRows'[r] = ownRows[r]
      BY <1>5, <3>1, OwnFacts
    <3>3. r \in Fillable({"doc", "source"})
      BY <1>1, <2>3, <3>1, <3>2 DEF Fillable, Missing, Excluded
    <3>4. Target(r)' = Target(r)
      BY <1>1, <3>1, <3>2, TwinsAreRows, <1>3 DEF Target, AnyOf
    <3>5. mig.at \in TaggedStages
      BY <2>3 DEF DocStages, TaggedStages, MigStages
    <3>6. PICK q \in OwnPacks : q = Target(r)
      BY <3>1, <3>2, <3>5, TargetIsFirst
    <3>7. Named(q)'
      BY <1>4, <2>3, <3>3, <3>6 DEF OwnInv, PacksAreNamed
    <3> QED BY <3>4, <3>6, <3>7 DEF Named, HasOwner, Coming
  <2> QED BY <1>1, <2>1, <2>2, <2>3 DEF PacksAreNamed
<1>8. ChunksAreRight'
  <2> SUFFICES ASSUME mig.at \in UpdateStages, NEW x \in mig'.left
               PROVE  x \in OwnPacks \X Rows /\ x[2] \in DocRows' /\ x[1] = FirstPack(x[2])' /\ Named(x[1])'
    BY DEF ChunksAreRight
  <2>1. x \in OwnPacks \X Rows /\ x[2] \in DocRows /\ x[1] = FirstPack(x[2]) /\ Named(x[1])
    BY DEF OwnInv, ChunksAreRight
  <2>2. FirstPack(x[2])' = FirstPack(x[2])
    BY <1>0 DEF FirstTwins, FirstPack
  <2>3. PICK q \in OwnPacks : q = x[1]
    BY <2>1
  <2>4. Named(q)'
    BY <1>4, <2>1, <2>3
  <2> QED BY <1>1, <2>1, <2>2, <2>3, <2>4
<1>9. FitSoFar'
  BY <1>5, OwnFacts, <1>1 DEF Kind, OwnInv, FitSoFar
<1> QED BY <1>0, <1>6, <1>7, <1>8, <1>9 DEF OwnInv

LEMMA UpdateDocsSafe ==
    ASSUME OwnInv, NEW kind \in {"doc", "source"}, NEW p \in OwnPacks, UpdateDocs(kind, p)
    PROVE  OwnInv'
<1> DEFINE chunk == {r \in Rows : <<p, r>> \in mig.left}
<1>0. OwnTyped /\ UNCHANGED <<before, owner, migrations, tags>> /\ chunk # {}
  BY DEF OwnInv, UpdateDocs
<1>1. mig.at \in UpdateStages
  BY KindStages DEF UpdateDocs, UpdateStages
<1>2. mig.at \notin InsertStages
  BY <1>1 DEF UpdateStages, InsertStages
<1>3. CASE chunk \subseteq Missing
  <2>1. /\ ownRows' = [r \in Rows |-> IF r \in chunk /\ ownRows[r].sound
                                      THEN [ownRows[r] EXCEPT !.pack = p] ELSE ownRows[r]]
        /\ mig' = [mig EXCEPT !.left = @ \ ({p} \X chunk)]
    BY <1>3 DEF UpdateDocs
  <2>2. /\ mig'.at = mig.at /\ mig'.accept = mig.accept /\ mig'.planned = mig.planned /\ mig'.unfit = mig.unfit
        /\ mig'.lost = mig.lost /\ mig'.left \subseteq mig.left /\ DOMAIN mig' = DOMAIN Fresh
    BY <1>0, <2>1, FreshIs DEF OwnTyped
  <2>3. ASSUME NEW r \in Rows
        PROVE  \/ ownRows'[r] = ownRows[r]
               \/ r \in chunk /\ GetsPack(r, p) /\ r \in DocRows /\ p = FirstPack(r) /\ HasOwner(p)
    <3>1. CASE ~(r \in chunk /\ ownRows[r].sound)
      BY <2>1, <3>1
    <3>2. CASE r \in chunk /\ ownRows[r].sound
      BY <1>3, <2>1, <3>2, <1>1, <1>2 DEF Missing, OwnInv, ChunksAreRight, GetsPack, Named, Coming
    <3> QED BY <3>1, <3>2
  <2>4. \A r \in DocRows : r \notin GraphRows
    BY DEF DocRows, GraphRows, Kind
  <2>5. ownRows' \in [Rows -> LegacyRow]
    BY <1>0, <2>3, GettingKeeps, <2>1 DEF OwnTyped
  <2>6. Filling
    BY <1>0, <2>3, <2>4, <2>5 DEF Filling
  <2>7. OwnTyped'
    BY <1>0, <1>2, <2>2, <2>5 DEF OwnTyped
  <2>8. ASSUME NEW r \in Rows, ownRows'[r] # ownRows[r] PROVE r \in DocRows /\ HasOwner(ownRows[r].pack)'
    <3>1. GetsPack(r, p) /\ r \in DocRows /\ HasOwner(p)
      BY <2>3, <2>8
    <3>2. ownRows'[r].pack = p
      BY <1>0, <3>1, GettingKeeps
    <3> QED BY <1>0, <2>2, <3>1, <3>2 DEF HasOwner
  <2>9. AttributionIsStable'
    <3> SUFFICES ASSUME tags = 0, NEW r \in Rows PROVE ownRows'[r].pack \in {before[r].pack, FirstPack(r)'}
      BY <1>0 DEF AttributionIsStable
    <3>1. FirstPack(r)' = FirstPack(r)
      BY <1>0 DEF FirstTwins, FirstPack
    <3>2. CASE ownRows'[r] = ownRows[r]
      BY <1>0, <3>1, <3>2 DEF OwnInv, AttributionIsStable
    <3>3. CASE ownRows'[r] # ownRows[r]
      BY <2>3, <3>3, <1>0, GettingKeeps, <3>1
    <3> QED BY <3>2, <3>3
  <2> QED BY <1>0, <1>2, <2>2, <2>6, <2>7, <2>8, <2>9, DocsFilled
<1>4. CASE ~(chunk \subseteq Missing)
  <2>1. mig' = [mig EXCEPT !.at = "exit 1"] /\ ownRows' = ownRows
    BY <1>4 DEF UpdateDocs, Goes
  <2>2. OwnTyped'
    BY <1>0, <2>1, MigWith DEF OwnTyped, MigStages, InsertStages
  <2> QED BY <1>0, <2>1, <2>2, MigWith, OwnRest
<1> QED BY <1>3, <1>4

LEMMA OtherTagsSafe ==
    ASSUME OwnInv, NEW r \in Rows, NEW p \in OwnPacks, OtherTags(r, p)
    PROVE  OwnInv'
<1>0. OwnTyped /\ UNCHANGED <<before, owner, mig, migrations>> /\ tags' = tags + 1 /\ tags < MaxTags
  BY DEF OwnInv, OtherTags
<1>1. r \in DocRows /\ ownRows[r].pack = NoPack /\ owner[p] # "nobody" /\ ownRows' = [ownRows EXCEPT ![r].pack = p]
  BY DEF OtherTags, Missing
<1>2. tags \in Nat /\ tags' \in 0 .. MaxTags /\ tags' > 0
  BY <1>0, OwnFacts DEF OwnTyped
<1>3. \A x \in Rows : x # r => ownRows'[x] = ownRows[x]
  BY <1>0, <1>1 DEF OwnTyped
<1>4. GetsPack(r, p)
  BY <1>0, <1>1 DEF OwnTyped, GetsPack
<1>5. ownRows'[r].pack = p /\ ownRows'[r] \in LegacyRow
  BY <1>0, <1>4, GettingKeeps
<1>6. ownRows' \in [Rows -> LegacyRow]
  BY <1>0, <1>1, <1>3, <1>5 DEF OwnTyped
<1>7. r \notin GraphRows
  BY <1>1 DEF DocRows, GraphRows, Kind
<1>8. Filling
  BY <1>0, <1>3, <1>4, <1>6, <1>7 DEF Filling
<1>9. OwnTyped'
  BY <1>0, <1>2, <1>6 DEF OwnTyped
<1>10. AttributionIsStable'
  BY <1>2 DEF AttributionIsStable
<1>11. \A x \in Rows : ownRows'[x] # ownRows[x] => x \in DocRows /\ HasOwner(ownRows[x].pack)'
  BY <1>0, <1>1, <1>2, <1>3, <1>5 DEF HasOwner
<1> QED BY <1>0, <1>8, <1>9, <1>10, <1>11, DocsFilled

-----------------------------------------------------------------------------
LEMMA OwnStutters ==
    ASSUME OwnInv, UNCHANGED ownershipVars
    PROVE  OwnInv'
BY OwnersGrow DEF ownershipVars, OwnInv, OwnTyped, Coming

LEMMA OwnStepInv ==
    ASSUME OwnInv, [OwnershipNext]_ownershipVars
    PROVE  OwnInv'
<1>1. ASSUME NEW kind \in {"doc", "source"}, SelectDocs(kind) \/ Filled(kind) \/ \E p \in OwnPacks : UpdateDocs(kind, p)
      PROVE  OwnInv'
  BY <1>1, SelectSafe, FilledSafe, UpdateDocsSafe
<1> QED BY <1>1, StartMigrationSafe, EnsureSafe, BackfillGraphSafe, GatesSafe, InsertSafe, OtherRegistersSafe,
           OtherTagsSafe, RegisteredSafe, DieSafe, OwnStutters DEF OwnershipNext

LEMMA OwnInvHolds == OwnershipSpec => []OwnInv
<1>1. OwnInv /\ [OwnershipNext]_ownershipVars => OwnInv'
  BY OwnStepInv
<1> QED BY <1>1, OwnInitInv, PTL DEF OwnershipSpec

\* Rows, the registry and the run of the script keep their types
\* (scripts/migrate_pack_ownership.py, main).
THEOREM OwnershipTypeCorrect == OwnershipSpec => []OwnershipTypeOK
<1>1. OwnInv => OwnershipTypeOK
  BY DEF OwnInv, OwnTyped, OwnershipTypeOK
<1> QED BY <1>1, OwnInvHolds, PTL

\* A migration that exits 0 leaves no pack without an owner and none of another
\* owner unnoticed, and however many runs failed before, a row without a pack
\* gets the one that a single undisturbed run would give it.
THEOREM OwnershipConverges == OwnershipSpec => [](ExitZeroMeansOwned /\ AttributionIsStable)
<1>1. OwnInv => ExitZeroMeansOwned
  <2> SUFFICES ASSUME OwnInv, mig.at = "exit 0", NEW r \in Rows, ownRows[r].pack # NoPack
               PROVE  /\ ownRows[r].pack \in OwnPacks /\ owner[ownRows[r].pack] # "nobody"
                      /\ owner[ownRows[r].pack] = "other" => mig.accept \/ tags > 0
    BY DEF ExitZeroMeansOwned
  <2>0. "exit 0" \in NamedStages /\ "exit 0" \in DocStages /\ "exit 0" \notin InsertStages /\ "exit 0" \in TaggedStages
    BY DocStagesAre
  <2>1. Named(ownRows[r].pack) /\ ownRows[r].pack \in OwnPacks
    <3>1. CASE r \in GraphRows
      BY <2>0, <3>1 DEF OwnInv, GraphIsTagged, PacksAreNamed
    <3>2. CASE r \in DocRows
      BY <3>2, LegacyRowIs, <2>0 DEF OwnInv, FitSoFar, DocRows, OwnTyped, PacksAreNamed
    <3> QED BY <3>1, <3>2, DocRowsAreRows DEF OwnInv
  <2> QED BY <2>0, <2>1 DEF Named, HasOwner, Coming
<1>2. OwnInv => AttributionIsStable
  BY DEF OwnInv
<1> QED BY <1>1, <1>2, OwnInvHolds, PTL


-----------------------------------------------------------------------------
(***************************************************************************)
(* SpaceBackfill: whatever stopped earlier runs, the first that ends clean *)
(* leaves every record where one undisturbed run would have put it.        *)
(***************************************************************************)
AllRecs == {"doc", "vector"} \X RecIds
RecOf(w, rec) == IF rec[1] = "doc" THEN w.docs[rec[2]] ELSE w.vectors[rec[2]]
PairTables == [RecIds -> [pack : GrPacks \cup {Nothing}, space : GrSpaces \cup {Nothing}] \cup {Nothing}]

\* What the first scan of an undisturbed run would decide.
FirstPairs == Pairs(first.docs, first.graph)
FirstDecision(rec) == Decision(first, first.graph, FirstPairs, rec)
\* What a scan would decide now.
NowDecision(rec) == Decision(world, world.graph, Pairs(world.docs, world.graph), rec)

\* The scan has read the documents; what it has read by now.
HasRead == job.at = "write" \/ (job.at = "scan" /\ job.docs # Nothing)
Scope == {rec \in Stored(first) : job.at = "write" \/ rec[1] = "doc"}
ToDo == IF job.at = "write" THEN job.left ELSE job.plan
DoneRecs == {p[1] : p \in job.done}

WorldTyped ==
    /\ first \in World /\ world \in World /\ world.graph = first.graph
    /\ Stored(world) = Stored(first)
    /\ \A rec \in Stored(first) : RecOf(world, rec).sound = RecOf(first, rec).sound
    /\ scans \in Nat /\ others \in Nat

JobTyped ==
    /\ job.at \in {"idle", "scan", "write", "clean", "mismatch"}
    /\ DOMAIN job = {"at", "graph", "docs", "plan", "left", "done", "held", "count", "skipped", "limited"}
    /\ job.limited \in BOOLEAN
    /\ job.at \in {"scan", "write"} => job.graph = first.graph
    /\ job.at = "scan" => job.done = {}
    /\ HasRead => job.docs \in PairTables

Functional(pairs) == \A p, q \in pairs : p[1] = q[1] => p = q

\* Each record that was read is held under one class, and is planned only if it
\* may be written.
PlanFits ==
    HasRead =>
        /\ \A h \in job.held : h = <<h[1], h[2]>> /\ h[1] \in Scope
        /\ \A rec \in Scope : \E h \in job.held : h[1] = rec
        /\ Functional(job.held) /\ Functional(job.plan)
        /\ \A h \in job.held :
              /\ h[2] = "skip_valid" => RecOf(world, h[1]).sound /\ SpaceOf(world, h[1]) # Nothing
              /\ h[2] = "apply" => RecOf(world, h[1]).sound
        /\ \A p \in job.plan : p = <<p[1], p[2]>> /\ <<p[1], "apply">> \in job.held /\ p[2] \in GrSpaces
        /\ job.at = "write" => job.left \subseteq job.plan /\ job.done \subseteq job.plan

BackInv == WorldTyped /\ JobTyped /\ PlanFits

\* Undisturbed, a record is as it was first or has the space it is to get.
Filled1(rec) == [RecOf(first, rec) EXCEPT !.space = FirstDecision(rec).space]
RecordIs(rec) ==
    \/ RecOf(world, rec) = RecOf(first, rec)
    \/ FirstDecision(rec).class = "apply" /\ RecOf(world, rec) = Filled1(rec)

Undisturbed ==
    others = 0 =>
        /\ \A rec \in Stored(first) : RecordIs(rec)
        /\ HasRead =>
              /\ job.docs = FirstPairs
              /\ job.held = {<<rec, IF rec \in DoneRecs THEN "apply" ELSE NowDecision(rec).class>> : rec \in Scope}
              /\ job.count = Cardinality(Scope)
              /\ \A p \in ToDo : FirstDecision(p[1]) = Apply(p[2]) /\ SpaceOf(world, p[1]) = Nothing
              /\ ~job.limited => \A rec \in Scope :
                    FirstDecision(rec).class = "apply" /\ SpaceOf(world, rec) = Nothing =>
                        <<rec, FirstDecision(rec).space>> \in ToDo
              /\ \A p \in job.done : FirstDecision(p[1]) = Apply(p[2]) /\ SpaceOf(world, p[1]) = p[2]
        /\ job.at = "clean" /\ ~job.limited => \A rec \in Stored(first) :
              FirstDecision(rec).class = "apply" => SpaceOf(world, rec) # Nothing
        /\ job.at # "mismatch"

-----------------------------------------------------------------------------
(* Worlds and decisions.                                                    *)

LEMMA BackFacts ==
    /\ Nothing \notin GrSpaces /\ Nothing \notin GrPacks /\ Nothing \notin GraphEntry
    /\ Nothing \notin DocRecord /\ Nothing \notin VecRecord
    /\ Evidence \in GrSpaces /\ IsFiniteSet(RecIds) /\ Worlds \subseteq World
    /\ MaxScans \in Nat /\ MaxOthers \in Nat
BY BackfillAssumption

LEMMA WorldHas ==
    ASSUME NEW w \in World
    PROVE  /\ DOMAIN w = {"graph", "docs", "vectors"}
           /\ w.graph \in [RecIds -> GraphEntry \cup {Nothing}]
           /\ w.docs \in [RecIds -> DocRecord \cup {Nothing}]
           /\ w.vectors \in [RecIds -> VecRecord \cup {Nothing}]
BY DEF World

LEMMA RecsAre ==
    ASSUME NEW w \in World, NEW rec \in Stored(w)
    PROVE  /\ rec \in AllRecs /\ rec = <<rec[1], rec[2]>> /\ rec[2] \in RecIds /\ rec[1] \in {"doc", "vector"}
           /\ SpaceOf(w, rec) = RecOf(w, rec).space /\ RecOf(w, rec) # Nothing
           /\ rec[1] = "doc" => RecOf(w, rec) = w.docs[rec[2]] /\ w.docs[rec[2]] \in DocRecord
           /\ rec[1] # "doc" => RecOf(w, rec) = w.vectors[rec[2]] /\ w.vectors[rec[2]] \in VecRecord
           /\ RecOf(w, rec).sound \in BOOLEAN /\ RecOf(w, rec).space \in GrSpaces \cup {Nothing}
BY WorldHas DEF Stored, AllRecs, SpaceOf, RecOf, DocRecord, VecRecord

LEMMA StoredIs ==
    ASSUME NEW w, NEW rec \in AllRecs
    PROVE  rec \in Stored(w) <=> RecOf(w, rec) # Nothing
BY DEF AllRecs, Stored, RecOf

LEMMA StoredIsFinite ==
    ASSUME NEW w
    PROVE  IsFiniteSet(Stored(w)) /\ Stored(w) \subseteq AllRecs
<1>1. Stored(w) \subseteq AllRecs
  BY DEF Stored, AllRecs
<1>2. IsFiniteSet({"doc", "vector"})
  <2>1. IsFiniteSet({"doc"})
    BY FS_Singleton
  <2>2. IsFiniteSet({"doc"} \cup {"vector"})
    BY <2>1, FS_AddElement
  <2>3. {"doc"} \cup {"vector"} = {"doc", "vector"}
    OBVIOUS
  <2> QED BY <2>2, <2>3
<1>3. IsFiniteSet(AllRecs)
  BY <1>2, BackFacts, FS_Product DEF AllRecs
<1> QED BY <1>1, <1>3, FS_Subset

\* Sets whose members are told apart by what they are about.
LEMMA PairsCount ==
    ASSUME NEW R, IsFiniteSet(R), NEW H, \A h \in H : h[1] \in R, \A r \in R : \E h \in H : h[1] = r, Functional(H)
    PROVE  IsFiniteSet(H) /\ Cardinality(H) = Cardinality(R)
<1> DEFINE f == [r \in R |-> CHOOSE h \in H : h[1] = r]
<1>1. \A r \in R : f[r] \in H /\ f[r][1] = r
  OBVIOUS
<1>2. f \in [R -> H]
  BY <1>1
<1>3. \A h \in H : f[h[1]] = h
  BY <1>1 DEF Functional
<1>4. f \in Surjection(R, H)
  BY <1>2, <1>3 DEF Surjection
<1>5. f \in Injection(R, H)
  BY <1>1, <1>2 DEF Injection, IsInjective
<1> QED BY <1>4, <1>5, FS_Surjection

LEMMA MappedIs ==
    ASSUME NEW g \in GraphEntry, NEW pack
    PROVE  LET d == MappedDecision(g, pack) IN
           /\ d.class # "skip_valid" /\ d.space \in GrSpaces \cup {Nothing}
           /\ d.class = "apply" => d.space \in GrSpaces /\ d = Apply(d.space)
           /\ d.class # "apply" => d.space = Nothing
BY DEF GraphEntry, MappedDecision, Held, Apply

LEMMA DocDecisionIs ==
    ASSUME NEW r \in DocRecord, NEW g \in GraphEntry \cup {Nothing}
    PROVE  LET d == DecideDoc(r, g) IN
           /\ d.space \in GrSpaces \cup {Nothing}
           /\ d.class = "apply" => r.sound /\ r.space = Nothing /\ d.space \in GrSpaces /\ d = Apply(d.space)
           /\ d.class = "skip_valid" => r.sound /\ r.space # Nothing /\ d.space = r.space
           /\ r.sound /\ r.space # Nothing => d.class = "skip_valid"
BY MappedIs, BackFacts DEF DocRecord, DecideDoc, OwnDecision, Held, Apply

LEMMA VecDecisionIs ==
    ASSUME NEW r \in VecRecord, NEW g \in GraphEntry \cup {Nothing},
           NEW pair \in [pack : GrPacks \cup {Nothing}, space : GrSpaces \cup {Nothing}] \cup {Nothing}
    PROVE  LET d == DecideVec(r, g, pair) IN
           /\ d.class = "apply" => r.sound /\ r.space = Nothing /\ d.space \in GrSpaces /\ d = Apply(d.space)
           /\ d.class = "skip_valid" => r.sound /\ r.space # Nothing /\ d.space = r.space
           /\ r.sound /\ r.space # Nothing => d.class = "skip_valid"
BY MappedIs, BackFacts DEF VecRecord, DecideVec, OwnDecision, Held, PairDecision, Apply

\* The three things a decision says, of documents and vectors alike.
DecisionFits(r, d) ==
    /\ d.class = "apply" => r.sound /\ r.space = Nothing /\ d.space \in GrSpaces /\ d = Apply(d.space)
    /\ d.class = "skip_valid" => r.sound /\ r.space # Nothing /\ d.space = r.space
    /\ r.sound /\ r.space # Nothing => d.class = "skip_valid"

LEMMA PairsAre ==
    ASSUME NEW docs \in [RecIds -> DocRecord \cup {Nothing}], NEW graph \in [RecIds -> GraphEntry \cup {Nothing}]
    PROVE  Pairs(docs, graph) \in PairTables
BY DocDecisionIs DEF Pairs, PairTables, Gives, DocRecord

LEMMA DecisionIs ==
    ASSUME NEW w \in World, NEW graph \in [RecIds -> GraphEntry \cup {Nothing}], NEW pairs \in PairTables,
           NEW rec \in Stored(w)
    PROVE  DecisionFits(RecOf(w, rec), Decision(w, graph, pairs, rec))
<1>1. rec[2] \in RecIds
  BY RecsAre
<1>2. CASE rec[1] = "doc"
  BY <1>1, <1>2, RecsAre, DocDecisionIs DEF Decision, DecisionFits
<1>3. CASE rec[1] # "doc"
  <2>1. w.vectors[rec[2]] \in VecRecord /\ RecOf(w, rec) = w.vectors[rec[2]] /\ graph[rec[2]] \in GraphEntry \cup {Nothing}
    BY <1>1, <1>3, RecsAre
  <2>2. Decision(w, graph, pairs, rec) = DecideVec(w.vectors[rec[2]], graph[rec[2]], pairs[rec[2]])
    BY <1>3 DEF Decision
  <2>3. pairs[rec[2]] \in [pack : GrPacks \cup {Nothing}, space : GrSpaces \cup {Nothing}] \cup {Nothing}
    BY <1>1 DEF PairTables
  <2> QED BY <2>1, <2>2, <2>3, VecDecisionIs DEF DecisionFits
<1> QED BY <1>2, <1>3

LEMMA FirstDecisionIs ==
    ASSUME WorldTyped, NEW rec \in Stored(first)
    PROVE  DecisionFits(RecOf(first, rec), FirstDecision(rec)) /\ FirstPairs \in PairTables
BY WorldHas, PairsAre, DecisionIs DEF FirstDecision, FirstPairs, WorldTyped


\* What a write may do to the stores: a stored record gets a space or a pack.
Rewritten(w, v) ==
    /\ v \in World /\ v.graph = w.graph
    /\ \A rec \in AllRecs :
          /\ rec \in Stored(v) <=> rec \in Stored(w)
          /\ rec \in Stored(w) => /\ RecOf(v, rec).sound = RecOf(w, rec).sound
                                  /\ RecOf(w, rec).space # Nothing => RecOf(v, rec).space # Nothing

LEMMA RewrittenIs ==
    ASSUME NEW w \in World, NEW v \in World, v.graph = w.graph,
           \A rec \in AllRecs :
               \/ RecOf(v, rec) = RecOf(w, rec)
               \/ /\ rec \in Stored(w) /\ RecOf(v, rec) \in DocRecord \cup VecRecord
                  /\ RecOf(v, rec).sound = RecOf(w, rec).sound
                  /\ RecOf(w, rec).space # Nothing => RecOf(v, rec).space # Nothing
    PROVE  Rewritten(w, v)
BY StoredIs, BackFacts DEF Rewritten

LEMMA RewrittenMeans ==
    ASSUME NEW w \in World, NEW v, Rewritten(w, v)
    PROVE  /\ v \in World /\ v.graph = w.graph /\ Stored(v) = Stored(w)
           /\ \A rec \in Stored(w) : /\ RecOf(v, rec).sound = RecOf(w, rec).sound
                                     /\ SpaceOf(w, rec) # Nothing => SpaceOf(v, rec) # Nothing
BY StoredIsFinite, RecsAre DEF Rewritten

\* A batch writes what it plans, and only where nothing is.
Good(batch) == {p \in batch : StillHolds(p)}
BatchEffect(batch, rec) ==
    \/ /\ RecOf(world', rec) = RecOf(world, rec)
       /\ \A p \in Good(batch) : p[1] # rec
    \/ \E p \in Good(batch) :
          /\ p[1] = rec /\ rec \in Stored(world) /\ SpaceOf(world, rec) = Nothing
          /\ RecOf(world, rec).sound /\ p[2] \in GrSpaces
          /\ RecOf(world', rec) = [RecOf(world, rec) EXCEPT !.space = p[2]]

LEMMA BatchWrites ==
    ASSUME BackInv, WriteBatch
    PROVE  \E batch \in SUBSET job.left :
             /\ batch # {} /\ job.at = "write" /\ world' \in World /\ world'.graph = world.graph
             /\ \A rec \in AllRecs : BatchEffect(batch, rec)
             /\ \/ job' = [job EXCEPT !.left = @ \ batch, !.done = @ \cup Good(batch),
                                      !.skipped = @ \/ Good(batch) # batch]
                \/ job' = Resting
<1>0. job.at = "write" /\ job.left # {}
  BY DEF WriteBatch
<1> DEFINE good(batch) == {p \in batch : StillHolds(p)}
           written(batch, s, i) == {p \in good(batch) : p[1] = <<s, i>>}
           space(batch, s, i) == (CHOOSE p \in written(batch, s, i) : TRUE)[2]
<1>1. PICK batch \in SUBSET {p \in job.left : p[1][1] = Turn} :
        /\ batch # {}
        /\ world' = [world EXCEPT
                 !.docs = [i \in RecIds |-> IF written(batch, "doc", i) = {} THEN @[i]
                                            ELSE [@[i] EXCEPT !.space = space(batch, "doc", i)]],
                 !.vectors = [i \in RecIds |-> IF written(batch, "vector", i) = {} THEN @[i]
                                               ELSE [@[i] EXCEPT !.space = space(batch, "vector", i)]]]
        /\ \/ job' = [job EXCEPT !.left = @ \ batch, !.done = @ \cup good(batch),
                                 !.skipped = @ \/ good(batch) # batch]
           \/ job' = Resting
  BY DEF WriteBatch
<1>2. batch \in SUBSET job.left /\ good(batch) = Good(batch)
  BY <1>1 DEF Good
<1> HIDE DEF good
<1>3. world \in World /\ first \in World /\ world.graph = first.graph /\ HasRead /\ job.graph = first.graph
      /\ job.docs \in PairTables
  BY <1>0 DEF BackInv, WorldTyped, JobTyped, HasRead
<1>4. ASSUME NEW p \in Good(batch)
      PROVE  /\ p = <<p[1], p[2]>> /\ p[1] \in Stored(world) /\ p[2] \in GrSpaces
             /\ SpaceOf(world, p[1]) = Nothing /\ RecOf(world, p[1]).sound
  <2>1. p \in job.plan /\ p = <<p[1], p[2]>> /\ p[2] \in GrSpaces
    BY <1>0, <1>2, <1>3, <1>4 DEF BackInv, PlanFits, Good
  <2>2. p[1] \in Stored(world) /\ Decision(world, job.graph, job.docs, p[1]) = Apply(p[2])
    BY <1>4 DEF Good, StillHolds
  <2>3. DecisionFits(RecOf(world, p[1]), Apply(p[2]))
    BY <1>3, <2>2, DecisionIs, WorldHas
  <2>4. SpaceOf(world, p[1]) = RecOf(world, p[1]).space
    BY <1>3, <2>2, RecsAre
  <2> QED BY <2>1, <2>2, <2>3, <2>4 DEF DecisionFits, Apply
<1>5. /\ DOMAIN world = {"graph", "docs", "vectors"}
      /\ world.graph \in [RecIds -> GraphEntry \cup {Nothing}]
      /\ world.docs \in [RecIds -> DocRecord \cup {Nothing}]
      /\ world.vectors \in [RecIds -> VecRecord \cup {Nothing}]
      /\ world = [graph |-> world.graph, docs |-> world.docs, vectors |-> world.vectors]
  BY <1>3, WorldHas DEF World
<1>6. ASSUME NEW s, NEW i, written(batch, s, i) # {}
      PROVE  \E p \in Good(batch) : p[1] = <<s, i>> /\ space(batch, s, i) = p[2]
  BY <1>6, <1>2
<1>7. ASSUME NEW i \in RecIds
      PROVE  /\ written(batch, "doc", i) = {} => world'.docs[i] = world.docs[i]
             /\ written(batch, "doc", i) # {} =>
                   world'.docs[i] = [world.docs[i] EXCEPT !.space = space(batch, "doc", i)]
             /\ written(batch, "vector", i) = {} => world'.vectors[i] = world.vectors[i]
             /\ written(batch, "vector", i) # {} =>
                   world'.vectors[i] = [world.vectors[i] EXCEPT !.space = space(batch, "vector", i)]
  <2> HIDE DEF written, space
  <2> QED BY <1>1, <1>5
<1>8. world'.graph = world.graph /\ DOMAIN world'.docs = RecIds /\ DOMAIN world'.vectors = RecIds
      /\ world' = [graph |-> world.graph, docs |-> world'.docs, vectors |-> world'.vectors]
      /\ world'.docs = [i \in RecIds |-> world'.docs[i]] /\ world'.vectors = [i \in RecIds |-> world'.vectors[i]]
  <2> HIDE DEF written, space
  <2> QED BY <1>1, <1>5
<1> HIDE DEF written, space
<1>9. ASSUME NEW rec \in AllRecs
      PROVE  BatchEffect(batch, rec)
  <2>1. rec = <<rec[1], rec[2]>> /\ rec[2] \in RecIds /\ rec[1] \in {"doc", "vector"}
    BY DEF AllRecs
  <2>2. /\ written(batch, rec[1], rec[2]) = {} => RecOf(world', rec) = RecOf(world, rec)
        /\ written(batch, rec[1], rec[2]) # {} =>
              RecOf(world', rec) = [RecOf(world, rec) EXCEPT !.space = space(batch, rec[1], rec[2])]
    BY <2>1, <1>7 DEF RecOf
  <2>3. CASE written(batch, rec[1], rec[2]) = {}
    BY <1>2, <2>1, <2>3, <2>2 DEF written, BatchEffect
  <2>4. CASE written(batch, rec[1], rec[2]) # {}
    BY <1>6, <2>4, <2>1, <1>4, <2>2 DEF BatchEffect
  <2> QED BY <2>3, <2>4
<1>10. ASSUME NEW i \in RecIds
       PROVE  world'.docs[i] \in DocRecord \cup {Nothing} /\ world'.vectors[i] \in VecRecord \cup {Nothing}
  <2>1. world'.docs[i] \in DocRecord \cup {Nothing}
    <3>1. CASE written(batch, "doc", i) # {}
      <4>1. PICK p \in Good(batch) : p[1] = <<"doc", i>> /\ space(batch, "doc", i) = p[2]
        BY <1>6, <3>1
      <4>2. world.docs[i] \in DocRecord /\ p[2] \in GrSpaces
        BY <1>3, <1>4, <4>1, RecsAre
      <4> QED BY <1>7, <3>1, <4>1, <4>2 DEF DocRecord
    <3> QED BY <1>5, <1>7, <3>1
  <2>2. world'.vectors[i] \in VecRecord \cup {Nothing}
    <3>1. CASE written(batch, "vector", i) # {}
      <4>1. PICK p \in Good(batch) : p[1] = <<"vector", i>> /\ space(batch, "vector", i) = p[2]
        BY <1>6, <3>1
      <4>2. world.vectors[i] \in VecRecord /\ p[2] \in GrSpaces
        BY <1>3, <1>4, <4>1, RecsAre
      <4> QED BY <1>7, <3>1, <4>1, <4>2 DEF VecRecord
    <3> QED BY <1>5, <1>7, <3>1
  <2> QED BY <2>1, <2>2
<1>11. world' \in World
  BY <1>8, <1>10, <1>5 DEF World
<1> QED BY <1>0, <1>1, <1>2, <1>8, <1>9, <1>11

LEMMA RespacedIs ==
    ASSUME NEW r \in DocRecord \cup VecRecord, NEW s \in GrSpaces
    PROVE  /\ [r EXCEPT !.space = s] \in DocRecord \cup VecRecord
           /\ [r EXCEPT !.space = s].sound = r.sound
           /\ [r EXCEPT !.space = s].space = s
BY DEF DocRecord, VecRecord

LEMMA BatchRewrites ==
    ASSUME BackInv, WriteBatch
    PROVE  Rewritten(world, world') /\ UNCHANGED <<first, scans, others>>
<1>1. PICK batch \in SUBSET job.left :
        world' \in World /\ world'.graph = world.graph /\ \A rec \in AllRecs : BatchEffect(batch, rec)
  BY BatchWrites
<1>2. world \in World
  BY DEF BackInv, WorldTyped
<1>3. ASSUME NEW rec \in AllRecs, RecOf(world', rec) # RecOf(world, rec)
      PROVE  /\ rec \in Stored(world) /\ RecOf(world', rec) \in DocRecord \cup VecRecord
             /\ RecOf(world', rec).sound = RecOf(world, rec).sound
             /\ RecOf(world', rec).space # Nothing
  <2>1. PICK p \in Good(batch) : /\ rec \in Stored(world) /\ p[2] \in GrSpaces
                                 /\ RecOf(world', rec) = [RecOf(world, rec) EXCEPT !.space = p[2]]
    BY <1>1, <1>3 DEF BatchEffect
  <2>2. RecOf(world, rec) \in DocRecord \cup VecRecord
    BY <1>2, <2>1, RecsAre
  <2> QED BY <2>1, <2>2, RespacedIs, BackFacts
<1>4. Rewritten(world, world')
  BY <1>1, <1>2, <1>3, RewrittenIs
<1> QED BY <1>4 DEF WriteBatch

LEMMA OtherRewrites ==
    ASSUME BackInv, NEW rec \in Stored(world), OtherWrites(rec)
    PROVE  Rewritten(world, world')
<1>1. world \in World /\ rec[2] \in RecIds /\ rec = <<rec[1], rec[2]>> /\ rec[1] \in {"doc", "vector"} /\ rec \in AllRecs
  BY RecsAre DEF BackInv, WorldTyped
<1>2. /\ world.graph \in [RecIds -> GraphEntry \cup {Nothing}]
      /\ world.docs \in [RecIds -> DocRecord \cup {Nothing}]
      /\ world.vectors \in [RecIds -> VecRecord \cup {Nothing}]
      /\ world = [graph |-> world.graph, docs |-> world.docs, vectors |-> world.vectors]
  BY <1>1, WorldHas DEF World
<1>3. CASE rec[1] = "doc"
  <2>1. world.docs[rec[2]] \in DocRecord /\ RecOf(world, rec) = world.docs[rec[2]]
    BY <1>1, <1>3, RecsAre
  <2>2. PICK r \in DocRecord : /\ world' = [world EXCEPT !.docs[rec[2]] = r]
                               /\ r.sound = world.docs[rec[2]].sound
                               /\ world.docs[rec[2]].space # Nothing => r.space # Nothing
    <3>1. CASE \E s \in GrSpaces : world' = Respaced(world, rec, s)
      <4>1. PICK s \in GrSpaces : world' = Respaced(world, rec, s)
        BY <3>1
      <4> DEFINE r == [world.docs[rec[2]] EXCEPT !.space = s]
      <4>2. world' = [world EXCEPT !.docs[rec[2]] = r]
        BY <1>2, <1>3, <4>1 DEF Respaced
      <4>3. r \in DocRecord /\ r.sound = world.docs[rec[2]].sound /\ r.space # Nothing
        BY <2>1, BackFacts DEF DocRecord
      <4> QED BY <4>2, <4>3
    <3>2. CASE \E p \in GrPacks : world' = [world EXCEPT !.docs[rec[2]].pack = p]
      <4>1. PICK p \in GrPacks : world' = [world EXCEPT !.docs[rec[2]].pack = p]
        BY <3>2
      <4> DEFINE r == [world.docs[rec[2]] EXCEPT !.pack = p]
      <4>2. world' = [world EXCEPT !.docs[rec[2]] = r]
        BY <1>2, <4>1
      <4>3. r \in DocRecord /\ r.sound = world.docs[rec[2]].sound /\ r.space = world.docs[rec[2]].space
        BY <2>1 DEF DocRecord
      <4> QED BY <4>2, <4>3
    <3> QED BY <1>3, <3>1, <3>2 DEF OtherWrites
  <2>3. /\ world'.graph = world.graph /\ world'.vectors = world.vectors
        /\ world'.docs = [world.docs EXCEPT ![rec[2]] = r]
        /\ world' = [graph |-> world.graph, docs |-> world'.docs, vectors |-> world.vectors]
    BY <1>2, <2>2
  <2>4. world' \in World
    BY <1>1, <1>2, <2>1, <2>2, <2>3 DEF World
  <2>5. \A e \in AllRecs : e # rec => RecOf(world', e) = RecOf(world, e)
    BY <1>1, <1>2, <1>3, <2>3 DEF RecOf, AllRecs
  <2>6. RecOf(world', rec) = r
    BY <1>1, <1>2, <1>3, <2>3 DEF RecOf
  <2>7. /\ RecOf(world', rec).sound = RecOf(world, rec).sound /\ RecOf(world', rec) \in DocRecord \cup VecRecord
        /\ RecOf(world, rec).space # Nothing => RecOf(world', rec).space # Nothing
    BY <2>1, <2>2, <2>6
  <2> QED BY <1>1, <2>3, <2>4, <2>5, <2>7, RewrittenIs
<1>4. CASE rec[1] # "doc"
  <2>1. world.vectors[rec[2]] \in VecRecord /\ RecOf(world, rec) = world.vectors[rec[2]]
    BY <1>1, <1>4, RecsAre
  <2>2. PICK r \in VecRecord : /\ world' = [world EXCEPT !.vectors[rec[2]] = r]
                               /\ r.sound = world.vectors[rec[2]].sound
                               /\ world.vectors[rec[2]].space # Nothing => r.space # Nothing
    <3>1. CASE \E s \in GrSpaces : world' = Respaced(world, rec, s)
      <4>1. PICK s \in GrSpaces : world' = Respaced(world, rec, s)
        BY <3>1
      <4> DEFINE r == [world.vectors[rec[2]] EXCEPT !.space = s]
      <4>2. world' = [world EXCEPT !.vectors[rec[2]] = r]
        BY <1>2, <1>4, <4>1 DEF Respaced
      <4>3. r \in VecRecord /\ r.sound = world.vectors[rec[2]].sound /\ r.space # Nothing
        BY <2>1, BackFacts DEF VecRecord
      <4> QED BY <4>2, <4>3
    <3>2. CASE \E p \in GrPacks : world' = [world EXCEPT !.vectors[rec[2]].pack = p]
      <4>1. PICK p \in GrPacks : world' = [world EXCEPT !.vectors[rec[2]].pack = p]
        BY <3>2
      <4> DEFINE r == [world.vectors[rec[2]] EXCEPT !.pack = p]
      <4>2. world' = [world EXCEPT !.vectors[rec[2]] = r]
        BY <1>2, <4>1
      <4>3. r \in VecRecord /\ r.sound = world.vectors[rec[2]].sound /\ r.space = world.vectors[rec[2]].space
        BY <2>1 DEF VecRecord
      <4> QED BY <4>2, <4>3
    <3> QED BY <1>4, <3>1, <3>2 DEF OtherWrites
  <2>3. /\ world'.graph = world.graph /\ world'.docs = world.docs
        /\ world'.vectors = [world.vectors EXCEPT ![rec[2]] = r]
        /\ world' = [graph |-> world.graph, docs |-> world.docs, vectors |-> world'.vectors]
    BY <1>2, <2>2
  <2>4. world' \in World
    BY <1>1, <1>2, <2>1, <2>2, <2>3 DEF World
  <2>5. \A e \in AllRecs : e # rec => RecOf(world', e) = RecOf(world, e)
    BY <1>1, <1>2, <1>4, <2>3 DEF RecOf, AllRecs
  <2>6. RecOf(world', rec) = r
    BY <1>1, <1>2, <1>4, <2>3 DEF RecOf
  <2>7. /\ RecOf(world', rec).sound = RecOf(world, rec).sound /\ RecOf(world', rec) \in DocRecord \cup VecRecord
        /\ RecOf(world, rec).space # Nothing => RecOf(world', rec).space # Nothing
    BY <2>1, <2>2, <2>6
  <2> QED BY <1>1, <2>3, <2>4, <2>5, <2>7, RewrittenIs
<1> QED BY <1>3, <1>4

-----------------------------------------------------------------------------
(* What holds whoever else writes: types, and that the plan fits the scan.  *)

RestsAgain == job' = Resting

LEMMA WorldKept ==
    ASSUME BackInv, first' = first, Rewritten(world, world') \/ world' = world,
           scans' \in Nat, others' \in Nat
    PROVE  /\ WorldTyped' /\ Stored(world') = Stored(world) /\ Stored(world') = Stored(first)
           /\ \A rec \in Stored(first) : /\ RecOf(world', rec).sound = RecOf(world, rec).sound
                                         /\ SpaceOf(world, rec) # Nothing => SpaceOf(world', rec) # Nothing
BY RewrittenMeans DEF BackInv, WorldTyped

LEMMA RestKeeps ==
    ASSUME job' = Resting
    PROVE  JobTyped' /\ PlanFits' /\ ~HasRead'
BY DEF Resting, JobTyped, PlanFits, HasRead

\* The run goes on with the plan it has.
LEMMA PlanKept ==
    ASSUME BackInv, WorldTyped',
           \A rec \in Stored(first) : /\ RecOf(world', rec).sound = RecOf(world, rec).sound
                                      /\ SpaceOf(world, rec) # Nothing => SpaceOf(world', rec) # Nothing,
           first' = first, job'.at = job.at, job'.docs = job.docs, job'.held = job.held, job'.plan = job.plan,
           job.at = "write" => job'.left \subseteq job.left /\ job'.done \subseteq job.done \cup job.left
    PROVE  PlanFits'
BY DEF PlanFits, HasRead, Scope, WorldTyped, BackInv, Functional

LEMMA BackInitHolds == BackfillInit => BackInv
BY BackFacts DEF BackfillInit, WorldTyped, Resting, JobTyped, PlanFits, HasRead, BackInv

LEMMA ScanGraphKeeps == BackInv /\ ScanGraph => BackInv'
BY WorldKept DEF ScanGraph, BackInv, WorldTyped, Resting, JobTyped, PlanFits, HasRead

\* What the scan of the documents decides of each.
LEMMA ScanDocsPlans ==
    ASSUME BackInv, ScanDocs
    PROVE  /\ job.at = "scan" /\ UNCHANGED <<world, first, scans, others>>
           /\ job.graph = world.graph /\ Pairs(world.docs, world.graph) \in PairTables
           /\ job'.at = "scan" /\ DOMAIN job' = DOMAIN job /\ job'.limited = job.limited /\ job'.graph = job.graph
           /\ job'.done = {} /\ job'.docs = Pairs(world.docs, world.graph)
           /\ Scope' = {rec \in Stored(world) : rec[1] = "doc"}
           /\ job'.held = {<<rec, NowDecision(rec).class>> : rec \in Scope'}
           /\ job'.plan = {<<rec, NowDecision(rec).space>> : rec \in {r \in Scope' : NowDecision(r).class = "apply"}}
           /\ job'.count = Cardinality(Scope')
<1>1. /\ job.at = "scan" /\ job.done = {} /\ job.graph = world.graph /\ Stored(world) = Stored(first) /\ world \in World
      /\ DOMAIN job = {"at", "graph", "docs", "plan", "left", "done", "held", "count", "skipped", "limited"}
  BY DEF ScanDocs, BackInv, WorldTyped, JobTyped
<1>2. UNCHANGED <<world, first, scans, others>>
  BY DEF ScanDocs
<1> DEFINE docs == {rec \in Stored(world) : rec[1] = "doc"}
           of(rec) == DecideDoc(world.docs[rec[2]], job.graph[rec[2]])
<1>3. job' = [job EXCEPT !.docs = Pairs(world.docs, job.graph),
                     !.plan = {<<rec, of(rec).space>> : rec \in {r \in docs : of(r).class = "apply"}},
                     !.held = {<<rec, of(rec).class>> : rec \in docs},
                     !.count = Cardinality(docs)]
  BY DEF ScanDocs
<1>4. \A rec \in docs : of(rec) = NowDecision(rec)
  BY <1>1 DEF NowDecision, Decision
<1> HIDE DEF docs, of
<1>5. /\ job'.at = "scan" /\ DOMAIN job' = DOMAIN job /\ job'.limited = job.limited /\ job'.graph = job.graph
      /\ job'.done = {} /\ job'.docs = Pairs(world.docs, world.graph)
      /\ job'.held = {<<rec, of(rec).class>> : rec \in docs}
      /\ job'.plan = {<<rec, of(rec).space>> : rec \in {r \in docs : of(r).class = "apply"}}
      /\ job'.count = Cardinality(docs)
  BY <1>1, <1>3
<1>6. Scope' = docs
  BY <1>1, <1>2, <1>5 DEF Scope, docs
<1>7. Pairs(world.docs, world.graph) \in PairTables
  BY <1>1, WorldHas, PairsAre
<1>8. job'.held = {<<rec, NowDecision(rec).class>> : rec \in docs}
  BY <1>4, <1>5
<1>9. job'.plan = {<<rec, NowDecision(rec).space>> : rec \in {r \in docs : NowDecision(r).class = "apply"}}
  BY <1>4, <1>5
<1> QED BY <1>1, <1>2, <1>5, <1>6, <1>7, <1>8, <1>9 DEF docs

LEMMA NowFits ==
    ASSUME WorldTyped, NEW rec \in Stored(first)
    PROVE  DecisionFits(RecOf(world, rec), NowDecision(rec)) /\ SpaceOf(world, rec) = RecOf(world, rec).space
           /\ RecOf(world, rec).sound \in BOOLEAN
BY WorldHas, PairsAre, DecisionIs, RecsAre DEF NowDecision, WorldTyped

LEMMA ScanDocsKeeps == BackInv /\ ScanDocs => BackInv'
<1> SUFFICES ASSUME BackInv, ScanDocs PROVE BackInv'
  OBVIOUS
<1>0. /\ job.at = "scan" /\ UNCHANGED <<world, first, scans, others>>
      /\ job.graph = world.graph /\ Pairs(world.docs, world.graph) \in PairTables
      /\ job'.at = "scan" /\ DOMAIN job' = DOMAIN job /\ job'.limited = job.limited /\ job'.graph = job.graph
      /\ job'.done = {} /\ job'.docs = Pairs(world.docs, world.graph)
      /\ Scope' = {rec \in Stored(world) : rec[1] = "doc"}
      /\ job'.held = {<<rec, NowDecision(rec).class>> : rec \in Scope'}
      /\ job'.plan = {<<rec, NowDecision(rec).space>> : rec \in {r \in Scope' : NowDecision(r).class = "apply"}}
  BY ScanDocsPlans
<1>1. WorldTyped'
  BY <1>0, WorldKept DEF BackInv, WorldTyped
<1>2. JobTyped'
  BY <1>0 DEF BackInv, WorldTyped, JobTyped
<1>3. \A rec \in Scope' : /\ rec \in Stored(first)
                          /\ DecisionFits(RecOf(world, rec), NowDecision(rec)) /\ SpaceOf(world, rec) = RecOf(world, rec).space
  BY <1>0, NowFits DEF BackInv, WorldTyped
<1>4. \A rec \in Scope' :
        /\ NowDecision(rec).class = "skip_valid" => RecOf(world, rec).sound /\ SpaceOf(world, rec) # Nothing
        /\ NowDecision(rec).class = "apply" => RecOf(world, rec).sound /\ NowDecision(rec).space \in GrSpaces
  BY <1>3 DEF DecisionFits
<1> HIDE DEF NowDecision
<1>5. PlanFits'
  <2>1. \A h \in job'.held : h[1] \in Scope' /\ h = <<h[1], NowDecision(h[1]).class>>
    BY <1>0
  <2>2. \A p \in job'.plan : /\ p[1] \in Scope' /\ NowDecision(p[1]).class = "apply"
                             /\ p = <<p[1], NowDecision(p[1]).space>>
    BY <1>0
  <2>3. \A rec \in Scope' : <<rec, NowDecision(rec).class>> \in job'.held
    BY <1>0
  <2>4. Functional(job'.held) /\ Functional(job'.plan)
    BY <2>1, <2>2 DEF Functional
  <2>5. \A p \in job'.plan : p = <<p[1], p[2]>> /\ <<p[1], "apply">> \in job'.held /\ p[2] \in GrSpaces
    BY <1>4, <2>2, <2>3
  <2>6. \A h \in job'.held :
              /\ h[2] = "skip_valid" => RecOf(world, h[1]).sound /\ SpaceOf(world, h[1]) # Nothing
              /\ h[2] = "apply" => RecOf(world, h[1]).sound
    BY <1>4, <2>1
  <2>7. \A h \in job'.held : h = <<h[1], h[2]>> /\ h[1] \in Scope'
    BY <2>1
  <2>8. \A rec \in Scope' : \E h \in job'.held : h[1] = rec
    BY <2>3
  <2> QED BY <1>0, <2>4, <2>5, <2>6, <2>7, <2>8 DEF PlanFits
<1> QED BY <1>1, <1>2, <1>5 DEF BackInv

\* What the scan of the vectors adds.
LEMMA ScanVectorsPlans ==
    ASSUME BackInv, ScanVectors
    PROVE  LET vecs == {rec \in Stored(first) : rec[1] = "vector"}
               of(rec) == Decision(world, world.graph, job.docs, rec)
               planned == {<<rec, of(rec).space>> : rec \in {r \in vecs : of(r).class = "apply"}}
           IN /\ job.at = "scan" /\ HasRead /\ UNCHANGED <<world, first, scans, others>>
              /\ Scope' = Stored(first) /\ Scope = {rec \in Stored(first) : rec[1] = "doc"}
              /\ Stored(first) = Scope \cup vecs /\ Scope \cap vecs = {}
              /\ job'.at = "write" /\ DOMAIN job' = DOMAIN job /\ job'.limited = job.limited /\ job'.graph = job.graph
              /\ job'.done = {} /\ job'.docs = job.docs
              /\ job'.plan = job.plan \cup planned /\ job'.left = job.plan \cup planned
              /\ job'.held = job.held \cup {<<rec, of(rec).class>> : rec \in vecs}
              /\ job'.count = job.count + Cardinality(vecs)
              /\ \A rec \in vecs : DecisionFits(RecOf(world, rec), of(rec)) /\ SpaceOf(world, rec) = RecOf(world, rec).space
<1> DEFINE vecs == {rec \in Stored(first) : rec[1] = "vector"}
           of(rec) == Decision(world, world.graph, job.docs, rec)
           planned == {<<rec, of(rec).space>> : rec \in {r \in vecs : of(r).class = "apply"}}
<1>1. /\ job.at = "scan" /\ HasRead /\ job.done = {} /\ job.graph = world.graph /\ Stored(world) = Stored(first)
      /\ world \in World /\ first \in World /\ job.docs \in PairTables
      /\ DOMAIN job = {"at", "graph", "docs", "plan", "left", "done", "held", "count", "skipped", "limited"}
  BY DEF ScanVectors, BackInv, WorldTyped, JobTyped, HasRead
<1>2. UNCHANGED <<world, first, scans, others>>
  BY DEF ScanVectors
<1>3. job' = [job EXCEPT !.at = "write", !.plan = @ \cup planned,
                     !.left = job.plan \cup planned,
                     !.held = @ \cup {<<rec, of(rec).class>> : rec \in vecs},
                     !.count = @ + Cardinality(vecs)]
  BY <1>1 DEF ScanVectors
<1>4. \A rec \in vecs : DecisionFits(RecOf(world, rec), of(rec)) /\ SpaceOf(world, rec) = RecOf(world, rec).space
  BY <1>1, WorldHas, DecisionIs, RecsAre
<1>5. Scope = {rec \in Stored(first) : rec[1] = "doc"}
  BY <1>1 DEF Scope
<1>6. Stored(first) = Scope \cup vecs /\ Scope \cap vecs = {}
  BY <1>1, RecsAre, <1>5
<1> HIDE DEF vecs, of, planned
<1>7. /\ job'.at = "write" /\ DOMAIN job' = DOMAIN job /\ job'.limited = job.limited /\ job'.graph = job.graph
      /\ job'.done = {} /\ job'.docs = job.docs
      /\ job'.plan = job.plan \cup planned /\ job'.left = job.plan \cup planned
      /\ job'.held = job.held \cup {<<rec, of(rec).class>> : rec \in vecs}
      /\ job'.count = job.count + Cardinality(vecs)
  BY <1>1, <1>3
<1>8. Scope' = Stored(first)
  BY <1>2, <1>7 DEF Scope
<1> QED BY <1>1, <1>2, <1>4, <1>5, <1>6, <1>7, <1>8 DEF vecs, of, planned

LEMMA ScanVectorsKeeps == BackInv /\ ScanVectors => BackInv'
<1> SUFFICES ASSUME BackInv, ScanVectors PROVE BackInv'
  OBVIOUS
<1> DEFINE vecs == {rec \in Stored(first) : rec[1] = "vector"}
           of(rec) == Decision(world, world.graph, job.docs, rec)
           planned == {<<rec, of(rec).space>> : rec \in {r \in vecs : of(r).class = "apply"}}
           heldNow == {<<rec, of(rec).class>> : rec \in vecs}
<1>0. /\ job.at = "scan" /\ HasRead /\ UNCHANGED <<world, first, scans, others>>
      /\ Scope' = Stored(first) /\ Stored(first) = Scope \cup vecs /\ Scope \cap vecs = {}
      /\ job'.at = "write" /\ DOMAIN job' = DOMAIN job /\ job'.limited = job.limited /\ job'.graph = job.graph
      /\ job'.done = {} /\ job'.docs = job.docs
      /\ job'.plan = job.plan \cup planned /\ job'.left = job.plan \cup planned
      /\ job'.held = job.held \cup heldNow
      /\ \A rec \in vecs : DecisionFits(RecOf(world, rec), of(rec)) /\ SpaceOf(world, rec) = RecOf(world, rec).space
  BY ScanVectorsPlans
<1>1. WorldTyped'
  BY <1>0, WorldKept DEF BackInv, WorldTyped
<1>2. JobTyped'
  BY <1>0 DEF BackInv, WorldTyped, JobTyped, HasRead
<1>3. \A rec \in vecs :
        /\ of(rec).class = "skip_valid" => RecOf(world, rec).sound /\ SpaceOf(world, rec) # Nothing
        /\ of(rec).class = "apply" => RecOf(world, rec).sound /\ of(rec).space \in GrSpaces
  BY <1>0 DEF DecisionFits
<1> HIDE DEF of
<1>4. PlanFits
  BY DEF BackInv
<1>5. /\ \A h \in heldNow : h[1] \in vecs /\ h = <<h[1], of(h[1]).class>>
      /\ \A p \in planned : p[1] \in vecs /\ of(p[1]).class = "apply" /\ p = <<p[1], of(p[1]).space>>
      /\ \A rec \in vecs : <<rec, of(rec).class>> \in heldNow
  OBVIOUS
<1> HIDE DEF heldNow, planned
<1>6. /\ \A h \in job.held : h = <<h[1], h[2]>> /\ h[1] \in Scope
      /\ \A p \in job.plan : <<p[1], "apply">> \in job.held
  BY <1>0, <1>4 DEF PlanFits
<1>7. \A p \in job.plan : p[1] \in Scope
  BY <1>6
<1>8. Functional(job'.held) /\ Functional(job'.plan)
  <2>1. Functional(job.held) /\ Functional(job.plan)
    BY <1>0, <1>4 DEF PlanFits
  <2> HIDE DEF vecs
  <2> QED BY <1>0, <1>5, <1>6, <1>7, <2>1 DEF Functional
<1> HIDE DEF vecs
<1>9. \A p \in job'.plan : p = <<p[1], p[2]>> /\ <<p[1], "apply">> \in job'.held /\ p[2] \in GrSpaces
  <2>1. \A p \in job.plan : p = <<p[1], p[2]>> /\ <<p[1], "apply">> \in job.held /\ p[2] \in GrSpaces
    BY <1>0, <1>4 DEF PlanFits
  <2>2. \A p \in planned : p = <<p[1], p[2]>> /\ <<p[1], "apply">> \in heldNow /\ p[2] \in GrSpaces
    BY <1>3, <1>5
  <2> QED BY <1>0, <2>1, <2>2
<1>10. \A h \in job'.held :
              /\ h = <<h[1], h[2]>> /\ h[1] \in Stored(first)
              /\ h[2] = "skip_valid" => RecOf(world, h[1]).sound /\ SpaceOf(world, h[1]) # Nothing
              /\ h[2] = "apply" => RecOf(world, h[1]).sound
  BY <1>0, <1>4, <1>3, <1>5 DEF PlanFits
<1>11. \A rec \in Stored(first) : \E h \in job'.held : h[1] = rec
  <2>1. \A rec \in Scope : \E h \in job.held : h[1] = rec
    BY <1>0, <1>4 DEF PlanFits
  <2> QED BY <1>0, <1>5, <2>1
<1>12. PlanFits'
  BY <1>0, <1>8, <1>9, <1>10, <1>11 DEF PlanFits
<1> QED BY <1>1, <1>2, <1>12 DEF BackInv

LEMMA BatchKeeps == BackInv /\ WriteBatch => BackInv'
<1> SUFFICES ASSUME BackInv, WriteBatch PROVE BackInv'
  OBVIOUS
<1>1. PICK batch \in SUBSET job.left :
        /\ job.at = "write"
        /\ \/ job' = [job EXCEPT !.left = @ \ batch, !.done = @ \cup Good(batch),
                                 !.skipped = @ \/ Good(batch) # batch]
           \/ job' = Resting
  BY BatchWrites
<1>2. Rewritten(world, world') /\ UNCHANGED <<first, scans, others>>
  BY BatchRewrites
<1>3. WorldTyped' /\ \A rec \in Stored(first) : /\ RecOf(world', rec).sound = RecOf(world, rec).sound
                                                /\ SpaceOf(world, rec) # Nothing => SpaceOf(world', rec) # Nothing
  BY <1>2, WorldKept DEF BackInv, WorldTyped
<1>4. CASE job' = Resting
  BY <1>3, <1>4, RestKeeps DEF BackInv
<1>5. CASE job' = [job EXCEPT !.left = @ \ batch, !.done = @ \cup Good(batch), !.skipped = @ \/ Good(batch) # batch]
  BY <1>1, <1>5, <1>2, <1>3, PlanKept DEF BackInv, JobTyped, Good, HasRead
<1> QED BY <1>1, <1>4, <1>5

LEMMA EndingKeeps == BackInv /\ (Limit \/ Reconcile \/ EndRun) => BackInv'
BY WorldKept, RestKeeps, PlanKept DEF Limit, Reconcile, EndRun, BackInv, WorldTyped, JobTyped,
   HasRead, PlanFits

LEMMA OthersKeep == BackInv /\ (\E rec \in Stored(world) : OtherWrites(rec)) => BackInv'
<1> SUFFICES ASSUME BackInv, NEW rec \in Stored(world), OtherWrites(rec) PROVE BackInv'
  OBVIOUS
<1>1. Rewritten(world, world') /\ first' = first /\ job' = job /\ scans' = scans /\ others' = others + 1
  BY OtherRewrites DEF OtherWrites
<1>2. WorldTyped' /\ \A e \in Stored(first) : /\ RecOf(world', e).sound = RecOf(world, e).sound
                                              /\ SpaceOf(world, e) # Nothing => SpaceOf(world', e) # Nothing
  BY <1>1, WorldKept DEF BackInv, WorldTyped
<1>3. PlanFits'
  BY <1>1, <1>2, PlanKept
<1>4. JobTyped'
  BY <1>1 DEF BackInv, JobTyped, HasRead
<1> QED BY <1>2, <1>3, <1>4 DEF BackInv

LEMMA BackStays == BackInv /\ [BackfillNext]_backfillVars => BackInv'
<1> SUFFICES ASSUME BackInv, [BackfillNext]_backfillVars PROVE BackInv'
  OBVIOUS
<1>1. CASE UNCHANGED backfillVars
  BY <1>1 DEF backfillVars, BackInv, WorldTyped, JobTyped, PlanFits, HasRead, Scope, Functional
<1> QED BY <1>1, ScanGraphKeeps, ScanDocsKeeps, ScanVectorsKeeps, BatchKeeps, EndingKeeps, OthersKeep DEF BackfillNext

-----------------------------------------------------------------------------
(* Undisturbed, a scan decides as the first one did of all that has no      *)
(* space yet, and every row of the plan still holds when its batch comes.   *)

LEMMA FillIs ==
    ASSUME WorldTyped, NEW rec \in Stored(first), RecordIs(rec)
    PROVE  \/ /\ RecOf(world, rec) = RecOf(first, rec)
              /\ SpaceOf(world, rec) = SpaceOf(first, rec)
              /\ FirstDecision(rec).class = "apply" => SpaceOf(world, rec) = Nothing
           \/ /\ FirstDecision(rec).class = "apply" /\ RecOf(world, rec) = Filled1(rec)
              /\ RecOf(world, rec).sound /\ FirstDecision(rec).space \in GrSpaces
              /\ SpaceOf(world, rec) = FirstDecision(rec).space /\ SpaceOf(world, rec) # Nothing
<1>1. /\ DecisionFits(RecOf(first, rec), FirstDecision(rec))
      /\ SpaceOf(first, rec) = RecOf(first, rec).space /\ SpaceOf(world, rec) = RecOf(world, rec).space
      /\ RecOf(first, rec) \in DocRecord \cup VecRecord
  BY FirstDecisionIs, RecsAre DEF WorldTyped
<1>2. CASE RecOf(world, rec) = RecOf(first, rec)
  BY <1>1, <1>2 DEF DecisionFits
<1>3. CASE FirstDecision(rec).class = "apply" /\ RecOf(world, rec) = Filled1(rec)
  BY <1>1, <1>3, RespacedIs, BackFacts DEF DecisionFits, Filled1
<1> QED BY <1>2, <1>3 DEF RecordIs

\* A document that was filled gives its vectors the space it was to get.
LEMMA PairsStay ==
    ASSUME WorldTyped, \A rec \in Stored(first) : RecordIs(rec)
    PROVE  Pairs(world.docs, world.graph) = FirstPairs
<1>1. ASSUME NEW i \in RecIds
      PROVE  (IF world.docs[i] = Nothing THEN Nothing
              ELSE [pack |-> world.docs[i].pack, space |-> Gives(DecideDoc(world.docs[i], world.graph[i]))])
             = (IF first.docs[i] = Nothing THEN Nothing
                ELSE [pack |-> first.docs[i].pack, space |-> Gives(DecideDoc(first.docs[i], first.graph[i]))])
  <2> DEFINE rec == <<"doc", i>>
  <2>1. rec \in AllRecs /\ RecOf(world, rec) = world.docs[i] /\ RecOf(first, rec) = first.docs[i]
    BY DEF AllRecs, RecOf
  <2>2. (world.docs[i] # Nothing <=> first.docs[i] # Nothing) /\ (first.docs[i] # Nothing => rec \in Stored(first))
    BY <2>1, StoredIs DEF WorldTyped
  <2>3. CASE first.docs[i] = Nothing
    BY <2>2, <2>3
  <2>4. CASE first.docs[i] # Nothing
    <3>1. rec \in Stored(first) /\ FirstDecision(rec) = DecideDoc(first.docs[i], first.graph[i])
      BY <2>2, <2>4 DEF FirstDecision, Decision
    <3>2. CASE world.docs[i] = first.docs[i]
      BY <3>2 DEF WorldTyped
    <3>3. CASE world.docs[i] # first.docs[i]
      <4>1. /\ RecOf(world, rec) = Filled1(rec) /\ RecOf(world, rec).sound
            /\ SpaceOf(world, rec) = FirstDecision(rec).space /\ SpaceOf(world, rec) # Nothing
        BY <2>1, <3>1, <3>3, FillIs
      <4>2. /\ world.docs[i].sound /\ world.docs[i].space # Nothing
            /\ world.docs[i].space = DecideDoc(first.docs[i], first.graph[i]).space
        BY <2>1, <3>1, <4>1 DEF SpaceOf
      <4>3. DecideDoc(world.docs[i], world.graph[i]).space = world.docs[i].space
        BY <4>2 DEF DecideDoc, OwnDecision
      <4>4. world.docs[i].pack = first.docs[i].pack
        BY <3>1, RecsAre, <2>1, <4>1 DEF WorldTyped, Filled1, DocRecord
      <4> QED BY <2>2, <2>4, <4>2, <4>3, <4>4 DEF Gives
    <3> QED BY <3>2, <3>3
  <2> QED BY <2>3, <2>4
<1> QED BY <1>1 DEF Pairs, FirstPairs

LEMMA NowIs ==
    ASSUME WorldTyped, \A rec \in Stored(first) : RecordIs(rec), NEW rec \in Stored(first)
    PROVE  /\ NowDecision(rec).class = "skip_valid" <=> (RecOf(world, rec).sound /\ SpaceOf(world, rec) # Nothing)
           /\ RecOf(world, rec) = RecOf(first, rec) => NowDecision(rec) = FirstDecision(rec)
           /\ NowDecision(rec).class = "apply" <=> (FirstDecision(rec).class = "apply" /\ SpaceOf(world, rec) = Nothing)
           /\ NowDecision(rec).class = "apply" => NowDecision(rec) = FirstDecision(rec)
<1>1. /\ DecisionFits(RecOf(world, rec), NowDecision(rec)) /\ SpaceOf(world, rec) = RecOf(world, rec).space
      /\ RecOf(world, rec).sound \in BOOLEAN
  BY NowFits
<1>2. NowDecision(rec).class = "skip_valid" <=> (RecOf(world, rec).sound /\ SpaceOf(world, rec) # Nothing)
  BY <1>1 DEF DecisionFits
<1>3. ASSUME RecOf(world, rec) = RecOf(first, rec)
      PROVE  NowDecision(rec) = FirstDecision(rec)
  BY PairsStay, <1>3 DEF WorldTyped, RecOf, NowDecision, FirstDecision, Decision
<1>4. NowDecision(rec).class = "apply" => SpaceOf(world, rec) = Nothing
  BY <1>1 DEF DecisionFits
<1> HIDE DEF NowDecision, FirstDecision
<1>5. \/ RecOf(world, rec) = RecOf(first, rec) /\ (FirstDecision(rec).class = "apply" => SpaceOf(world, rec) = Nothing)
      \/ FirstDecision(rec).class = "apply" /\ RecOf(world, rec).sound /\ SpaceOf(world, rec) # Nothing
  BY FillIs
<1> QED BY <1>2, <1>3, <1>4, <1>5

\* Every row of a plan is written when its turn comes.
LEMMA PlanHolds ==
    ASSUME BackInv, Undisturbed, others = 0, job.at = "write", NEW p \in job.left
    PROVE  /\ StillHolds(p) /\ p = <<p[1], p[2]>> /\ p[1] \in Stored(first)
           /\ FirstDecision(p[1]) = Apply(p[2]) /\ SpaceOf(world, p[1]) = Nothing
<1>1. WorldTyped /\ JobTyped /\ PlanFits /\ HasRead
  BY DEF BackInv, HasRead
<1>2. /\ \A rec \in Stored(first) : RecordIs(rec)
      /\ job.docs = FirstPairs /\ FirstDecision(p[1]) = Apply(p[2]) /\ SpaceOf(world, p[1]) = Nothing
  BY <1>1 DEF Undisturbed, ToDo
<1>3. /\ \A h \in job.held : h[1] \in Scope
      /\ \A q \in job.plan : q = <<q[1], q[2]>> /\ <<q[1], "apply">> \in job.held
      /\ job.left \subseteq job.plan
  BY <1>1 DEF PlanFits
<1>4. p = <<p[1], p[2]>> /\ p[1] \in Stored(first)
  BY <1>3 DEF Scope
<1>5. NowDecision(p[1]) = Apply(p[2])
  BY <1>1, <1>2, <1>4, NowIs DEF Apply
<1>6. Decision(world, job.graph, job.docs, p[1]) = Apply(p[2])
  BY <1>1, <1>2, PairsStay, <1>5 DEF WorldTyped, JobTyped, NowDecision
<1> QED BY <1>1, <1>2, <1>4, <1>6 DEF StillHolds, WorldTyped

-----------------------------------------------------------------------------
(* An undisturbed history stays one.                                        *)

\* What the invariant says of the run that is under way.
RunIs ==
    /\ job.docs = FirstPairs
    /\ job.held = {<<rec, IF rec \in DoneRecs THEN "apply" ELSE NowDecision(rec).class>> : rec \in Scope}
    /\ job.count = Cardinality(Scope)
    /\ \A p \in ToDo : FirstDecision(p[1]) = Apply(p[2]) /\ SpaceOf(world, p[1]) = Nothing
    /\ ~job.limited => \A rec \in Scope :
          FirstDecision(rec).class = "apply" /\ SpaceOf(world, rec) = Nothing =>
              <<rec, FirstDecision(rec).space>> \in ToDo
    /\ \A p \in job.done : FirstDecision(p[1]) = Apply(p[2]) /\ SpaceOf(world, p[1]) = p[2]
CleanIs ==
    job.at = "clean" /\ ~job.limited => \A rec \in Stored(first) :
        FirstDecision(rec).class = "apply" => SpaceOf(world, rec) # Nothing
RecordsAre == \A rec \in Stored(first) : RecordIs(rec)

LEMMA UndisturbedIs ==
    Undisturbed <=> (others = 0 => RecordsAre /\ (HasRead => RunIs) /\ CleanIs /\ job.at # "mismatch")
BY DEF Undisturbed, RunIs, CleanIs, RecordsAre

LEMMA InitUndisturbed == BackfillInit => Undisturbed
BY UndisturbedIs DEF BackfillInit, RecordsAre, RecordIs, Resting, HasRead, CleanIs

\* Steps that change neither the stores nor what they were first.
LEMMA RecordsStay ==
    ASSUME RecordsAre, UNCHANGED <<world, first>>
    PROVE  RecordsAre'
BY DEF RecordsAre, RecordIs, Filled1, FirstDecision, FirstPairs

LEMMA RestUndisturbed ==
    ASSUME RecordsAre', job' = Resting
    PROVE  Undisturbed'
BY DEF Resting, HasRead, CleanIs, Undisturbed, RunIs, RecordsAre

LEMMA ScanGraphUndisturbed == BackInv /\ Undisturbed /\ ScanGraph => Undisturbed'
BY RecordsStay, UndisturbedIs DEF Undisturbed, ScanGraph, Resting, HasRead, CleanIs, RecordsAre

LEMMA ScanDocsUndisturbed == BackInv /\ Undisturbed /\ ScanDocs => Undisturbed'
<1> SUFFICES ASSUME BackInv, Undisturbed, ScanDocs, others' = 0 PROVE Undisturbed'
  BY DEF Undisturbed
<1>1. /\ job.at = "scan" /\ UNCHANGED <<world, first, scans, others>>
      /\ job'.at = "scan"
      /\ job'.done = {} /\ job'.docs = Pairs(world.docs, world.graph)
      /\ Scope' = {rec \in Stored(world) : rec[1] = "doc"}
      /\ job'.held = {<<rec, NowDecision(rec).class>> : rec \in Scope'}
      /\ job'.plan = {<<rec, NowDecision(rec).space>> : rec \in {r \in Scope' : NowDecision(r).class = "apply"}}
      /\ job'.count = Cardinality(Scope')
  BY ScanDocsPlans
<1>2. RecordsAre /\ WorldTyped /\ Stored(world) = Stored(first)
  BY <1>1, UndisturbedIs DEF BackInv, WorldTyped
<1>3. RecordsAre' /\ FirstPairs' = FirstPairs
  BY <1>1, <1>2, RecordsStay DEF FirstPairs
<1>4. \A rec : FirstDecision(rec)' = FirstDecision(rec) /\ NowDecision(rec)' = NowDecision(rec)
               /\ SpaceOf(world', rec) = SpaceOf(world, rec)
  BY <1>1 DEF FirstDecision, FirstPairs, NowDecision
<1>5. job'.docs = FirstPairs'
  BY <1>1, <1>2, <1>3, PairsStay DEF RecordsAre
<1>6. \A rec \in Scope' :
        /\ NowDecision(rec).class = "apply" <=> (FirstDecision(rec).class = "apply" /\ SpaceOf(world, rec) = Nothing)
        /\ NowDecision(rec).class = "apply" => NowDecision(rec) = FirstDecision(rec) /\ FirstDecision(rec) = Apply(NowDecision(rec).space)
  BY <1>1, <1>2, NowFits, NowIs DEF RecordsAre, DecisionFits
<1>7. ToDo' = job'.plan /\ DoneRecs' = {}
  BY <1>1 DEF ToDo, DoneRecs
<1>8. RunIs'
  <2>1. \A p \in job'.plan : FirstDecision(p[1]) = Apply(p[2]) /\ SpaceOf(world, p[1]) = Nothing
    <3> HIDE DEF FirstDecision, NowDecision
    <3>1. \A p \in job'.plan : p[1] \in Scope' /\ NowDecision(p[1]).class = "apply" /\ p[2] = NowDecision(p[1]).space
      BY <1>1
    <3> QED BY <1>6, <3>1
  <2>2. \A rec \in Scope' : FirstDecision(rec).class = "apply" /\ SpaceOf(world, rec) = Nothing =>
              <<rec, FirstDecision(rec).space>> \in job'.plan
    <3> HIDE DEF FirstDecision, NowDecision
    <3> QED BY <1>1, <1>6
  <2>3. job'.held = {<<rec, IF rec \in DoneRecs' THEN "apply" ELSE NowDecision(rec)'.class>> : rec \in Scope'}
    BY <1>1, <1>4, <1>7
  <2> HIDE DEF FirstDecision, NowDecision, ToDo, DoneRecs, Scope
  <2> QED BY <1>1, <1>4, <1>5, <1>7, <2>1, <2>2, <2>3 DEF RunIs
<1>9. CleanIs' /\ job'.at # "mismatch"
  BY <1>1 DEF CleanIs
<1> QED BY <1>3, <1>8, <1>9 DEF Undisturbed, RecordsAre, CleanIs, RunIs

PairsAgree == Pairs(world.docs, world.graph) = FirstPairs

LEMMA PairsStayNow == WorldTyped /\ RecordsAre => PairsAgree
BY PairsStay DEF RecordsAre, PairsAgree

LEMMA PairsStayNext == WorldTyped' /\ RecordsAre' => PairsAgree'
BY PairsStayNow, PTL

LEMMA ScanVectorsUndisturbed == BackInv /\ Undisturbed /\ ScanVectors => Undisturbed'
<1> SUFFICES ASSUME BackInv, Undisturbed, ScanVectors, others' = 0 PROVE Undisturbed'
  BY DEF Undisturbed
<1> DEFINE vecs == {rec \in Stored(first) : rec[1] = "vector"}
           of(rec) == Decision(world, world.graph, job.docs, rec)
           planned == {<<rec, of(rec).space>> : rec \in {r \in vecs : of(r).class = "apply"}}
<1>1. /\ job.at = "scan" /\ HasRead /\ UNCHANGED <<world, first, scans, others>>
      /\ Scope' = Stored(first) /\ Stored(first) = Scope \cup vecs /\ Scope \cap vecs = {}
      /\ job'.at = "write" /\ job'.done = {} /\ job'.docs = job.docs /\ job'.limited = job.limited
      /\ job'.plan = job.plan \cup planned /\ job'.left = job.plan \cup planned
      /\ job'.held = job.held \cup {<<rec, of(rec).class>> : rec \in vecs}
      /\ job'.count = job.count + Cardinality(vecs)
  BY ScanVectorsPlans
<1>2. RecordsAre /\ WorldTyped /\ RunIs /\ Stored(world) = Stored(first) /\ job.done = {}
  BY <1>1, UndisturbedIs DEF BackInv, WorldTyped, JobTyped
<1>3. RecordsAre' /\ FirstPairs' = FirstPairs
  BY <1>1, <1>2, RecordsStay DEF FirstPairs
<1>4. \A rec : FirstDecision(rec)' = FirstDecision(rec) /\ NowDecision(rec)' = NowDecision(rec)
               /\ SpaceOf(world', rec) = SpaceOf(world, rec)
  BY <1>1 DEF FirstDecision, FirstPairs, NowDecision
<1>5. \A rec : of(rec) = NowDecision(rec)
  BY <1>2, PairsStay DEF RunIs, RecordsAre, NowDecision
<1>6. \A rec \in Stored(first) :
        /\ NowDecision(rec).class = "apply" <=> (FirstDecision(rec).class = "apply" /\ SpaceOf(world, rec) = Nothing)
        /\ NowDecision(rec).class = "apply" => NowDecision(rec) = FirstDecision(rec) /\ FirstDecision(rec) = Apply(NowDecision(rec).space)
  BY <1>2, NowFits, NowIs DEF RecordsAre, DecisionFits
<1>7. ToDo' = job'.left /\ DoneRecs' = {} /\ DoneRecs = {} /\ ToDo = job.plan
  BY <1>1, <1>2 DEF ToDo, DoneRecs
<1>8. job'.count = Cardinality(Scope')
  <2>1. IsFiniteSet(Scope) /\ IsFiniteSet(vecs)
    BY <1>1, StoredIsFinite, FS_Subset
  <2>2. Cardinality(Scope \cup vecs) = Cardinality(Scope) + Cardinality(vecs) - Cardinality(Scope \cap vecs)
    BY <2>1, FS_Union
  <2>3. Cardinality(Scope \cap vecs) = 0 /\ Cardinality(Scope) \in Nat /\ Cardinality(vecs) \in Nat
    BY <1>1, <2>1, FS_EmptySet, FS_CardinalityType
  <2>4. job.count = Cardinality(Scope)
    BY <1>2 DEF RunIs
  <2> HIDE DEF vecs
  <2> QED BY <1>1, <2>2, <2>3, <2>4
<1> HIDE DEF of, FirstDecision, NowDecision
<1>9. job'.held = {<<rec, IF rec \in DoneRecs' THEN "apply" ELSE NowDecision(rec)'.class>> : rec \in Scope'}
  <2>1. job.held = {<<rec, NowDecision(rec).class>> : rec \in Scope}
    BY <1>2, <1>7 DEF RunIs
  <2>2. job'.held = {<<rec, NowDecision(rec).class>> : rec \in Stored(first)}
    <3> HIDE DEF vecs
    <3> QED BY <1>1, <1>5, <2>1
  <2> QED BY <1>1, <1>4, <1>7, <2>2
<1>10. \A p \in ToDo' : FirstDecision(p[1]) = Apply(p[2]) /\ SpaceOf(world, p[1]) = Nothing
  <2>1. \A p \in planned : p[1] \in Stored(first) /\ NowDecision(p[1]).class = "apply" /\ p[2] = NowDecision(p[1]).space
    BY <1>1, <1>5
  <2>2. \A p \in job.plan : FirstDecision(p[1]) = Apply(p[2]) /\ SpaceOf(world, p[1]) = Nothing
    BY <1>2, <1>7 DEF RunIs
  <2> HIDE DEF planned
  <2> QED BY <1>1, <1>6, <1>7, <2>1, <2>2
<1>11. ~job.limited => \A rec \in Scope' : FirstDecision(rec).class = "apply" /\ SpaceOf(world, rec) = Nothing =>
              <<rec, FirstDecision(rec).space>> \in ToDo'
  <2> SUFFICES ASSUME ~job.limited, NEW rec \in Stored(first), FirstDecision(rec).class = "apply", SpaceOf(world, rec) = Nothing
               PROVE  <<rec, FirstDecision(rec).space>> \in job'.left
    BY <1>1, <1>7
  <2>1. CASE rec \in Scope
    BY <1>2, <1>7, <2>1, <1>1 DEF RunIs
  <2>2. CASE rec \in vecs
    BY <1>6, <1>1, <1>5, <2>2
  <2> HIDE DEF vecs
  <2> QED BY <1>1, <2>1, <2>2
<1>12. RunIs'
  <2>1. job'.docs = FirstPairs'
    BY <1>1, <1>2, <1>3 DEF RunIs
  <2> HIDE DEF ToDo, DoneRecs, Scope, vecs, planned
  <2> QED BY <1>1, <1>4, <1>8, <1>9, <1>10, <1>11, <2>1 DEF RunIs
<1>13. CleanIs' /\ job'.at # "mismatch"
  BY <1>1 DEF CleanIs
<1> QED BY <1>3, <1>12, <1>13 DEF Undisturbed, RecordsAre, CleanIs, RunIs

\* Undisturbed, a batch writes all of it: each record of it is filled.
LEMMA BatchFills ==
    ASSUME BackInv, Undisturbed, others = 0, WriteBatch, NEW batch \in SUBSET job.left, job.at = "write",
           \A rec \in AllRecs : BatchEffect(batch, rec)
    PROVE  /\ Good(batch) = batch
           /\ \A rec \in Stored(first) :
                 \/ RecOf(world', rec) = RecOf(world, rec) /\ SpaceOf(world', rec) = SpaceOf(world, rec)
                    /\ (\A p \in batch : p[1] # rec)
                 \/ \E p \in batch : /\ p = <<rec, p[2]>> /\ FirstDecision(rec) = Apply(p[2])
                                     /\ SpaceOf(world, rec) = Nothing /\ SpaceOf(world', rec) = p[2] /\ p[2] \in GrSpaces
                                     /\ RecOf(world', rec) = Filled1(rec)
<1>1. WorldTyped /\ RecordsAre /\ Stored(world) = Stored(first) /\ Stored(first) \subseteq AllRecs
  BY UndisturbedIs, StoredIsFinite DEF BackInv, WorldTyped
<1>2. \A p \in batch : /\ StillHolds(p) /\ p = <<p[1], p[2]>> /\ p[1] \in Stored(first)
                       /\ FirstDecision(p[1]) = Apply(p[2]) /\ SpaceOf(world, p[1]) = Nothing
  BY PlanHolds
<1>3. Good(batch) = batch
  BY <1>2 DEF Good
<1>4. ASSUME NEW rec \in Stored(first)
      PROVE  \/ RecOf(world', rec) = RecOf(world, rec) /\ SpaceOf(world', rec) = SpaceOf(world, rec)
                /\ (\A p \in batch : p[1] # rec)
             \/ \E p \in batch : /\ p = <<rec, p[2]>> /\ FirstDecision(rec) = Apply(p[2])
                                 /\ SpaceOf(world, rec) = Nothing /\ SpaceOf(world', rec) = p[2] /\ p[2] \in GrSpaces
                                 /\ RecOf(world', rec) = Filled1(rec)
  <2>1. BatchEffect(batch, rec)
    BY <1>1
  <2>2. /\ RecOf(world, rec) \in DocRecord \cup VecRecord
        /\ SpaceOf(world, rec) = RecOf(world, rec).space /\ SpaceOf(world', rec) = RecOf(world', rec).space
    BY <1>1, RecsAre DEF WorldTyped, SpaceOf, RecOf
  <2>3. CASE RecOf(world', rec) = RecOf(world, rec) /\ \A p \in Good(batch) : p[1] # rec
    BY <1>3, <2>2, <2>3
  <2>4. CASE \E p \in Good(batch) :
          /\ p[1] = rec /\ p[2] \in GrSpaces
          /\ RecOf(world', rec) = [RecOf(world, rec) EXCEPT !.space = p[2]]
    <3>1. PICK p \in batch : /\ p[1] = rec /\ p[2] \in GrSpaces
                             /\ RecOf(world', rec) = [RecOf(world, rec) EXCEPT !.space = p[2]]
      BY <1>3, <2>4
    <3>2. p = <<rec, p[2]>> /\ FirstDecision(rec) = Apply(p[2]) /\ SpaceOf(world, rec) = Nothing
      BY <1>2, <3>1
    <3>3. RecOf(world, rec) = RecOf(first, rec)
      BY <1>1, <3>2, FillIs DEF RecordsAre
    <3>4. RecOf(world', rec) = Filled1(rec) /\ RecOf(world', rec).space = p[2]
      BY <2>2, <3>1, <3>2, <3>3, RespacedIs DEF Filled1, Apply
    <3> QED BY <2>2, <3>1, <3>2, <3>4
  <2> QED BY <2>1, <2>3, <2>4 DEF BatchEffect
<1> QED BY <1>3, <1>4

LEMMA BatchUndisturbed == BackInv /\ Undisturbed /\ WriteBatch => Undisturbed'
<1> SUFFICES ASSUME BackInv, Undisturbed, WriteBatch, others' = 0 PROVE Undisturbed'
  BY DEF Undisturbed
<1>0. UNCHANGED <<first, scans, others>> /\ others = 0
  BY DEF WriteBatch
<1>1. PICK batch \in SUBSET job.left :
        /\ job.at = "write" /\ \A rec \in AllRecs : BatchEffect(batch, rec)
        /\ \/ job' = [job EXCEPT !.left = @ \ batch, !.done = @ \cup Good(batch),
                                 !.skipped = @ \/ Good(batch) # batch]
           \/ job' = Resting
  BY BatchWrites
<1>2. /\ Good(batch) = batch
      /\ \A rec \in Stored(first) :
                 \/ RecOf(world', rec) = RecOf(world, rec) /\ SpaceOf(world', rec) = SpaceOf(world, rec)
                    /\ (\A p \in batch : p[1] # rec)
                 \/ \E p \in batch : /\ p = <<rec, p[2]>> /\ FirstDecision(rec) = Apply(p[2])
                                     /\ SpaceOf(world, rec) = Nothing /\ SpaceOf(world', rec) = p[2] /\ p[2] \in GrSpaces
                                     /\ RecOf(world', rec) = Filled1(rec)
  BY <1>0, <1>1, BatchFills
<1>3. \A rec : FirstDecision(rec)' = FirstDecision(rec) /\ Filled1(rec)' = Filled1(rec) /\ RecOf(first', rec) = RecOf(first, rec)
  BY <1>0 DEF FirstDecision, FirstPairs, Filled1
<1>4. HasRead /\ RecordsAre /\ RunIs /\ WorldTyped /\ PlanFits
  BY <1>0, <1>1, UndisturbedIs DEF BackInv, HasRead
<1>5. RecordsAre'
  BY <1>0, <1>3, <1>4, <1>2 DEF RecordsAre, RecordIs, Apply
<1>6. CASE job' = Resting
  BY <1>5, <1>6, RestUndisturbed
<1>7. CASE job' = [job EXCEPT !.left = @ \ batch, !.done = @ \cup Good(batch), !.skipped = @ \/ Good(batch) # batch]
  <2>1. /\ job'.at = "write" /\ job'.docs = job.docs /\ job'.held = job.held /\ job'.plan = job.plan
        /\ job'.left = job.left \ batch /\ job'.done = job.done \cup batch
        /\ job'.limited = job.limited /\ job'.count = job.count
    BY <1>1, <1>2, <1>7 DEF BackInv, JobTyped
  <2>2. Scope = Stored(first) /\ Scope' = Stored(first) /\ ToDo = job.left /\ ToDo' = job'.left
        /\ DoneRecs' = DoneRecs \cup {p[1] : p \in batch}
    BY <1>0, <1>1, <2>1 DEF Scope, ToDo, DoneRecs
  <2>3. WorldTyped'
    BY BatchKeeps DEF BackInv
  <2>4. ASSUME NEW rec \in Stored(first)
        PROVE  \/ /\ rec \notin {p[1] : p \in batch} /\ NowDecision(rec)' = NowDecision(rec)
                  /\ SpaceOf(world', rec) = SpaceOf(world, rec)
               \/ /\ rec \in {p[1] : p \in batch} /\ SpaceOf(world, rec) = Nothing /\ SpaceOf(world', rec) # Nothing
                  /\ NowDecision(rec).class = "apply" /\ rec \notin DoneRecs
    <3>1. CASE RecOf(world', rec) = RecOf(world, rec) /\ SpaceOf(world', rec) = SpaceOf(world, rec) /\ \A p \in batch : p[1] # rec
      <4>1. Pairs(world.docs, world.graph)' = Pairs(world.docs, world.graph)
        BY <1>4, PairsStay, <1>5, <2>3, PairsStayNext, <1>0 DEF RecordsAre, PairsAgree, FirstPairs
      <4>2. world'.graph = world.graph
        BY <1>0, <1>4, <2>3 DEF WorldTyped
      <4>3. NowDecision(rec)' = NowDecision(rec)
        BY <3>1, <4>1, <4>2 DEF NowDecision, Decision, RecOf
      <4> QED BY <3>1, <4>3
    <3>2. CASE \E p \in batch : /\ p = <<rec, p[2]>> /\ FirstDecision(rec) = Apply(p[2])
                                /\ SpaceOf(world, rec) = Nothing /\ SpaceOf(world', rec) = p[2] /\ p[2] \in GrSpaces
      <4>1. PICK p \in batch : /\ p = <<rec, p[2]>> /\ FirstDecision(rec) = Apply(p[2])
                               /\ SpaceOf(world, rec) = Nothing /\ SpaceOf(world', rec) = p[2] /\ p[2] \in GrSpaces
        BY <3>2
      <4>2. SpaceOf(world', rec) # Nothing /\ rec \in {q[1] : q \in batch}
        BY <4>1, BackFacts
      <4>3. NowDecision(rec).class = "apply"
        BY <1>4, <4>1, NowIs DEF RecordsAre, Apply
      <4>4. ASSUME rec \in DoneRecs PROVE FALSE
        BY <4>4, <1>1, <1>4, <4>1, BackFacts DEF DoneRecs, RunIs, PlanFits
      <4> QED BY <4>1, <4>2, <4>3, <4>4
    <3> QED BY <1>2, <3>1, <3>2
  <2>5. job'.held = {<<rec, IF rec \in DoneRecs' THEN "apply" ELSE NowDecision(rec)'.class>> : rec \in Scope'}
    <3>1. \A rec \in Stored(first) : (IF rec \in DoneRecs' THEN "apply" ELSE NowDecision(rec)'.class)
                                     = (IF rec \in DoneRecs THEN "apply" ELSE NowDecision(rec).class)
      <4> HIDE DEF NowDecision, DoneRecs
      <4> QED BY <2>2, <2>4
    <3>2. job'.held = {<<rec, IF rec \in DoneRecs THEN "apply" ELSE NowDecision(rec).class>> : rec \in Stored(first)}
      BY <1>4, <2>1, <2>2 DEF RunIs
    <3> HIDE DEF NowDecision, DoneRecs, Scope
    <3> QED BY <2>2, <3>1, <3>2
  <2>6. \A p \in ToDo' : FirstDecision(p[1])' = Apply(p[2]) /\ SpaceOf(world', p[1]) = Nothing
    BY <1>3, <2>1, <2>2, <1>0, <1>1, PlanHolds, <1>4, <2>4 DEF PlanFits, Functional
  <2>7. ~job'.limited => \A rec \in Scope' :
          FirstDecision(rec)'.class = "apply" /\ SpaceOf(world', rec) = Nothing =>
              <<rec, FirstDecision(rec)'.space>> \in ToDo'
    BY <1>3, <2>1, <2>2, <2>4, <1>4 DEF RunIs
  <2>8. \A p \in job'.done : FirstDecision(p[1])' = Apply(p[2]) /\ SpaceOf(world', p[1]) = p[2]
    <3>1. ASSUME NEW p \in batch PROVE FirstDecision(p[1]) = Apply(p[2]) /\ SpaceOf(world', p[1]) = p[2]
      BY <1>0, <1>1, PlanHolds, <1>2, <1>4 DEF PlanFits, Functional
    <3>2. ASSUME NEW p \in job.done PROVE FirstDecision(p[1]) = Apply(p[2]) /\ SpaceOf(world', p[1]) = p[2]
      BY <1>4, <1>1, <2>2, <2>4 DEF RunIs, PlanFits, DoneRecs
    <3> QED BY <1>3, <2>1, <3>1, <3>2
  <2>9. job'.docs = FirstPairs' /\ job'.count = Cardinality(Scope')
    BY <1>0, <1>4, <2>1, <2>2 DEF RunIs, FirstPairs
  <2>10. RunIs'
    BY <2>5, <2>6, <2>7, <2>8, <2>9 DEF RunIs
  <2>11. CleanIs' /\ job'.at # "mismatch"
    BY <2>1 DEF CleanIs
  <2> QED BY <1>5, <2>10, <2>11 DEF Undisturbed, RecordsAre, CleanIs, RunIs
<1> QED BY <1>1, <1>6, <1>7

-----------------------------------------------------------------------------
(* The reconciliation.                                                      *)

\* The records of a store that a scan does not find valid, by the classes of a scan.
Invalid(R, C, s) == {rec \in R : rec[1] = s /\ C[rec] # "skip_valid"}

\* The entries of a scan are as many as the records they are about.
LEMMA ClassCount ==
    ASSUME NEW R, IsFiniteSet(R), NEW C, NEW s, NEW H, H = {<<rec, C[rec]>> : rec \in R}
    PROVE  /\ Cardinality({h \in H : h[1][1] = s /\ h[2] # "skip_valid"}) = Cardinality(Invalid(R, C, s))
           /\ IsFiniteSet(Invalid(R, C, s))
<1> DEFINE without == {h \in H : h[1][1] = s /\ h[2] # "skip_valid"}
           recs == Invalid(R, C, s)
<1>1. IsFiniteSet(recs)
  BY FS_Subset DEF Invalid
<1>2. \A h \in without : h[1] \in recs /\ h = <<h[1], C[h[1]]>>
  BY DEF Invalid
<1>3. \A rec \in recs : <<rec, C[rec]>> \in without
  BY DEF Invalid
<1> HIDE DEF without, recs
<1>4. \A rec \in recs : \E h \in without : h[1] = rec
  BY <1>3
<1>5. Functional(without)
  BY <1>2 DEF Functional
<1>6. Cardinality(without) = Cardinality(recs)
  BY <1>1, <1>2, <1>4, <1>5, PairsCount
<1> QED BY <1>1, <1>6 DEF without, recs

\* What was committed to a store.
DoneOf(s) == {rec \in DoneRecs : rec[1] = s}

LEMMA DoneCount ==
    ASSUME BackInv, job.at = "write", NEW s
    PROVE  /\ Cardinality({p \in job.done : p[1][1] = s}) = Cardinality(DoneOf(s))
           /\ IsFiniteSet(DoneOf(s)) /\ DoneRecs \subseteq Stored(first)
<1>1. HasRead /\ PlanFits /\ WorldTyped
  BY DEF BackInv, HasRead
<1>2. ASSUME NEW p \in job.done PROVE p[1] \in Stored(first)
  BY <1>1 DEF PlanFits, Scope
<1>3. DoneRecs \subseteq Stored(first)
  BY <1>2 DEF DoneRecs
<1>4. IsFiniteSet(DoneOf(s))
  BY <1>3, StoredIsFinite, FS_Subset DEF DoneOf
<1> DEFINE D == {p \in job.done : p[1][1] = s}
<1>5. Functional(D)
  BY <1>1 DEF Functional, PlanFits
<1>6. /\ \A p \in D : p[1] \in DoneOf(s)
      /\ \A rec \in DoneOf(s) : \E p \in D : p[1] = rec
  BY DEF DoneOf, DoneRecs
<1> HIDE DEF D
<1>7. Cardinality(D) = Cardinality(DoneOf(s))
  BY <1>4, <1>5, <1>6, PairsCount
<1> QED BY <1>3, <1>4, <1>7 DEF D

\* The classes that a scan would give now, and those of the scan of the run.
NowClasses == [rec \in Stored(first) |-> NowDecision(rec).class]
HeldClass(rec) == (CHOOSE h \in job.held : h[1] = rec)[2]
HeldClasses == [rec \in Stored(first) |-> HeldClass(rec)]

LEMMA HeldIs ==
    ASSUME BackInv, job.at = "write"
    PROVE  /\ job.held = {<<rec, HeldClasses[rec]>> : rec \in Stored(first)}
           /\ \A p \in job.plan : p[1] \in Stored(first) /\ HeldClasses[p[1]] = "apply" /\ p[2] \in GrSpaces
                                  /\ RecOf(world, p[1]).sound
           /\ \A rec \in Stored(first) : HeldClasses[rec] = "skip_valid" =>
                  RecOf(world, rec).sound /\ SpaceOf(world, rec) # Nothing
<1>1. HasRead /\ PlanFits /\ WorldTyped /\ Scope = Stored(first)
  BY DEF BackInv, HasRead, Scope
<1>2. /\ \A h \in job.held : h = <<h[1], h[2]>> /\ h[1] \in Stored(first)
      /\ \A rec \in Stored(first) : \E h \in job.held : h[1] = rec
      /\ Functional(job.held)
      /\ \A h \in job.held :
              /\ h[2] = "skip_valid" => RecOf(world, h[1]).sound /\ SpaceOf(world, h[1]) # Nothing
              /\ h[2] = "apply" => RecOf(world, h[1]).sound
      /\ \A p \in job.plan : <<p[1], "apply">> \in job.held /\ p[2] \in GrSpaces
  BY <1>1 DEF PlanFits
<1>3. \A rec \in Stored(first) : <<rec, HeldClass(rec)>> \in job.held
  <2> SUFFICES ASSUME NEW rec \in Stored(first) PROVE <<rec, HeldClass(rec)>> \in job.held
    OBVIOUS
  <2> DEFINE h == CHOOSE h \in job.held : h[1] = rec
  <2>1. h \in job.held /\ h[1] = rec
    BY <1>2
  <2>2. h = <<h[1], h[2]>>
    BY <1>2, <2>1
  <2> QED BY <2>1, <2>2 DEF HeldClass
<1>4. \A h \in job.held : h = <<h[1], HeldClass(h[1])>> /\ h[2] = HeldClass(h[1])
  <2> SUFFICES ASSUME NEW h \in job.held PROVE h = <<h[1], HeldClass(h[1])>> /\ h[2] = HeldClass(h[1])
    OBVIOUS
  <2>1. <<h[1], HeldClass(h[1])>> \in job.held
    BY <1>2, <1>3
  <2>2. h = <<h[1], HeldClass(h[1])>>
    BY <1>2, <2>1 DEF Functional
  <2> QED BY <2>2
<1>5. job.held = {<<rec, HeldClasses[rec]>> : rec \in Stored(first)}
  BY <1>2, <1>3, <1>4 DEF HeldClasses
<1>6. \A p \in job.plan : p[1] \in Stored(first) /\ HeldClasses[p[1]] = "apply" /\ p[2] \in GrSpaces
                          /\ RecOf(world, p[1]).sound
  BY <1>2, <1>4 DEF HeldClasses
<1>7. \A rec \in Stored(first) : HeldClasses[rec] = "skip_valid" =>
                  RecOf(world, rec).sound /\ SpaceOf(world, rec) # Nothing
  BY <1>3, <1>2 DEF HeldClasses
<1> QED BY <1>5, <1>6, <1>7

\* What the reconciliation compares, of records.
LEMMA ReconcilesIs ==
    ASSUME BackInv, job.at = "write"
    PROVE  /\ Reconciles => \A s \in {"doc", "vector"} :
                Cardinality(Invalid(Stored(first), NowClasses, s))
                    = Cardinality(Invalid(Stored(first), HeldClasses, s)) - Cardinality(DoneOf(s))
           /\ Reconciles => \A p \in job.done : SpaceOf(world, p[1]) = p[2]
           /\ /\ Cardinality(Stored(first)) = job.count
              /\ \A rec \in Stored(first) :
                    HeldClasses[rec] # NowClasses[rec] =>
                        {HeldClasses[rec], NowClasses[rec]} \subseteq {"apply", "skip_valid"}
              /\ \A s \in {"doc", "vector"} :
                    Cardinality(Invalid(Stored(first), NowClasses, s))
                        = Cardinality(Invalid(Stored(first), HeldClasses, s)) - Cardinality(DoneOf(s))
              /\ \A p \in job.done : SpaceOf(world, p[1]) = p[2]
              => Reconciles
<1> DEFINE pairs == Pairs(world.docs, world.graph)
           now == {<<rec, Decision(world, world.graph, pairs, rec).class>> : rec \in Stored(world)}
           holds(s) == {h \in s : h[2] \notin {"apply", "skip_valid"}}
           spaceless(s, store) == Cardinality({h \in s : h[1][1] = store /\ h[2] # "skip_valid"})
           committed(store) == Cardinality({p \in job.done : p[1][1] = store})
<1>1. Reconciles <=>
       /\ Cardinality(Stored(world)) = job.count
       /\ holds(now) = holds(job.held)
       /\ \A s \in {"doc", "vector"} : spaceless(now, s) = spaceless(job.held, s) - committed(s)
       /\ \A p \in job.done : SpaceOf(world, p[1]) = p[2]
  BY DEF Reconciles
<1>2. Stored(world) = Stored(first) /\ IsFiniteSet(Stored(first))
  BY StoredIsFinite DEF BackInv, WorldTyped
<1>3. now = {<<rec, NowClasses[rec]>> : rec \in Stored(first)}
  BY <1>2 DEF NowClasses, NowDecision
<1>4. job.held = {<<rec, HeldClasses[rec]>> : rec \in Stored(first)}
  BY HeldIs
<1> HIDE DEF now
<1>5. \A s : /\ spaceless(now, s) = Cardinality(Invalid(Stored(first), NowClasses, s))
             /\ spaceless(job.held, s) = Cardinality(Invalid(Stored(first), HeldClasses, s))
  <2> SUFFICES ASSUME NEW s
               PROVE  /\ spaceless(now, s) = Cardinality(Invalid(Stored(first), NowClasses, s))
                      /\ spaceless(job.held, s) = Cardinality(Invalid(Stored(first), HeldClasses, s))
    OBVIOUS
  <2>1. IsFiniteSet(Stored(first))
    BY <1>2
  <2>r. PICK R : R = Stored(first)
    OBVIOUS
  <2>n. PICK N : N = NowClasses
    OBVIOUS
  <2>d. PICK D : D = HeldClasses
    OBVIOUS
  <2>h. PICK H : H = now
    OBVIOUS
  <2>g. PICK G : G = job.held
    OBVIOUS
  <2>f. /\ IsFiniteSet(R) /\ H = {<<rec, N[rec]>> : rec \in R} /\ G = {<<rec, D[rec]>> : rec \in R}
    BY <2>1, <1>3, <1>4, <2>r, <2>n, <2>d, <2>h, <2>g
  <2>2. Cardinality({h \in H : h[1][1] = s /\ h[2] # "skip_valid"}) = Cardinality(Invalid(R, N, s))
    BY ONLY <2>f, ClassCount
  <2>3. Cardinality({h \in G : h[1][1] = s /\ h[2] # "skip_valid"}) = Cardinality(Invalid(R, D, s))
    BY ONLY <2>f, ClassCount
  <2> QED BY <2>2, <2>3, <2>r, <2>n, <2>d, <2>h, <2>g
<1>6. \A s : committed(s) = Cardinality(DoneOf(s))
  BY DoneCount
<1>7. ASSUME \A rec \in Stored(first) :
                    HeldClasses[rec] # NowClasses[rec] =>
                        {HeldClasses[rec], NowClasses[rec]} \subseteq {"apply", "skip_valid"}
      PROVE  holds(now) = holds(job.held)
  BY <1>3, <1>4, <1>7
<1> HIDE DEF holds, spaceless, committed
<1> QED BY <1>1, <1>2, <1>5, <1>6, <1>7

LEMMA UndisturbedReconciles ==
    ASSUME BackInv, Undisturbed, others = 0, job.at = "write"
    PROVE  Reconciles
<1>1. HasRead /\ PlanFits /\ WorldTyped /\ RecordsAre /\ RunIs /\ Scope = Stored(first) /\ Stored(world) = Stored(first)
  BY UndisturbedIs DEF BackInv, HasRead, Scope, WorldTyped
<1>2. Cardinality(Stored(first)) = job.count /\ \A p \in job.done : SpaceOf(world, p[1]) = p[2]
  BY <1>1 DEF RunIs
<1>3. ASSUME NEW rec \in Stored(first)
      PROVE  /\ rec \notin DoneRecs => HeldClasses[rec] = NowClasses[rec]
             /\ rec \in DoneRecs => HeldClasses[rec] = "apply" /\ NowClasses[rec] = "skip_valid"
  <2>1. \A e \in Stored(first) : <<e, HeldClasses[e]>> \in job.held
    BY HeldIs
  <2>2. PICK e \in Stored(first) : <<rec, HeldClasses[rec]>> = <<e, IF e \in DoneRecs THEN "apply" ELSE NowDecision(e).class>>
    BY <1>1, <2>1 DEF RunIs
  <2>3. HeldClasses[rec] = (IF rec \in DoneRecs THEN "apply" ELSE NowDecision(rec).class)
    BY <2>2
  <2>4. ASSUME rec \in DoneRecs PROVE NowDecision(rec).class = "skip_valid"
    <3>1. PICK p \in job.done : p[1] = rec
      BY <2>4 DEF DoneRecs
    <3>2. p \in job.plan /\ SpaceOf(world, rec) = p[2]
      BY <1>1, <1>2, <3>1 DEF PlanFits
    <3>3. p[2] \in GrSpaces /\ RecOf(world, rec).sound
      BY <3>1, <3>2, HeldIs
    <3>4. RecOf(world, rec).sound /\ SpaceOf(world, rec) # Nothing
      BY <3>2, <3>3, BackFacts
    <3> HIDE DEF NowDecision
    <3> QED BY <1>1, <3>4, NowIs DEF RecordsAre
  <2> QED BY <2>3, <2>4 DEF NowClasses
<1>4. \A rec \in Stored(first) : HeldClasses[rec] # NowClasses[rec] =>
                        {HeldClasses[rec], NowClasses[rec]} \subseteq {"apply", "skip_valid"}
  BY <1>3
<1>5. ASSUME NEW s
      PROVE  Cardinality(Invalid(Stored(first), NowClasses, s))
                = Cardinality(Invalid(Stored(first), HeldClasses, s)) - Cardinality(DoneOf(s))
  <2>1. DoneRecs \subseteq Stored(first) /\ IsFiniteSet(DoneOf(s))
    BY DoneCount
  <2>2. Invalid(Stored(first), HeldClasses, s) = Invalid(Stored(first), NowClasses, s) \cup DoneOf(s)
    BY <1>3, <2>1 DEF Invalid, DoneOf
  <2>3. Invalid(Stored(first), NowClasses, s) \cap DoneOf(s) = {}
    BY <1>3 DEF Invalid, DoneOf
  <2>4. IsFiniteSet(Invalid(Stored(first), NowClasses, s))
    BY StoredIsFinite, FS_Subset DEF Invalid
  <2> DEFINE A == Invalid(Stored(first), NowClasses, s)
             B == DoneOf(s)
  <2>5. Cardinality(A \cup B) = Cardinality(A) + Cardinality(B) - Cardinality(A \cap B)
    BY <2>1, <2>4, FS_Union
  <2>6. Cardinality(A \cap B) = 0 /\ Cardinality(A) \in Nat /\ Cardinality(B) \in Nat
    BY <2>1, <2>3, <2>4, FS_EmptySet, FS_CardinalityType
  <2> HIDE DEF A, B
  <2>7. Cardinality(A) = Cardinality(A \cup B) - Cardinality(B)
    BY <2>5, <2>6
  <2> QED BY <2>2, <2>7 DEF A, B
<1> QED BY <1>1, <1>2, <1>4, <1>5, ReconcilesIs

LEMMA EndingUndisturbed == BackInv /\ Undisturbed /\ (Limit \/ Reconcile \/ EndRun) => Undisturbed'
<1> SUFFICES ASSUME BackInv, Undisturbed, Limit \/ Reconcile \/ EndRun, others' = 0 PROVE Undisturbed'
  BY DEF Undisturbed
<1>1. UNCHANGED <<world, first, scans, others>> /\ others = 0
  BY DEF Limit, Reconcile, EndRun
<1>2. RecordsAre' /\ RecordsAre
  BY <1>1, RecordsStay, UndisturbedIs
<1>3. CASE EndRun
  BY <1>2, <1>3, RestUndisturbed DEF EndRun
<1>4. CASE Limit
  <2>1. job.at = "write" /\ job' = [job EXCEPT !.left = {}, !.limited = TRUE]
    BY <1>4 DEF Limit
  <2>2. /\ job'.at = "write" /\ job'.docs = job.docs /\ job'.held = job.held /\ job'.count = job.count
        /\ job'.left = {} /\ job'.done = job.done /\ job'.limited = TRUE
    BY <2>1 DEF BackInv, JobTyped
  <2>3. RunIs
    BY <1>1, <2>1, UndisturbedIs DEF HasRead
  <2>4. /\ FirstPairs' = FirstPairs /\ Scope' = Scope /\ DoneRecs' = DoneRecs /\ ToDo' = {}
        /\ \A rec : FirstDecision(rec)' = FirstDecision(rec) /\ NowDecision(rec)' = NowDecision(rec)
                    /\ SpaceOf(world', rec) = SpaceOf(world, rec)
    BY <1>1, <2>1, <2>2 DEF FirstPairs, Scope, DoneRecs, FirstDecision, NowDecision, ToDo
  <2>5. RunIs'
    <3> HIDE DEF FirstDecision, NowDecision, ToDo, DoneRecs, Scope
    <3> QED BY <2>2, <2>3, <2>4 DEF RunIs
  <2>6. CleanIs' /\ job'.at # "mismatch"
    BY <2>2 DEF CleanIs
  <2> QED BY <1>2, <2>5, <2>6 DEF Undisturbed, RecordsAre, CleanIs, RunIs
<1>5. CASE Reconcile
  <2>1. job.at = "write" /\ job.left = {} /\ job' = [job EXCEPT !.at = IF Reconciles THEN "clean" ELSE "mismatch"]
    BY <1>5 DEF Reconcile
  <2>2. Reconciles
    BY <1>1, <2>1, UndisturbedReconciles
  <2>3. job'.at = "clean" /\ job'.limited = job.limited
    BY <2>1, <2>2 DEF BackInv, JobTyped
  <2>4. RunIs /\ ToDo = {} /\ Scope = Stored(first)
    BY <1>1, <2>1, UndisturbedIs DEF HasRead, ToDo, Scope
  <2>5. CleanIs'
    BY <1>1, <2>3, <2>4 DEF CleanIs, FirstDecision, FirstPairs, RunIs
  <2>6. ~HasRead'
    BY <2>3 DEF HasRead
  <2> QED BY <1>2, <2>3, <2>5, <2>6 DEF Undisturbed, RecordsAre, CleanIs
<1> QED BY <1>3, <1>4, <1>5

LEMMA UndisturbedStays == BackInv /\ Undisturbed /\ [BackfillNext]_backfillVars => Undisturbed'
<1> SUFFICES ASSUME BackInv, Undisturbed, [BackfillNext]_backfillVars PROVE Undisturbed'
  OBVIOUS
<1>1. CASE UNCHANGED backfillVars
  <2>1. UNCHANGED <<world, first, job, others>>
    BY <1>1 DEF backfillVars
  <2>2. RecordsAre' <=> RecordsAre
    BY <2>1 DEF RecordsAre, RecordIs, Filled1, FirstDecision, FirstPairs
  <2>3. RunIs' <=> RunIs
    BY <2>1 DEF RunIs, FirstPairs, DoneRecs, NowDecision, FirstDecision, Scope, ToDo
  <2>4. (CleanIs' <=> CleanIs) /\ (HasRead' <=> HasRead)
    BY <2>1 DEF CleanIs, FirstDecision, FirstPairs, HasRead
  <2> QED BY <2>1, <2>2, <2>3, <2>4, UndisturbedIs DEF Undisturbed, RunIs, RecordsAre, CleanIs
<1>2. CASE \E rec \in Stored(world) : OtherWrites(rec)
  BY <1>2 DEF OtherWrites, BackInv, WorldTyped, Undisturbed
<1> QED BY <1>1, <1>2, ScanGraphUndisturbed, ScanDocsUndisturbed, ScanVectorsUndisturbed, BatchUndisturbed,
           EndingUndisturbed DEF BackfillNext

-----------------------------------------------------------------------------
LEMMA BackInvHolds == BackfillSpec => [](BackInv /\ Undisturbed)
<1>1. BackfillInit => BackInv /\ Undisturbed
  BY BackInitHolds, InitUndisturbed
<1>2. BackInv /\ Undisturbed /\ [BackfillNext]_backfillVars => BackInv' /\ Undisturbed'
  BY BackStays, UndisturbedStays
<1> QED BY <1>1, <1>2, PTL DEF BackfillSpec

\* The stores and the stages of a run of scripts/backfill_space.py keep their types.
THEOREM BackfillTypeCorrect == BackfillSpec => []BackfillTypeOK
<1>1. BackInv => BackfillTypeOK
  BY DEF BackInv, WorldTyped, JobTyped, BackfillTypeOK
<1> QED BY <1>1, BackInvHolds, PTL

LEMMA UndisturbedConverges == BackInv /\ Undisturbed => BackfillConverges
<1> SUFFICES ASSUME BackInv, Undisturbed, others = 0, NEW rec \in Stored(first)
             PROVE  /\ SpaceOf(world, rec) \in {SpaceOf(first, rec), Settled(rec)}
                    /\ job.at = "clean" /\ ~job.limited => SpaceOf(world, rec) = Settled(rec)
                    /\ job.at # "mismatch"
  BY DEF BackfillConverges
<1>1. WorldTyped /\ RecordIs(rec) /\ CleanIs /\ job.at # "mismatch"
  BY UndisturbedIs DEF BackInv, RecordsAre
<1>2. Settled(rec) = IF FirstDecision(rec).class = "apply" THEN FirstDecision(rec).space ELSE SpaceOf(first, rec)
  BY DEF Settled, FirstDecision, FirstPairs
<1>3. \/ /\ RecOf(world, rec) = RecOf(first, rec) /\ SpaceOf(world, rec) = SpaceOf(first, rec)
         /\ FirstDecision(rec).class = "apply" => SpaceOf(world, rec) = Nothing
      \/ FirstDecision(rec).class = "apply" /\ SpaceOf(world, rec) = FirstDecision(rec).space
  BY <1>1, FillIs
<1>4. job.at = "clean" /\ ~job.limited /\ FirstDecision(rec).class = "apply" => SpaceOf(world, rec) # Nothing
  BY <1>1 DEF CleanIs
<1> HIDE DEF FirstDecision, Settled
<1> QED BY <1>1, <1>2, <1>3, <1>4

\* However many runs stopped or died before, in whatever batches, the first
\* run that ends clean without a limit has left every record the space that one
\* run over the first stores would have given it; no record ever has another,
\* and without a writer that skips the lock no run reports a mismatch.
THEOREM BackfillEndsSettled == BackfillSpec => []BackfillConverges
BY UndisturbedConverges, BackInvHolds, PTL

-----------------------------------------------------------------------------
(* Spaces stay.                                                             *)

LEMMA BatchSpares ==
    ASSUME BackInv, WriteBatch, NEW rec \in Stored(world), SpaceOf(world, rec) # Nothing
    PROVE  SpaceOf(world', rec) = SpaceOf(world, rec)
BY BatchWrites, StoredIsFinite DEF BatchEffect, SpaceOf, RecOf

LEMMA BatchGoesOn == BackInv /\ WriteBatch => job'.at \in {"write", "idle"}
<1> SUFFICES ASSUME BackInv, WriteBatch PROVE job'.at \in {"write", "idle"}
  OBVIOUS
<1>1. PICK batch \in SUBSET job.left :
        /\ job.at = "write"
        /\ \/ job' = [job EXCEPT !.left = @ \ batch, !.done = @ \cup Good(batch),
                                 !.skipped = @ \/ Good(batch) # batch]
           \/ job' = Resting
  BY BatchWrites
<1>2. CASE job' = Resting
  BY <1>2 DEF Resting
<1>3. CASE job' = [job EXCEPT !.left = @ \ batch, !.done = @ \cup Good(batch), !.skipped = @ \/ Good(batch) # batch]
  BY <1>1, <1>3 DEF BackInv, JobTyped
<1> QED BY <1>1, <1>2, <1>3

\* The counts of a clean run leave no room for a row that another writer gave its space.
LEMMA CleanCounts ==
    ASSUME BackInv, job.at = "write", Reconciles, NEW p \in job.plan, SpaceOf(world, p[1]) # Nothing
    PROVE  p \in job.done
<1> SUFFICES ASSUME p \notin job.done PROVE FALSE
  OBVIOUS
<1> DEFINE s == p[1][1]
           A == Invalid(Stored(first), NowClasses, s)
           B == Invalid(Stored(first), HeldClasses, s)
           C == DoneOf(s)
<1>1. HasRead /\ PlanFits /\ WorldTyped /\ Stored(world) = Stored(first) /\ first \in World
  BY DEF BackInv, HasRead, WorldTyped
<1>2. /\ \A q \in job.plan : q[1] \in Stored(first) /\ HeldClasses[q[1]] = "apply" /\ q[2] \in GrSpaces
                             /\ RecOf(world, q[1]).sound
      /\ \A rec \in Stored(first) : HeldClasses[rec] = "skip_valid" =>
                  RecOf(world, rec).sound /\ SpaceOf(world, rec) # Nothing
  BY HeldIs
<1>3. s \in {"doc", "vector"}
  BY <1>1, <1>2, RecsAre
<1>4. Cardinality(A) = Cardinality(B) - Cardinality(C) /\ \A q \in job.done : SpaceOf(world, q[1]) = q[2]
  BY <1>3, ReconcilesIs
<1>5. \A rec \in Stored(first) : RecOf(world, rec).sound /\ SpaceOf(world, rec) # Nothing => NowClasses[rec] = "skip_valid"
  BY <1>1, NowFits DEF NowClasses, DecisionFits
<1>6. A \subseteq B
  BY <1>2, <1>5 DEF Invalid
<1>7. \A rec \in C : HeldClasses[rec] = "apply" /\ NowClasses[rec] = "skip_valid" /\ rec \in Stored(first) /\ rec[1] = s
  BY <1>1, <1>2, <1>4, <1>5, BackFacts DEF DoneOf, DoneRecs, PlanFits
<1>8. C \subseteq B /\ A \cap C = {}
  BY <1>7 DEF Invalid
<1>9. IsFiniteSet(B) /\ B \subseteq Stored(first)
  BY StoredIsFinite, FS_Subset DEF Invalid
<1>10. p[1] \in B /\ p[1] \notin A
  BY <1>2, <1>5 DEF Invalid
<1>11. p[1] \notin C
  BY <1>1 DEF DoneOf, DoneRecs, PlanFits, Functional
<1> HIDE DEF A, B, C, s
<1>12. A \cup C \subseteq B /\ p[1] \notin A \cup C /\ IsFiniteSet(A) /\ IsFiniteSet(C) /\ IsFiniteSet(A \cup C)
  BY <1>6, <1>8, <1>9, <1>10, <1>11, FS_Subset
<1>13. Cardinality(A \cup C) = Cardinality(A) + Cardinality(C)
  <2>1. Cardinality(A \cup C) = Cardinality(A) + Cardinality(C) - Cardinality(A \cap C)
    BY <1>12, FS_Union
  <2>2. Cardinality(A \cap C) = 0 /\ Cardinality(A) \in Nat /\ Cardinality(C) \in Nat
    BY <1>8, <1>12, FS_EmptySet, FS_CardinalityType
  <2> QED BY <2>1, <2>2
<1>14. Cardinality(A \cup C) = Cardinality(B)
  BY <1>9, <1>12, FS_CardinalityType, <1>4, <1>13
<1>15. A \cup C = B
  BY <1>9, <1>12, <1>14, FS_Subset
<1> QED BY <1>10, <1>12, <1>15

LEMMA StepsSpare ==
    BackInv /\ [BackfillNext]_backfillVars =>
       [/\ others' = others =>
            \A rec \in Stored(world) : SpaceOf(world, rec) # Nothing => SpaceOf(world', rec) = SpaceOf(world, rec)
        /\ job.at # "clean" /\ job'.at = "clean" =>
            \A p \in job'.plan : SpaceOf(world', p[1]) # Nothing /\ ~job.limited => p \in job'.done]_backfillVars
<1> SUFFICES ASSUME BackInv, BackfillNext
             PROVE  /\ others' = others =>
                          \A rec \in Stored(world) : SpaceOf(world, rec) # Nothing => SpaceOf(world', rec) = SpaceOf(world, rec)
                    /\ job.at # "clean" /\ job'.at = "clean" =>
                          \A p \in job'.plan : SpaceOf(world', p[1]) # Nothing /\ ~job.limited => p \in job'.done
  OBVIOUS
<1>1. DOMAIN job = {"at", "graph", "docs", "plan", "left", "done", "held", "count", "skipped", "limited"}
  BY DEF BackInv, JobTyped
<1>2. CASE ScanGraph
  BY <1>2 DEF ScanGraph, Resting
<1>3. CASE ScanDocs
  BY <1>1, <1>3 DEF ScanDocs
<1>4. CASE ScanVectors
  BY <1>1, <1>4 DEF ScanVectors
<1>5. CASE WriteBatch
  BY <1>5, BatchGoesOn, BatchSpares
<1>6. CASE Limit
  BY <1>1, <1>6 DEF Limit
<1>7. CASE Reconcile
  BY <1>1, <1>7, CleanCounts DEF Reconcile
<1>8. CASE EndRun
  BY <1>8 DEF EndRun, Resting
<1>9. CASE \E rec \in Stored(world) : OtherWrites(rec)
  BY <1>9 DEF OtherWrites, BackInv, WorldTyped
<1> QED BY <1>2, <1>3, <1>4, <1>5, <1>6, <1>7, <1>8, <1>9 DEF BackfillNext

\* No batch takes a space from a record that has one; a run that another writer
\* overtook on a row of its plan does not end clean, for its counts differ.
THEOREM BackfillSparesSpaces == BackfillSpec => SpacesStay
<1>1. BackfillSpec => []BackInv
  BY BackInvHolds, PTL
<1> QED BY <1>1, StepsSpare, PTL DEF BackfillSpec, SpacesStay

-----------------------------------------------------------------------------
(***************************************************************************)
(* CleanupRun: what was deleted is in the backup, a changed protected row  *)
(* stops the run after one transaction, a completed rollback is whole.     *)
(***************************************************************************)
ApplySteps == {"backup", "check", "gate", "write", "after", "end", "finish"}
RollbackSteps == {"attempt", "restore", "complete"}
CopyRecs == [rows : [Cands -> States], kept : BOOLEAN, links : {<<>>} \cup ([Links -> States] \X BOOLEAN)]

ToolRecs ==
    [at : {"idle", "tomb"} \cup ApplySteps \cup RollbackSteps, todo : SUBSET Cands, cand : Cands, axis : 1..5,
     unseen : SUBSET Dbs, dirty : BOOLEAN, passed : SUBSET {"graph", "registry"}, full : BOOLEAN, wrote : BOOLEAN,
     copies : Seq(CopyRecs)]

\* A copy of each database up to some, as they were at some time.
CopiesTyped(copies) ==
    /\ copies \in Seq(CopyRecs) /\ Len(copies) <= 4
    /\ \A i \in 1..Len(copies) : Axes[i] = "graph" => copies[i].links \in [Links -> States] \X BOOLEAN

CleanTyped ==
    /\ rows \in [Dbs -> [Cands -> States]]
    /\ links \in [Links -> States] /\ alien \in BOOLEAN
    /\ kept \in [Dbs -> BOOLEAN] /\ sidecar \in BOOLEAN
    /\ tool \in ToolRecs /\ CopiesTyped(tool.copies)
    /\ runDir \in [receipt : Seq(CopyRecs), tomb : BOOLEAN, complete : BOOLEAN,
                   debris : SUBSET {"tmp", "directory", "torn"}]
    /\ CopiesTyped(runDir.receipt) /\ Len(runDir.receipt) \in {0, 4}
    /\ removed \subseteq Dbs \X Cands \X States
    /\ late \in Nat /\ starts \in Nat /\ foreign \in Nat

\* Where the tool is says what the run directory holds.
RunFits ==
    /\ tool.at = "backup" => runDir.receipt = NoReceipt
    /\ tool.at \in ApplySteps \ {"backup"} => runDir.receipt # NoReceipt
    /\ tool.at \in ApplySteps => tool.axis <= 4
    /\ tool.at \in RollbackSteps => runDir.tomb /\ tool.copies = <<>>
    /\ runDir.tomb => runDir.receipt # NoReceipt
    /\ tool.at = "tomb" => runDir.receipt # NoReceipt
    /\ tool.at = "restore" /\ "torn" \in runDir.debris => tool.axis <= 4

\* A row that is still as frozen was so when it was copied.
CopyIsEarlier(copies) ==
    \A i \in 1..Len(copies), c \in Cands : rows[Axes[i]][c] = "frozen" => copies[i].rows[c] = "frozen"

DeletedIsKept ==
    /\ CopyIsEarlier(tool.copies) /\ CopyIsEarlier(runDir.receipt)
    /\ \A r \in removed :
          /\ r[3] = "frozen" /\ runDir.receipt # NoReceipt
          /\ \A i \in 1..4 : Axes[i] = r[1] => runDir.receipt[i].rows[r[2]] = "frozen"

\* Protected rows that changed under the run have been seen or will be.
LateFits ==
    /\ late <= 1
    /\ tool.at \in {"backup", "check", "gate", "write"} => late = 0
    /\ tool.at \in {"after", "end"} /\ ProtectionHolds => late = 0
    /\ tool.at \in {"gate", "write", "after", "end"} => ProtectionHolds \/ tool.unseen # {} \/ tool.dirty

\* A restored file has nothing left to give back.
RestoreFits ==
    /\ tool.at = "restore" => \A r \in removed, i \in 1..4 : r[1] = Axes[i] => tool.axis <= i
    /\ tool.at = "complete" => removed = {} /\ FilesMatch

CleanInv == CleanTyped /\ RunFits /\ DeletedIsKept /\ LateFits /\ RestoreFits

LEMMA AxesAre ==
    /\ Axes[1] = "vector" /\ Axes[2] = "graph" /\ Axes[3] = "document" /\ Axes[4] = "registry"
    /\ Dbs = {"vector", "graph", "document", "registry"}
    /\ \A i \in 1..4 : Axes[i] \in Dbs
    /\ \A a \in Dbs : \E i \in 1..4 : Axes[i] = a
    /\ \A i, j \in 1..4 : Axes[i] = Axes[j] => i = j
BY DEF Axes, Dbs

LEMMA CleanFacts == (CHOOSE c \in Cands : TRUE) \in Cands /\ Links \subseteq SUBSET Cands
BY CleanupAssumption

LEMMA QuietIs ==
    /\ Quiet \in ToolRecs /\ Quiet.at = "idle" /\ Quiet.axis = 1 /\ Quiet.unseen = {} /\ Quiet.dirty = FALSE
    /\ Quiet.wrote = FALSE /\ Quiet.copies = <<>>
BY CleanFacts DEF Quiet, ToolRecs

LEMMA NoCopies == CopiesTyped(<<>>) /\ CopyIsEarlier(<<>>) /\ NoReceipt = <<>>
BY DEF CopiesTyped, CopyIsEarlier, NoReceipt

LEMMA HandleChangeIs ==
    ASSUME NEW t \in ToolRecs
    PROVE  LET h == HandleChange(t) IN
           /\ h \in ToolRecs /\ h.at = t.at /\ h.todo = t.todo /\ h.cand = t.cand /\ h.axis = t.axis
           /\ h.wrote = t.wrote /\ h.copies = t.copies /\ h.unseen = {}
           /\ (h.dirty <=> (t.dirty \/ t.unseen # {}))
BY DEF HandleChange, ToolRecs

LEMMA ContentIs ==
    ASSUME CleanTyped, NEW a \in Dbs
    PROVE  /\ Content(a) \in CopyRecs /\ Content(a).rows = rows[a] /\ Content(a).kept = kept[a]
           /\ a = "graph" => Content(a).links = <<links, alien>> /\ Content(a).links \in [Links -> States] \X BOOLEAN
BY DEF CleanTyped, Content, CopyRecs

LEMMA ReceiptIs ==
    ASSUME CleanTyped, runDir.receipt # NoReceipt
    PROVE  /\ Len(runDir.receipt) = 4 /\ runDir.receipt \in Seq(CopyRecs)
           /\ \A i \in 1..4 : /\ runDir.receipt[i] \in CopyRecs
                              /\ runDir.receipt[i].rows \in [Cands -> States] /\ runDir.receipt[i].kept \in BOOLEAN
                              /\ Axes[i] = "graph" => runDir.receipt[i].links \in [Links -> States] \X BOOLEAN
<1>1. runDir.receipt \in Seq(CopyRecs) /\ Len(runDir.receipt) \in {0, 4} /\ CopiesTyped(runDir.receipt)
  BY DEF CleanTyped
<1>2. Len(runDir.receipt) = 4
  BY <1>1 DEF NoReceipt
<1>3. \A i \in 1..4 : runDir.receipt[i] \in CopyRecs
  BY <1>1, <1>2
<1> QED BY <1>1, <1>2, <1>3 DEF CopyRecs, CopiesTyped

-----------------------------------------------------------------------------
(* The parts of the invariant that a step does not touch.                   *)

LEMMA CopiesKept ==
    ASSUME CleanTyped, DeletedIsKept,
           \A a \in Dbs, c \in Cands : rows'[a][c] = "frozen" => rows[a][c] = "frozen",
           runDir'.receipt = runDir.receipt, removed' \subseteq removed,
           tool'.copies = tool.copies \/ tool'.copies = <<>>
    PROVE  DeletedIsKept'
<1>1. ASSUME NEW copies, CopyIsEarlier(copies), Len(copies) <= 4, copies \in Seq(CopyRecs)
      PROVE  \A i \in 1..Len(copies), c \in Cands : rows'[Axes[i]][c] = "frozen" => copies[i].rows[c] = "frozen"
  BY <1>1, AxesAre DEF CopyIsEarlier
<1>2. CopyIsEarlier(tool.copies)'
  <2>1. CASE tool'.copies = tool.copies
    <3>1. CopyIsEarlier(tool.copies) /\ Len(tool.copies) <= 4 /\ tool.copies \in Seq(CopyRecs)
      BY DEF DeletedIsKept, CleanTyped, CopiesTyped
    <3>2. \A i \in 1..Len(tool.copies), c \in Cands : rows'[Axes[i]][c] = "frozen" => tool.copies[i].rows[c] = "frozen"
      BY <1>1, <3>1
    <3> QED BY <2>1, <3>2 DEF CopyIsEarlier
  <2>2. CASE tool'.copies = <<>>
    BY <2>2 DEF CopyIsEarlier
  <2> QED BY <2>1, <2>2
<1>3. CopyIsEarlier(runDir.receipt)'
  BY <1>1 DEF DeletedIsKept, CleanTyped, CopiesTyped, CopyIsEarlier
<1> QED BY <1>2, <1>3 DEF DeletedIsKept

LEMMA CleanInitHolds == CleanupInit => CleanInv
<1> SUFFICES ASSUME CleanupInit PROVE CleanInv
  OBVIOUS
<1>1. CleanTyped
  <2>1. /\ rows \in [Dbs -> [Cands -> States]] /\ links \in [Links -> States] /\ alien \in BOOLEAN
        /\ kept \in [Dbs -> BOOLEAN] /\ sidecar \in BOOLEAN
    BY DEF CleanupInit, States
  <2>2. tool \in ToolRecs /\ CopiesTyped(tool.copies)
    BY QuietIs, NoCopies DEF CleanupInit
  <2>3. <<>> \in Seq(CopyRecs) /\ Len(<<>>) = 0
    OBVIOUS
  <2>4. /\ runDir \in [receipt : Seq(CopyRecs), tomb : BOOLEAN, complete : BOOLEAN,
                       debris : SUBSET {"tmp", "directory", "torn"}]
        /\ CopiesTyped(runDir.receipt) /\ Len(runDir.receipt) \in {0, 4}
    BY <2>3, NoCopies DEF CleanupInit
  <2> QED BY <2>1, <2>2, <2>4 DEF CleanupInit, CleanTyped
<1>2. RunFits /\ LateFits /\ RestoreFits
  BY QuietIs DEF CleanupInit, RunFits, LateFits, RestoreFits, ApplySteps, RollbackSteps
<1>3. DeletedIsKept
  BY QuietIs, NoCopies DEF CleanupInit, DeletedIsKept
<1> QED BY <1>1, <1>2, <1>3 DEF CleanInv

\* The tool starts a run, or rests, and nothing else changes but a marker.
LEMMA StartKeeps ==
    ASSUME CleanInv, NEW t \in ToolRecs, tool' = t, t.copies = <<>>, UNCHANGED data,
           runDir' \in [receipt : Seq(CopyRecs), tomb : BOOLEAN, complete : BOOLEAN,
                        debris : SUBSET {"tmp", "directory", "torn"}],
           runDir'.receipt = runDir.receipt, runDir.tomb => runDir'.tomb,
           sidecar' \in BOOLEAN, removed' = removed, late' = 0 \/ late' = late, starts' \in Nat, foreign' = foreign,
           t.axis = 1,
           \/ t.at = "idle" /\ (runDir'.tomb => runDir.receipt # NoReceipt)
           \/ t.at = "backup" /\ runDir' = runDir /\ runDir.receipt = NoReceipt /\ late' = 0
           \/ t.at = "check" /\ runDir' = runDir /\ runDir.receipt # NoReceipt /\ late' = 0
           \/ t.at = "tomb" /\ runDir'.tomb = runDir.tomb /\ runDir.receipt # NoReceipt
           \/ t.at = "attempt" /\ runDir'.tomb = runDir.tomb /\ runDir.tomb
    PROVE  CleanInv'
BY NoCopies, CopiesKept DEF CleanInv, CleanTyped, data, RunFits, ApplySteps, RollbackSteps,
   LateFits, RestoreFits

LEMMA StartsKeep ==
    CleanInv /\ (StartApply \/ PrepareRollback \/ Tombstone \/ StartRollback \/ VerifyRollback \/ Complete \/ StopTool)
       => CleanInv'
<1> SUFFICES ASSUME CleanInv,
                    StartApply \/ PrepareRollback \/ Tombstone \/ StartRollback \/ VerifyRollback \/ Complete \/ StopTool
             PROVE  CleanInv'
  OBVIOUS
<1> USE QuietIs
<1>0. CleanTyped /\ RunFits
  BY DEF CleanInv
<1>1. CASE StartApply
  <2> DEFINE t == [Quiet EXCEPT !.at = IF runDir.receipt = NoReceipt THEN "backup" ELSE "check",
                                !.full = runDir.receipt = NoReceipt]
  <2>1. tool' = t /\ late' = 0 /\ UNCHANGED <<data, runDir, sidecar, removed, foreign>> /\ starts' = starts + 1
    BY <1>1 DEF StartApply, Starts
  <2>2. t \in ToolRecs /\ t.copies = <<>> /\ t.axis = 1
        /\ t.at = IF runDir.receipt = NoReceipt THEN "backup" ELSE "check"
    BY DEF ToolRecs, ApplySteps
  <2> HIDE DEF t
  <2> QED BY <1>0, <2>1, <2>2, StartKeeps DEF CleanTyped
<1>2. CASE PrepareRollback
  <2> DEFINE t == [Quiet EXCEPT !.at = "tomb"]
  <2>1. tool' = t /\ late' = 0 /\ UNCHANGED <<data, sidecar, removed, foreign>> /\ starts' = starts + 1
        /\ runDir' = [runDir EXCEPT !.debris = @ \cup {"tmp"}] /\ runDir.receipt # NoReceipt
    BY <1>2 DEF PrepareRollback, Starts
  <2>2. t \in ToolRecs /\ t.copies = <<>> /\ t.axis = 1 /\ t.at = "tomb"
    BY DEF ToolRecs
  <2>3. /\ runDir' \in [receipt : Seq(CopyRecs), tomb : BOOLEAN, complete : BOOLEAN,
                        debris : SUBSET {"tmp", "directory", "torn"}]
        /\ runDir'.receipt = runDir.receipt /\ runDir'.tomb = runDir.tomb
    BY <1>0, <2>1 DEF CleanTyped
  <2> HIDE DEF t
  <2> QED BY <1>0, <2>1, <2>2, <2>3, StartKeeps DEF CleanTyped
<1>3. CASE Tombstone
  BY <1>0, <1>3, StartKeeps DEF Tombstone, RunFits, CleanTyped
<1>4. CASE StartRollback
  <2> DEFINE t == [Quiet EXCEPT !.at = "attempt"]
  <2>1. tool' = t /\ late' = 0 /\ UNCHANGED <<data, sidecar, removed, foreign>> /\ starts' = starts + 1
        /\ runDir' = [runDir EXCEPT !.debris = {"directory"}] /\ runDir.tomb
    BY <1>4 DEF StartRollback, Starts
  <2>2. t \in ToolRecs /\ t.copies = <<>> /\ t.axis = 1 /\ t.at = "attempt"
    BY DEF ToolRecs, RollbackSteps
  <2>3. /\ runDir' \in [receipt : Seq(CopyRecs), tomb : BOOLEAN, complete : BOOLEAN,
                        debris : SUBSET {"tmp", "directory", "torn"}]
        /\ runDir'.receipt = runDir.receipt /\ runDir'.tomb = runDir.tomb
    BY <1>0, <2>1 DEF CleanTyped
  <2> HIDE DEF t
  <2>4. runDir.tomb => runDir'.tomb
    BY <2>3
  <2>5. starts' \in Nat /\ sidecar' \in BOOLEAN
    BY <1>0, <2>1 DEF CleanTyped
  <2> QED BY <2>1, <2>2, <2>3, <2>4, <2>5, StartKeeps
<1>5. CASE VerifyRollback
  BY <1>5, <1>0, StartKeeps DEF VerifyRollback, Starts, CleanTyped, RunFits
<1>6. CASE Complete
  BY <1>6, <1>0, StartKeeps DEF Complete, CleanTyped, RunFits
<1>7. CASE StopTool
  BY <1>7, <1>0, StartKeeps DEF StopTool, CleanTyped, ToolRecs, RunFits
<1> QED BY <1>1, <1>2, <1>3, <1>4, <1>5, <1>6, <1>7

-----------------------------------------------------------------------------
(* Backup and apply.                                                        *)

LEMMA CopyDbKeeps == CleanInv /\ CopyDb => CleanInv'
<1> SUFFICES ASSUME CleanInv, CopyDb PROVE CleanInv'
  OBVIOUS
<1>0. CleanTyped /\ RunFits /\ DeletedIsKept
  BY DEF CleanInv
<1> DEFINE n == Len(tool.copies) + 1
<1>1. /\ tool.at = "backup" /\ Len(tool.copies) < 4 /\ tool.copies \in Seq(CopyRecs) /\ n \in 1..4
      /\ tool' = [tool EXCEPT !.copies = Append(@, Content(Axes[n]))]
      /\ UNCHANGED <<data, runDir, sidecar, removed, late, starts, foreign>>
  BY <1>0 DEF CleanTyped, CopiesTyped, CopyDb
<1>2. Axes[n] \in Dbs
  BY <1>1, AxesAre
<1>3. /\ Content(Axes[n]) \in CopyRecs /\ Content(Axes[n]).rows = rows[Axes[n]]
      /\ Axes[n] = "graph" => Content(Axes[n]).links \in [Links -> States] \X BOOLEAN
  BY <1>0, <1>2, ContentIs
<1> DEFINE copies == Append(tool.copies, Content(Axes[n]))
<1>4. /\ copies \in Seq(CopyRecs) /\ Len(copies) = n
      /\ \A i \in 1..n : i # n => copies[i] = tool.copies[i] /\ i \in 1..Len(tool.copies)
      /\ copies[n] = Content(Axes[n])
  BY <1>1, <1>3
<1>5. tool'.copies = copies /\ tool'.at = "backup" /\ tool'.axis = tool.axis /\ tool' \in ToolRecs
  <2> HIDE DEF n
  <2>1. Append(tool.copies, Content(Axes[n])) \in Seq(CopyRecs)
    BY <1>4
  <2> QED BY <1>0, <1>1, <2>1 DEF CleanTyped, ToolRecs
<1> HIDE DEF copies
<1>6. CopiesTyped(copies)
  <2>1. \A i \in 1..Len(tool.copies) : Axes[i] = "graph" => tool.copies[i].links \in [Links -> States] \X BOOLEAN
    BY <1>0 DEF CleanTyped, CopiesTyped
  <2>2. \A i \in 1..n : Axes[i] = "graph" => copies[i].links \in [Links -> States] \X BOOLEAN
    BY <1>3, <1>4, <2>1
  <2> QED BY <1>1, <1>4, <2>2 DEF CopiesTyped
<1>7. CopyIsEarlier(copies)
  BY <1>0, <1>4, <1>3 DEF DeletedIsKept, CopyIsEarlier
<1>8. CleanTyped'
  BY <1>0, <1>1, <1>5, <1>6 DEF CleanTyped, data
<1>9. RunFits' /\ LateFits' /\ RestoreFits'
  BY <1>1, <1>5 DEF CleanInv, RunFits, LateFits, RestoreFits, ProtectionHolds, data, ApplySteps, RollbackSteps
<1>10. DeletedIsKept'
  BY <1>1, <1>5, <1>7, <1>0 DEF CopyIsEarlier, data, DeletedIsKept
<1> QED BY <1>8, <1>9, <1>10 DEF CleanInv

LEMMA PublishReceiptKeeps == CleanInv /\ PublishReceipt => CleanInv'
<1> SUFFICES ASSUME CleanInv, PublishReceipt PROVE CleanInv'
  OBVIOUS
<1>0. CleanTyped /\ RunFits /\ DeletedIsKept /\ LateFits
  BY DEF CleanInv
<1>1. /\ tool.at = "backup" /\ Len(tool.copies) = 4 /\ runDir.receipt = NoReceipt
      /\ runDir' = [runDir EXCEPT !.receipt = tool.copies]
      /\ tool' = [tool EXCEPT !.at = "check"]
      /\ UNCHANGED <<data, sidecar, removed, late, starts, foreign>>
  BY <1>0 DEF PublishReceipt, RunFits
<1>2. CopiesTyped(tool.copies) /\ tool.copies \in Seq(CopyRecs) /\ tool.copies # NoReceipt
  BY <1>0, <1>1 DEF CleanTyped, CopiesTyped, NoReceipt
<1>3. /\ runDir' \in [receipt : Seq(CopyRecs), tomb : BOOLEAN, complete : BOOLEAN,
                      debris : SUBSET {"tmp", "directory", "torn"}]
      /\ runDir'.receipt = tool.copies /\ runDir'.tomb = runDir.tomb
  BY <1>0, <1>1, <1>2 DEF CleanTyped
<1>4. tool' \in ToolRecs /\ tool'.at = "check" /\ tool'.copies = tool.copies /\ tool'.axis = tool.axis
  BY <1>0, <1>1 DEF CleanTyped, ToolRecs, ApplySteps
<1>5. CleanTyped'
  BY <1>0, <1>1, <1>2, <1>3, <1>4 DEF CleanTyped, data
<1>6. RunFits' /\ LateFits' /\ RestoreFits'
  BY <1>0, <1>1, <1>2, <1>3, <1>4 DEF RunFits, LateFits, RestoreFits, ApplySteps, RollbackSteps
<1>7. DeletedIsKept'
  <2>1. removed = {}
    BY <1>0, <1>1 DEF DeletedIsKept
  <2>2. CopyIsEarlier(tool.copies)
    BY <1>0 DEF DeletedIsKept
  <2>3. CopyIsEarlier(tool.copies)' /\ CopyIsEarlier(runDir.receipt)'
    BY <1>1, <1>3, <1>4, <2>2 DEF CopyIsEarlier, data
  <2> QED BY <1>1, <2>1, <2>3 DEF DeletedIsKept
<1> QED BY <1>5, <1>6, <1>7 DEF CleanInv

\* Only the tool moves, within an apply.
LEMMA ApplyGoesOn ==
    ASSUME CleanInv, tool.at \in ApplySteps \ {"backup"}, tool' \in ToolRecs, tool'.copies = tool.copies,
           tool'.at \in ApplySteps \ {"backup"}, tool'.axis <= 4,
           UNCHANGED <<data, runDir, sidecar, removed, late, starts, foreign>>, LateFits'
    PROVE  CleanInv'
BY CopiesKept DEF CleanInv, CleanTyped, data, RunFits, RestoreFits, ApplySteps, RollbackSteps

LEMMA ToolIs ==
    ASSUME CleanInv
    PROVE  /\ tool \in ToolRecs /\ tool.axis \in 1..5 /\ tool.dirty \in BOOLEAN /\ tool.cand \in Cands
           /\ tool.at \in ApplySteps => tool.axis \in 1..4 /\ Axis \in Dbs
           /\ HandleChange(tool) \in ToolRecs /\ HandleChange(tool).at = tool.at
           /\ HandleChange(tool).todo = tool.todo /\ HandleChange(tool).cand = tool.cand
           /\ HandleChange(tool).axis = tool.axis
           /\ HandleChange(tool).wrote = tool.wrote /\ HandleChange(tool).copies = tool.copies
           /\ HandleChange(tool).unseen = {}
           /\ (HandleChange(tool).dirty <=> (tool.dirty \/ tool.unseen # {}))
<1>1. tool \in ToolRecs
  BY DEF CleanInv, CleanTyped
<1>2. tool.axis \in 1..5 /\ tool.dirty \in BOOLEAN /\ tool.cand \in Cands
  BY <1>1 DEF ToolRecs
<1>3. tool.at \in ApplySteps => tool.axis \in 1..4 /\ Axis \in Dbs
  BY <1>2, AxesAre DEF CleanInv, RunFits, Axis
<1> QED BY <1>1, <1>2, <1>3, HandleChangeIs

LEMMA ChecksKeep == CleanInv /\ (Preflight \/ BeforeAxis \/ AfterAxis) => CleanInv'
<1> SUFFICES ASSUME CleanInv, Preflight \/ BeforeAxis \/ AfterAxis PROVE CleanInv'
  OBVIOUS
<1>0. LateFits
  BY DEF CleanInv
<1> DEFINE t == HandleChange(tool)
<1>1. /\ tool \in ToolRecs /\ tool.axis \in 1..5 /\ tool.dirty \in BOOLEAN
      /\ tool.at \in ApplySteps => tool.axis \in 1..4 /\ Axis \in Dbs
      /\ t \in ToolRecs /\ t.at = tool.at /\ t.axis = tool.axis /\ t.copies = tool.copies /\ t.unseen = {}
      /\ (t.dirty <=> (tool.dirty \/ tool.unseen # {}))
  BY ToolIs
<1> HIDE DEF t
<1>2. CASE Preflight
  <2>1. PICK c \in Cands : tool' = [t EXCEPT !.at = "gate", !.todo = Cands \ {c}, !.cand = c]
    BY <1>2 DEF Preflight, t
  <2>2. tool.at = "check" /\ ProtectionHolds /\ UNCHANGED <<data, runDir, sidecar, removed, late, starts, foreign>>
    BY <1>2 DEF Preflight
  <2>3. tool' \in ToolRecs /\ tool'.at = "gate" /\ tool'.axis = tool.axis /\ tool'.copies = tool.copies
    BY <1>1, <2>1 DEF ToolRecs, ApplySteps
  <2>4. LateFits'
    BY <1>0, <2>2, <2>3 DEF LateFits, ProtectionHolds, data
  <2> QED BY <1>1, <2>2, <2>3, <2>4, ApplyGoesOn DEF ApplySteps
<1>3. CASE BeforeAxis
  BY <1>3, <1>1, <1>0, ApplyGoesOn DEF BeforeAxis, t, ToolRecs, ApplySteps, LateFits,
     ProtectionHolds, data
<1>4. CASE AfterAxis
  BY <1>4, <1>1, <1>0, ApplyGoesOn DEF AfterAxis, t, ToolRecs, ApplySteps, LateFits,
     ProtectionHolds, data
<1> QED BY <1>2, <1>3, <1>4

\* The check at the end of an axis lets nothing through that has not been seen.
LEMMA EndAxisKeeps == CleanInv /\ EndAxis => CleanInv'
<1> SUFFICES ASSUME CleanInv, EndAxis PROVE CleanInv'
  OBVIOUS
<1>0. LateFits
  BY DEF CleanInv
<1> DEFINE t == HandleChange(tool)
           t1 == [t EXCEPT !.dirty = FALSE]
<1>1. /\ tool \in ToolRecs /\ tool.axis \in 1..5 /\ tool.dirty \in BOOLEAN
      /\ tool.at \in ApplySteps => tool.axis \in 1..4 /\ Axis \in Dbs
      /\ t \in ToolRecs /\ t.at = tool.at /\ t.axis = tool.axis /\ t.copies = tool.copies /\ t.unseen = {}
      /\ (t.dirty <=> (tool.dirty \/ tool.unseen # {}))
  BY ToolIs
<1> HIDE DEF t
<1>2. /\ tool.at = "end" /\ (t.dirty => ProtectionHolds)
      /\ UNCHANGED <<data, runDir, sidecar, removed, late, starts, foreign>>
      /\ IF tool.unseen # {} THEN tool' = [t EXCEPT !.at = "gate", !.dirty = FALSE] ELSE tool' \in NextAxis(t1)
  BY DEF EndAxis, t
<1>3. ProtectionHolds /\ late = 0
  BY <1>0, <1>1, <1>2 DEF LateFits
<1>4. t1 \in ToolRecs /\ t1.axis = tool.axis /\ t1.copies = tool.copies /\ tool.axis \in 1..4
  BY <1>1, <1>2 DEF ToolRecs, ApplySteps
<1> HIDE DEF t1
<1>5. tool' \in ToolRecs /\ tool'.copies = tool.copies /\ tool'.axis <= 4 /\ tool'.at \in {"gate", "finish"}
  <2>1. CASE tool.unseen # {}
    <3>1. tool' = [t EXCEPT !.at = "gate", !.dirty = FALSE]
      BY <1>2, <2>1
    <3>2. tool' \in ToolRecs /\ tool'.copies = t.copies /\ tool'.axis = t.axis /\ tool'.at = "gate"
      BY <1>1, <3>1 DEF ToolRecs, ApplySteps
    <3> QED BY <1>1, <1>4, <3>2
  <2>2. CASE tool' \in NextAxis(t1) /\ t1.axis < 4
    <3>1. tool' = [t1 EXCEPT !.at = "gate", !.axis = @ + 1]
      BY <2>2 DEF NextAxis
    <3>2. t1.axis + 1 \in 1..4
      BY <1>4, <2>2
    <3>3. t1.axis + 1 \in 1..5
      BY <3>2
    <3>4. tool' \in ToolRecs /\ tool'.copies = t1.copies /\ tool'.axis = t1.axis + 1 /\ tool'.at = "gate"
      BY <1>4, <3>1, <3>3 DEF ToolRecs, ApplySteps
    <3> QED BY <1>4, <3>2, <3>4
  <2>3. CASE tool' \in NextAxis(t1) /\ ~(t1.axis < 4) /\ t1.todo = {}
    <3>1. tool' = [t1 EXCEPT !.at = "finish"]
      BY <2>3 DEF NextAxis
    <3>2. "finish" \in ApplySteps
      BY DEF ApplySteps
    <3> HIDE DEF ApplySteps
    <3>3. tool' \in ToolRecs /\ tool'.copies = t1.copies /\ tool'.axis = t1.axis /\ tool'.at = "finish"
      BY ONLY <1>4, <3>1, <3>2 DEF ToolRecs
    <3> QED BY ONLY <1>4, <3>3
  <2>4. CASE tool' \in NextAxis(t1) /\ ~(t1.axis < 4) /\ t1.todo # {}
    <3>1. PICK c \in t1.todo : tool' = [t1 EXCEPT !.at = "gate", !.axis = 1, !.cand = c, !.todo = @ \ {c}]
      BY <2>4 DEF NextAxis
    <3>2. t1.todo \subseteq Cands
      BY <1>4 DEF ToolRecs
    <3>3. c \in Cands /\ t1.todo \ {c} \in SUBSET Cands /\ 1 \in 1..5
      BY <3>2
    <3>4. tool' \in ToolRecs /\ tool'.copies = t1.copies /\ tool'.axis = 1 /\ tool'.at = "gate"
      BY <1>4, <3>1, <3>3 DEF ToolRecs, ApplySteps
    <3> QED BY <1>4, <3>4
  <2> QED BY <1>2, <2>1, <2>2, <2>3, <2>4
<1>6. LateFits'
  BY <1>2, <1>3, <1>5 DEF LateFits, ProtectionHolds, data
<1> QED BY <1>2, <1>5, <1>6, ApplyGoesOn DEF ApplySteps

LEMMA FinishKeeps == CleanInv /\ FinishApply => CleanInv'
BY QuietIs, StartKeeps DEF FinishApply, CleanInv, CleanTyped, RunFits

\* A transaction deletes what is as frozen, or finds it gone.
LEMMA WriteAxisKeeps == CleanInv /\ WriteAxis => CleanInv'
<1> SUFFICES ASSUME CleanInv, WriteAxis PROVE CleanInv'
  OBVIOUS
<1> DEFINE c == tool.cand
           t == HandleChange(tool)
           gone == {<<Axis, c, rows[Axis][c]>>} \ {<<Axis, c, "gone">>}
<1>0. CleanTyped /\ RunFits /\ DeletedIsKept /\ LateFits
  BY DEF CleanInv
<1>1. /\ tool.at = "write" /\ CasHolds(c, Axis)
      /\ rows' = [rows EXCEPT ![Axis][c] = "gone"]
      /\ links' = [l \in Links |-> IF Axis = "graph" /\ c \in l THEN "gone" ELSE links[l]]
      /\ removed' = removed \cup gone
      /\ late' = IF ProtectionHolds \/ removed' = removed THEN late ELSE late + 1
      /\ tool' = [t EXCEPT !.at = "after", !.wrote = TRUE,
                           !.passed = @ \cup ({"graph", "registry"} \cap {Axis})]
      /\ UNCHANGED <<alien, kept, runDir, sidecar, starts, foreign>>
  BY DEF WriteAxis
<1>2. /\ t \in ToolRecs /\ t.axis = tool.axis /\ t.copies = tool.copies /\ t.unseen = {} /\ tool.axis \in 1..4
      /\ (t.dirty <=> (tool.dirty \/ tool.unseen # {})) /\ c \in Cands /\ Axis \in Dbs
  BY <1>1, ToolIs DEF ApplySteps
<1>3. runDir.receipt # NoReceipt
  BY <1>0, <1>1 DEF RunFits, ApplySteps
<1> HIDE DEF t, c
<1>4. /\ tool' \in ToolRecs /\ tool'.copies = tool.copies /\ tool'.at = "after" /\ tool'.axis = tool.axis
      /\ tool'.unseen = {} /\ (tool'.dirty <=> (tool.dirty \/ tool.unseen # {}))
  BY <1>1, <1>2 DEF ToolRecs, ApplySteps
<1>5. /\ rows' \in [Dbs -> [Cands -> States]] /\ links' \in [Links -> States]
      /\ \A a \in Dbs, d \in Cands : rows'[a][d] = "frozen" => rows[a][d] = "frozen"
  BY <1>0, <1>1, <1>2 DEF CleanTyped, States
<1>6. \A r \in gone : r = <<Axis, c, "frozen">> /\ rows[Axis][c] = "frozen"
  BY <1>1 DEF CasHolds
<1>7. removed' \subseteq Dbs \X Cands \X States
  <2>1. \A r \in gone : r \in Dbs \X Cands \X States
    BY <1>2, <1>6 DEF States
  <2> HIDE DEF gone
  <2> QED BY <1>0, <1>1, <2>1 DEF CleanTyped
<1>8. late' \in Nat
  BY <1>0, <1>1 DEF CleanTyped
<1>9. CleanTyped'
  BY <1>0, <1>1, <1>4, <1>5, <1>7, <1>8 DEF CleanTyped
<1>10. RunFits' /\ RestoreFits'
  BY <1>0, <1>1, <1>2, <1>3, <1>4 DEF RunFits, RestoreFits, ApplySteps, RollbackSteps
<1>11. LateFits'
  BY <1>0, <1>1, <1>4 DEF LateFits, ProtectionHolds
<1>12. DeletedIsKept'
  <2>1. CopyIsEarlier(tool.copies)' /\ CopyIsEarlier(runDir.receipt)'
    <3> DEFINE C(copies) == \A i \in 1..Len(copies), d \in Cands : rows'[Axes[i]][d] = "frozen" => copies[i].rows[d] = "frozen"
    <3>1. ASSUME NEW copies, CopyIsEarlier(copies), copies \in Seq(CopyRecs), Len(copies) <= 4 PROVE C(copies)
      BY <3>1, <1>5, AxesAre DEF CopyIsEarlier
    <3>2. C(tool.copies) /\ C(runDir.receipt)
      BY <1>0, <3>1 DEF DeletedIsKept, CleanTyped, CopiesTyped
    <3> QED BY <1>1, <1>4, <3>2 DEF CopyIsEarlier
  <2>2. ASSUME NEW r \in gone
        PROVE  /\ r[3] = "frozen"
               /\ \A i \in 1..4 : Axes[i] = r[1] => runDir.receipt[i].rows[r[2]] = "frozen"
    BY <1>6, <1>0, <1>3, ReceiptIs, <1>2 DEF DeletedIsKept, CopyIsEarlier
  <2> HIDE DEF gone
  <2>3. \A r \in removed' :
          /\ r[3] = "frozen" /\ runDir.receipt # NoReceipt
          /\ \A i \in 1..4 : Axes[i] = r[1] => runDir.receipt[i].rows[r[2]] = "frozen"
    BY <1>0, <1>1, <1>3, <2>2 DEF DeletedIsKept
  <2> QED BY <1>1, <2>1, <2>3 DEF DeletedIsKept
<1> QED BY <1>9, <1>10, <1>11, <1>12 DEF CleanInv

-----------------------------------------------------------------------------
(* Rollback, and what is outside the tool.                                  *)

LEMMA RestoresKeep == CleanInv /\ (PublishAttempt \/ WriteMetadata \/ VerifyFiles) => CleanInv'
<1> SUFFICES ASSUME CleanInv, PublishAttempt \/ WriteMetadata \/ VerifyFiles PROVE CleanInv'
  OBVIOUS
<1>0. CleanTyped /\ RunFits /\ DeletedIsKept /\ LateFits /\ RestoreFits
  BY DEF CleanInv
<1>1. /\ UNCHANGED <<data, sidecar, removed, late, starts, foreign>>
      /\ runDir' \in [receipt : Seq(CopyRecs), tomb : BOOLEAN, complete : BOOLEAN,
                      debris : SUBSET {"tmp", "directory", "torn"}]
      /\ runDir'.receipt = runDir.receipt /\ runDir'.tomb = runDir.tomb
  BY <1>0 DEF PublishAttempt, CleanTyped, WriteMetadata, VerifyFiles
<1>2. tool' \in ToolRecs /\ tool'.copies = tool.copies /\ tool'.at \in {"restore", "complete"} /\ tool.at \in RollbackSteps
  <2>0. tool \in ToolRecs
    BY <1>0 DEF CleanTyped
  <2>1. CASE PublishAttempt
    <3>1. tool.at = "attempt" /\ tool' = [tool EXCEPT !.at = "restore", !.axis = 1] /\ 1 \in 1..5
      BY <2>1 DEF PublishAttempt
    <3>2. tool' \in ToolRecs /\ tool'.copies = tool.copies /\ tool'.at = "restore"
      BY <2>0, <3>1 DEF ToolRecs, RollbackSteps
    <3> QED BY <3>1, <3>2 DEF RollbackSteps
  <2>2. CASE WriteMetadata
    BY <2>0, <2>2 DEF WriteMetadata, RollbackSteps
  <2>3. CASE VerifyFiles
    BY <2>0, <2>3 DEF VerifyFiles, ToolRecs, RollbackSteps
  <2> QED BY <2>1, <2>2, <2>3
<1>3. CleanTyped'
  BY <1>0, <1>1, <1>2 DEF CleanTyped, data
<1>4. DeletedIsKept'
  BY <1>0, <1>1, <1>2, CopiesKept DEF data
<1>5. LateFits'
  BY <1>0, <1>1, <1>2 DEF LateFits
<1>6. RunFits'
  BY <1>0, <1>1, <1>2 DEF PublishAttempt, CleanTyped, ToolRecs, WriteMetadata, VerifyFiles, RunFits,
     ApplySteps, RollbackSteps
<1>7. RestoreFits'
  <2>1. CASE PublishAttempt
    <3>1. tool'.axis = 1 /\ tool'.at = "restore"
      BY <1>0, <2>1 DEF PublishAttempt, CleanTyped, ToolRecs
    <3> QED BY <3>1 DEF RestoreFits
  <2>2. CASE WriteMetadata
    BY <2>2, <1>0, <1>1 DEF WriteMetadata, RestoreFits
  <2>3. CASE VerifyFiles
    BY <1>0, <2>3, AxesAre, <1>1 DEF VerifyFiles, CleanTyped, ToolRecs, RestoreFits, FilesMatch,
       Content, data
  <2> QED BY <2>1, <2>2, <2>3
<1> QED BY <1>3, <1>4, <1>5, <1>6, <1>7 DEF CleanInv

LEMMA RestoreFileKeeps == CleanInv /\ RestoreFile => CleanInv'
<1> SUFFICES ASSUME CleanInv, RestoreFile PROVE CleanInv'
  OBVIOUS
<1>0. CleanTyped /\ RunFits /\ DeletedIsKept /\ LateFits /\ RestoreFits
  BY DEF CleanInv
<1> DEFINE k == tool.axis
           a == Axes[k]
           copy == runDir.receipt[k]
<1>1. /\ tool.at = "restore" /\ "torn" \in runDir.debris
      /\ rows' = [rows EXCEPT ![a] = copy.rows]
      /\ kept' = [kept EXCEPT ![a] = copy.kept]
      /\ IF a = "graph" THEN links' = copy.links[1] /\ alien' = copy.links[2] ELSE UNCHANGED <<links, alien>>
      /\ removed' = {r \in removed : r[1] # a}
      /\ runDir' = [runDir EXCEPT !.debris = {}]
      /\ tool' = [tool EXCEPT !.axis = @ + 1]
      /\ UNCHANGED <<sidecar, late, starts, foreign>>
  BY DEF RestoreFile
<1>2. k \in 1..4 /\ a \in Dbs /\ runDir.tomb /\ runDir.receipt # NoReceipt
  BY <1>0, <1>1, AxesAre DEF CleanTyped, ToolRecs, RunFits, RollbackSteps
<1>3. /\ copy.rows \in [Cands -> States] /\ copy.kept \in BOOLEAN /\ Len(runDir.receipt) = 4
      /\ a = "graph" => copy.links[1] \in [Links -> States] /\ copy.links[2] \in BOOLEAN
  BY <1>0, <1>2, ReceiptIs
<1> HIDE DEF copy, a, k
<1>4. /\ tool' \in ToolRecs /\ tool'.copies = tool.copies /\ tool'.at = "restore" /\ tool'.axis = k + 1
  <2>1. tool.axis + 1 \in 1..5
    BY <1>2 DEF k
  <2> QED BY <1>0, <1>1, <2>1 DEF CleanTyped, ToolRecs, k
<1>5. /\ runDir' \in [receipt : Seq(CopyRecs), tomb : BOOLEAN, complete : BOOLEAN,
                      debris : SUBSET {"tmp", "directory", "torn"}]
      /\ runDir'.receipt = runDir.receipt /\ runDir'.tomb = runDir.tomb /\ runDir'.debris = {}
  BY <1>0, <1>1 DEF CleanTyped
<1>6. /\ rows' \in [Dbs -> [Cands -> States]] /\ kept' \in [Dbs -> BOOLEAN]
      /\ links' \in [Links -> States] /\ alien' \in BOOLEAN
      /\ rows'[a] = copy.rows /\ \A b \in Dbs : b # a => rows'[b] = rows[b]
  BY <1>0, <1>1, <1>2, <1>3 DEF CleanTyped
<1>7. CleanTyped'
  BY <1>0, <1>1, <1>4, <1>5, <1>6 DEF CleanTyped
<1>8. RunFits' /\ LateFits'
  BY <1>0, <1>1, <1>2, <1>4, <1>5 DEF RunFits, LateFits, ApplySteps, RollbackSteps
<1>9. RestoreFits'
  BY <1>4, <1>0, <1>1, <1>2 DEF RestoreFits, a, k
<1>10. DeletedIsKept'
  <2>1. CopyIsEarlier(runDir.receipt)'
    <3> SUFFICES ASSUME NEW i \in 1..4, NEW c \in Cands, rows'[Axes[i]][c] = "frozen"
                 PROVE  runDir.receipt[i].rows[c] = "frozen"
      BY <1>3, <1>5 DEF CopyIsEarlier
    <3>1. CASE i = k
      BY <1>6, <3>1 DEF a, copy
    <3>2. CASE i # k
      <4>1. Axes[i] # a /\ Axes[i] \in Dbs
        BY <1>2, <3>2, AxesAre DEF a
      <4>2. rows[Axes[i]][c] = "frozen"
        BY <1>6, <4>1
      <4> QED BY <1>0, <1>3, <4>2 DEF DeletedIsKept, CopyIsEarlier
    <3> QED BY <3>1, <3>2
  <2>2. CopyIsEarlier(tool.copies)'
    BY <1>0, <1>1, <1>4 DEF RunFits, RollbackSteps, CopyIsEarlier
  <2>3. \A r \in removed' : r \in removed
    BY <1>1
  <2> QED BY <1>0, <1>5, <2>1, <2>2, <2>3 DEF DeletedIsKept
<1> QED BY <1>7, <1>8, <1>9, <1>10 DEF CleanInv

LEMMA OutsideKeeps == CleanInv /\ (Checkpoint \/ \E a \in Dbs : ForeignCommit(a)) => CleanInv'
<1> SUFFICES ASSUME CleanInv, Checkpoint \/ \E a \in Dbs : ForeignCommit(a) PROVE CleanInv'
  OBVIOUS
<1>0. CleanTyped /\ RunFits /\ DeletedIsKept /\ LateFits /\ RestoreFits
  BY DEF CleanInv
<1>1. CASE Checkpoint
  <2>1. sidecar' = FALSE /\ UNCHANGED <<data, runDir, tool, removed, late, starts, foreign>>
    BY <1>1 DEF Checkpoint
  <2>2. CleanTyped'
    BY <1>0, <2>1 DEF CleanTyped, data
  <2>3. RunFits' /\ LateFits'
    BY <1>0, <2>1 DEF RunFits, LateFits, ProtectionHolds, data
  <2>4. DeletedIsKept'
    BY <1>0, <2>1, CopiesKept DEF data
  <2>5. RestoreFits'
    BY <1>0, <2>1 DEF RestoreFits, FilesMatch, Content, data
  <2> QED BY <2>2, <2>3, <2>4, <2>5 DEF CleanInv
<1>2. ASSUME NEW a \in Dbs, ForeignCommit(a) PROVE CleanInv'
  <2>1. /\ tool.at # "complete" /\ foreign' = foreign + 1
        /\ tool' = IF tool.at = "idle" THEN tool ELSE [tool EXCEPT !.unseen = @ \cup {a}]
        /\ UNCHANGED <<runDir, sidecar, removed, late, starts>>
        /\ \/ /\ \E c \in Cands, s \in {"changed", "gone"} : rows' = [rows EXCEPT ![a][c] = s]
              /\ UNCHANGED <<links, alien, kept>>
           \/ kept' = [kept EXCEPT ![a] = FALSE] /\ UNCHANGED <<rows, links, alien>>
           \/ /\ \/ alien' = TRUE /\ UNCHANGED links
                 \/ \E l \in Links, s \in {"changed", "gone"} :
                       links' = [links EXCEPT ![l] = s] /\ UNCHANGED alien
              /\ UNCHANGED <<rows, kept>>
    BY <1>2 DEF ForeignCommit
  <2>2. /\ tool' \in ToolRecs /\ tool'.at = tool.at /\ tool'.copies = tool.copies /\ tool'.axis = tool.axis
        /\ tool'.dirty = tool.dirty /\ tool'.unseen \in {tool.unseen, tool.unseen \cup {a}}
        /\ tool.at # "idle" => tool'.unseen # {}
    BY <1>0, <2>1 DEF CleanTyped, ToolRecs
  <2>3. /\ rows' \in [Dbs -> [Cands -> States]]
        /\ \A b \in Dbs, c \in Cands : rows'[b][c] = "frozen" => rows[b][c] = "frozen"
    <3>1. CASE rows' = rows
      BY <1>0, <3>1 DEF CleanTyped
    <3>2. CASE \E c \in Cands, s \in {"changed", "gone"} : rows' = [rows EXCEPT ![a][c] = s]
      BY <1>0, <3>2 DEF CleanTyped, States
    <3> QED BY <2>1, <3>1, <3>2
  <2>4. kept' \in [Dbs -> BOOLEAN] /\ (\A b \in Dbs : kept'[b] => kept[b])
    BY <1>0, <2>1 DEF CleanTyped
  <2>5. links' \in [Links -> States] /\ alien' \in BOOLEAN
    BY <1>0, <2>1 DEF CleanTyped, States
  <2>6. CleanTyped'
    BY <1>0, <2>1, <2>2, <2>3, <2>4, <2>5 DEF CleanTyped
  <2>7. RunFits'
    BY <1>0, <2>1, <2>2 DEF RunFits, ApplySteps, RollbackSteps
  <2>8. LateFits'
    BY <2>4, <2>1, <1>0, <2>2 DEF ProtectionHolds, LateFits
  <2>9. DeletedIsKept'
    BY <1>0, <2>1, <2>2, <2>3, CopiesKept
  <2>10. RestoreFits'
    BY <1>0, <2>1, <2>2 DEF RestoreFits
  <2> QED BY <2>6, <2>7, <2>8, <2>9, <2>10 DEF CleanInv
<1> QED BY <1>1, <1>2

LEMMA CleanStays == CleanInv /\ [CleanupNext]_cleanupVars => CleanInv'
<1> SUFFICES ASSUME CleanInv, [CleanupNext]_cleanupVars PROVE CleanInv'
  OBVIOUS
<1>1. CASE UNCHANGED cleanupVars
  <2>1. UNCHANGED <<rows, links, alien, kept, runDir, sidecar, tool, removed, late, starts, foreign>>
    BY <1>1 DEF cleanupVars
  <2> QED BY <2>1 DEF CleanInv, CleanTyped, RunFits, LateFits, ProtectionHolds, DeletedIsKept, CopyIsEarlier,
                      RestoreFits, FilesMatch, Content
<1> QED BY <1>1, StartsKeep, CopyDbKeeps, PublishReceiptKeeps, ChecksKeep, EndAxisKeeps, FinishKeeps,
           WriteAxisKeeps, RestoresKeep, RestoreFileKeeps, OutsideKeeps DEF CleanupNext

LEMMA CleanInvHolds == CleanupSpec => []CleanInv
BY CleanInitHolds, CleanStays, PTL DEF CleanupSpec

\* The state of the cleanup of scripts/cleanup_openclaw_heartbeat_493.py keeps its types.
THEOREM CleanupTypeCorrect == CleanupSpec => []CleanupTypeOK
<1>1. CleanInv => CleanupTypeOK
  BY DEF CleanInv, CleanTyped, ToolRecs, CleanupTypeOK
<1> QED BY <1>1, CleanInvHolds, PTL

\* For any number of candidates, runs, crashes and foreign commits: what the
\* tool deleted is as frozen in the backup that its receipt names, and once a
\* protected row has changed under a run no second transaction deletes.
THEOREM CleanupRecoverable == CleanupSpec => []CleanupIsRecoverable
<1>1. CleanInv => CleanupIsRecoverable
  BY DEF CleanInv, DeletedIsKept, LateFits, CleanupIsRecoverable
<1> QED BY <1>1, CleanInvHolds, PTL

LEMMA CompleteIsWhole ==
    CleanInv /\ [CleanupNext]_cleanupVars =>
       [~runDir.complete /\ runDir'.complete =>
            /\ runDir.tomb /\ removed' = {}
            /\ \A i \in 1..4 : Content(Axes[i])' = runDir'.receipt[i]]_cleanupVars
<1> SUFFICES ASSUME CleanInv, CleanupNext, ~runDir.complete, runDir'.complete
             PROVE  /\ runDir.tomb /\ removed' = {}
                    /\ \A i \in 1..4 : Content(Axes[i])' = runDir'.receipt[i]
  OBVIOUS
<1>0. runDir \in [receipt : Seq(CopyRecs), tomb : BOOLEAN, complete : BOOLEAN,
                  debris : SUBSET {"tmp", "directory", "torn"}]
  BY DEF CleanInv, CleanTyped
<1>1. CASE Complete
  BY <1>1, <1>0 DEF Complete, CleanInv, RunFits, RestoreFits, RollbackSteps, FilesMatch, Content,
     data
<1>3. CASE PublishReceipt \/ PrepareRollback \/ Tombstone \/ StartRollback \/ PublishAttempt \/ WriteMetadata
           \/ RestoreFile \/ VerifyFiles
  BY <1>0, <1>3 DEF PublishReceipt, PrepareRollback, Tombstone, StartRollback, PublishAttempt,
     WriteMetadata, RestoreFile, VerifyFiles
<1>4. CASE \/ StartApply \/ CopyDb \/ Preflight \/ BeforeAxis \/ WriteAxis \/ AfterAxis \/ EndAxis \/ FinishApply
           \/ VerifyRollback \/ StopTool \/ Checkpoint \/ \E a \in Dbs : ForeignCommit(a)
  <2>1. runDir' = runDir
    BY <1>4 DEF StartApply, CopyDb, Preflight, BeforeAxis, WriteAxis, AfterAxis, EndAxis, FinishApply,
                VerifyRollback, StopTool, Checkpoint, ForeignCommit
  <2> QED BY <2>1
<1> QED BY <1>1, <1>3, <1>4 DEF CleanupNext

\* A rollback that is marked complete has put back all four files, as the one
\* receipt has them, however many attempts it took and whatever was committed between.
THEOREM RollbackRestoresAll == CleanupSpec => RollbackIsWhole
BY CleanInvHolds, CompleteIsWhole, PTL DEF CleanupSpec, RollbackIsWhole

-----------------------------------------------------------------------------
(***************************************************************************)
(* GraphMigration: a cutover loses nothing, the target schema stays whole, *)
(* and a request that was committed is answered with its receipt.          *)
(***************************************************************************)

CallerRecs == [at : {"closed", "open", "reading", "read", "ready", "refused", "answered"},
               kind : {"partial", "legacy", "target"},
               nodes : SUBSET NodeRow, edges : SUBSET EdgeRow,
               plan : Plans \cup {NoValue}, req : RequestIds \cup {NoValue},
               receipt : Receipts \cup {NoValue}]

GraphTyped ==
    /\ schema \in {"legacy", "target"}
    /\ gNodes \subseteq NodeRow /\ gEdges \subseteq EdgeRow
    /\ ledger \in [RequestIds -> Receipts \cup {NoValue}]
    /\ planFile \in Plans \cup {NoValue}
    /\ caller \in [Callers -> CallerRecs]

\* A plan nobody edited was made from its source by a mapping file.
Honest(plan) ==
    plan # NoValue /\ ~plan.edited =>
        \E m \in Mappings : Buildable(plan.source, m) /\ plan = Plan(plan.source, m)

\* What a caller's record says of the database and the ledger.
CallerFits(rec) ==
    /\ rec.at # "closed" => rec.kind # "partial"
    /\ rec.kind = "target" => schema = "target"
    /\ rec.at \in {"ready", "answered"} => rec.req \in RequestIds /\ rec.plan # NoValue
    /\ rec.at = "answered" =>
          /\ rec.receipt # NoValue /\ ledger[rec.req] = rec.receipt
          /\ rec.receipt.plan = rec.plan
    /\ Honest(rec.plan)

GraphInv ==
    /\ GraphTyped
    /\ Keyed(gNodes, gEdges) /\ GraphIsWhole
    /\ \A r \in RequestIds : ledger[r] # NoValue => schema = "target"
    /\ Honest(planFile)
    /\ \A c \in Callers : CallerFits(caller[c])

-----------------------------------------------------------------------------
(* Rows, plans and edits of plans.                                         *)

LEMMA RowIsIn ==
    ASSUME NEW nodes, NEW k \in KeysOf(nodes)
    PROVE  Row(nodes, k) \in nodes /\ Row(nodes, k).key = k
BY DEF KeysOf, Row

LEMMA RowIsTheOne ==
    ASSUME NEW nodes, NEW n \in nodes, \A m \in nodes : m.key = n.key => m = n
    PROVE  n.key \in KeysOf(nodes) /\ Row(nodes, n.key) = n
BY RowIsIn DEF KeysOf

LEMMA KeysAreKeys ==
    ASSUME NEW nodes \in SUBSET NodeRow
    PROVE  KeysOf(nodes) \subseteq Key /\ FieldsOf(nodes) \subseteq Key \X Props
BY DEF KeysOf, FieldsOf, NodeRow

LEMMA ValueTyped ==
    ASSUME NEW nodes \in SUBSET NodeRow, NEW f \in FieldsOf(nodes)
    PROVE  ValueOf(nodes, f) \in PropValues \cup {NoValue}
BY RowIsIn DEF FieldsOf, ValueOf, NodeRow, Payload

LEMMA ImageTyped ==
    ASSUME NEW m \in Mappings, NEW k \in Key
    PROVE  Image(m, k) \in Key
BY MigrationAssumption DEF Image

LEMMA NodeSpecTyped ==
    ASSUME NEW inv \in Inventories, NEW m \in Mappings, NEW k \in KeysOf(inv.nodes)
    PROVE  NodeSpec(inv, m, k) \in NodeSpecs
<1> DEFINE group == Group(inv, m, k)
           cover == [f \in FieldsOf(group) |-> Renamed(m, f)]
           props == [p \in Props |-> IF \E f \in DOMAIN cover : cover[f] = p
                                     THEN ValueOf(group, CHOOSE f \in DOMAIN cover : cover[f] = p)
                                     ELSE NoValue]
<1>1. inv.nodes \in SUBSET NodeRow /\ group \in SUBSET NodeRow
  BY DEF Inventories, Group
<1>2. KeysOf(group) \subseteq Key /\ FieldsOf(group) \subseteq Key \X Props /\ k \in Key
  BY <1>1, KeysAreKeys
<1>3. \A f \in FieldsOf(group) : Renamed(m, f) \in Props
  BY <1>2, MigrationAssumption DEF Renamed
<1>4. cover \in [FieldsOf(group) -> Props]
  BY <1>3
<1>5. cover \in Covers
  BY <1>2, <1>4 DEF Covers
<1>6. ASSUME NEW p \in Props, \E f \in DOMAIN cover : cover[f] = p
      PROVE  ValueOf(group, CHOOSE f \in DOMAIN cover : cover[f] = p) \in PropValues \cup {NoValue}
  <2> DEFINE f == CHOOSE f \in DOMAIN cover : cover[f] = p
  <2>1. f \in FieldsOf(group)
    BY <1>6
  <2> HIDE DEF f
  <2> QED BY <1>1, <2>1, ValueTyped DEF f
<1>7. props \in Payload
  BY <1>6 DEF Payload
<1>8. Image(m, k) \in Key
  BY <1>2, ImageTyped
<1>9. NodeSpec(inv, m, k) =
        [sources |-> KeysOf(group), target |-> Image(m, k), cover |-> cover, props |-> props]
  BY DEF NodeSpec
<1> HIDE DEF cover, props, group
<1> QED BY <1>2, <1>5, <1>7, <1>8, <1>9 DEF NodeSpecs

LEMMA PlanTyped ==
    ASSUME NEW inv \in Inventories, NEW m \in Mappings
    PROVE  Plan(inv, m) \in Plans /\ Plan(inv, m).source = inv
<1>1. \A k \in KeysOf(inv.nodes) : NodeSpec(inv, m, k) \in NodeSpecs
  BY NodeSpecTyped
<1>2. ASSUME NEW e \in inv.edges
      PROVE  EdgeSpec(inv, m, e) \in EdgeSpecs
  BY ImageTyped DEF Inventories, EdgeRow, EdgeSpec, EdgeSpecs
<1> QED BY <1>1, <1>2 DEF Plan, Plans

LEMMA NodeSlipsTyped ==
    ASSUME NEW s \in NodeSpecs, NEW t \in NodeSlips(s)
    PROVE  t \in SUBSET NodeSpecs
BY DEF NodeSpecs, Payload, NodeSlips

LEMMA EdgeSlipsTyped ==
    ASSUME NEW s \in EdgeSpecs, NEW t \in EdgeSlips(s)
    PROVE  t \in SUBSET EdgeSpecs
<1>1. \A k \in Key : [s EXCEPT !.to = k] \in EdgeSpecs
  BY DEF EdgeSpecs
<1>2. \A p \in Props, v \in PropValues : [s EXCEPT !.props[p] = v] \in EdgeSpecs
  BY DEF EdgeSpecs, Payload
<1>3. [s EXCEPT !.kept = ~@] \in EdgeSpecs
  BY DEF EdgeSpecs
<1> QED BY <1>1, <1>2, <1>3 DEF EdgeSlips

LEMMA EditsAreEdited ==
    ASSUME NEW plan \in Plans
    PROVE  /\ \A s \in plan.nodes : \A t \in NodeSlips(s) :
                /\ NodesSwapped(plan, s, t) \in Plans
                /\ NodesSwapped(plan, s, t).edited = TRUE
           /\ \A s \in plan.edges : \A t \in EdgeSlips(s) :
                /\ EdgesSwapped(plan, s, t) \in Plans
                /\ EdgesSwapped(plan, s, t).edited = TRUE
BY NodeSlipsTyped, EdgeSlipsTyped DEF Plans, NodesSwapped, EdgesSwapped

-----------------------------------------------------------------------------
(* What a valid plan makes of a graph.                                     *)

LEMMA ValuesAreKept ==
    ASSUME NEW nodes \in SUBSET NodeRow, NEW edges, Keyed(nodes, edges),
           NEW inv, inv.nodes = nodes, NEW s \in NodeSpecs, CoversProps(s, inv)
    PROVE  /\ \A n \in nodes : n.key \in s.sources => Holds(n, s)
           /\ \A q \in Props : s.props[q] # NoValue =>
                 \E n \in nodes : \E p \in Props : n.props[p] = s.props[q]
<1> DEFINE group == {n \in nodes : n.key \in s.sources}
<1>0. \A m, n \in nodes : m.key = n.key => m = n
  BY DEF Keyed
<1>1. /\ DOMAIN s.cover = FieldsOf(group)
      /\ \A f \in DOMAIN s.cover : s.props[s.cover[f]] = ValueOf(group, f)
      /\ \A p \in Props : s.props[p] # NoValue => \E f \in DOMAIN s.cover : s.cover[f] = p
  BY DEF CoversProps
<1>2. \A f \in DOMAIN s.cover : s.cover[f] \in Props
  BY DEF NodeSpecs, Covers
<1>3. ASSUME NEW n \in nodes, n.key \in s.sources, NEW p \in Props, n.props[p] # NoValue
      PROVE  \E q \in Props : s.props[q] = n.props[p]
  <2>1. n.key \in KeysOf(group) /\ Row(group, n.key) = n
    BY <1>0, <1>3, RowIsTheOne
  <2> DEFINE f == <<n.key, p>>
  <2>2. f \in FieldsOf(group)
    BY <1>3, <2>1 DEF FieldsOf
  <2>3. ValueOf(group, f) = n.props[p]
    BY <2>1 DEF ValueOf
  <2> QED BY <1>1, <1>2, <2>2, <2>3
<1>4. ASSUME NEW q \in Props, s.props[q] # NoValue
      PROVE  \E n \in nodes : \E p \in Props : n.props[p] = s.props[q]
  <2>1. PICK f \in FieldsOf(group) : s.props[q] = ValueOf(group, f)
    BY <1>1, <1>4
  <2>2. f[1] \in KeysOf(group) /\ f[2] \in Props
    BY DEF FieldsOf
  <2>3. Row(group, f[1]) \in group
    BY <2>2, RowIsIn
  <2> QED BY <2>1, <2>2, <2>3 DEF ValueOf
<1> QED BY <1>3, <1>4 DEF Holds

LEMMA EdgesAreKept ==
    ASSUME NEW edges, \A e, d \in edges : e.from = d.from /\ e.to = d.to => e = d,
           NEW inv, inv.edges = edges, NEW plan, EdgesCovered(plan, inv), OneIsKept(plan)
    PROVE  {e.props : e \in edges} = {e.props : e \in TargetEdges(plan)}
<1>1. ASSUME NEW s \in plan.edges
      PROVE  \E e \in edges : s.source = <<e.from, e.to>> /\ s.props = e.props
  BY DEF EdgesCovered, EdgesListed
<1>2. ASSUME NEW e \in edges
      PROVE  \E d \in TargetEdges(plan) : d.props = e.props
  <2>1. <<e.from, e.to>> \in {s.source : s \in plan.edges}
    BY DEF EdgesCovered
  <2>2. PICK s \in plan.edges : s.source = <<e.from, e.to>>
    BY <2>1
  <2>3. s.props = e.props
    BY <1>1, <2>2
  <2>4. PICK u \in plan.edges : u.kept /\ u.from = s.from /\ u.to = s.to
    BY DEF OneIsKept
  <2>5. u.props = s.props
    BY <2>4 DEF OneIsKept
  <2>6. [from |-> u.from, to |-> u.to, props |-> u.props] \in TargetEdges(plan)
    BY <2>4 DEF TargetEdges
  <2> QED BY <2>3, <2>5, <2>6
<1>3. ASSUME NEW d \in TargetEdges(plan)
      PROVE  \E e \in edges : e.props = d.props
  BY <1>1 DEF TargetEdges
<1> QED BY <1>2, <1>3

LEMMA EdgeIs ==
    ASSUME NEW e \in EdgeRow
    PROVE  e = [from |-> e.from, to |-> e.to, props |-> e.props]
BY DEF EdgeRow

LEMMA EdgeMoved ==
    ASSUME NEW e \in EdgeRow, NEW k \in Key, NEW l \in Key
    PROVE  /\ [e EXCEPT !.from = k, !.to = l] \in EdgeRow
           /\ [e EXCEPT !.from = k, !.to = l] = [from |-> k, to |-> l, props |-> e.props]
<1> DEFINE d == [e EXCEPT !.from = k, !.to = l]
<1>1. d \in EdgeRow
  BY DEF EdgeRow
<1>2. d.from = k /\ d.to = l /\ d.props = e.props
  BY DEF EdgeRow
<1> HIDE DEF d
<1>3. d = [from |-> k, to |-> l, props |-> e.props]
  BY <1>1, <1>2, EdgeIs
<1> QED BY <1>1, <1>3 DEF d

\* What a plan nobody edited does to an edge.
LEMMA EdgesGoWithTheirEnds ==
    ASSUME NEW inv, NEW m \in Mappings, Buildable(inv, m), NEW plan, plan = Plan(inv, m), NEW e \in inv.edges,
           inv.edges \subseteq EdgeRow
    PROVE  \E s, t \in plan.nodes :
              /\ e.from \in s.sources /\ e.to \in t.sources
              /\ [e EXCEPT !.from = s.target, !.to = t.target] \in TargetEdges(plan)
<1>1. e.from \in KeysOf(inv.nodes) /\ e.to \in KeysOf(inv.nodes)
  BY DEF Buildable, EdgesResolve
<1>2. \A k \in KeysOf(inv.nodes) : /\ NodeSpec(inv, m, k) \in plan.nodes
                                   /\ k \in NodeSpec(inv, m, k).sources
                                   /\ NodeSpec(inv, m, k).target = Image(m, k)
  BY DEF Plan, NodeSpec, Group, KeysOf
<1> DEFINE d == Chosen(Parallel(inv, m, e))
<1>3. e \in Parallel(inv, m, e)
  BY DEF Parallel
<1>4. d \in Parallel(inv, m, e)
  BY <1>3 DEF Chosen
<1>5. /\ d \in inv.edges
      /\ Image(m, d.from) = Image(m, e.from) /\ Image(m, d.to) = Image(m, e.to)
  BY <1>4 DEF Parallel
<1>6. d.props = e.props
  BY <1>5 DEF Buildable, EdgesResolve
<1>7. Parallel(inv, m, d) = Parallel(inv, m, e)
  BY <1>5 DEF Parallel
<1>8. d = Chosen(Parallel(inv, m, d))
  BY <1>7
<1> HIDE DEF d
<1>9. EdgeSpec(inv, m, d) \in plan.edges /\ EdgeSpec(inv, m, d).kept
  BY <1>5, <1>8 DEF Plan, EdgeSpec
<1>10. /\ EdgeSpec(inv, m, d).from = Image(m, e.from)
       /\ EdgeSpec(inv, m, d).to = Image(m, e.to)
       /\ EdgeSpec(inv, m, d).props = e.props
  BY <1>5, <1>6 DEF EdgeSpec
<1>11. [from |-> Image(m, e.from), to |-> Image(m, e.to), props |-> e.props] \in TargetEdges(plan)
  BY <1>9, <1>10 DEF TargetEdges
<1>12. [e EXCEPT !.from = Image(m, e.from), !.to = Image(m, e.to)]
         = [from |-> Image(m, e.from), to |-> Image(m, e.to), props |-> e.props]
  BY ImageTyped, EdgeMoved DEF EdgeRow
<1> DEFINE s == NodeSpec(inv, m, e.from)
           t == NodeSpec(inv, m, e.to)
<1>13. /\ s \in plan.nodes /\ e.from \in s.sources /\ s.target = Image(m, e.from)
       /\ t \in plan.nodes /\ e.to \in t.sources /\ t.target = Image(m, e.to)
  BY <1>1, <1>2
<1> HIDE DEF s, t
<1>14. [e EXCEPT !.from = s.target, !.to = t.target] \in TargetEdges(plan)
  BY <1>11, <1>12, <1>13
<1> QED BY <1>13, <1>14

LEMMA TargetTyped ==
    ASSUME NEW plan \in Plans
    PROVE  TargetNodes(plan) \subseteq NodeRow /\ TargetEdges(plan) \subseteq EdgeRow
BY DEF Plans, TargetNodes, NodeSpecs, NodeRow, TargetEdges, EdgeSpecs, EdgeRow

LEMMA TargetIsWhole ==
    ASSUME NEW plan, NEW inv, Valid(plan, inv)
    PROVE  Whole(TargetNodes(plan), TargetEdges(plan))
<1>1. \A s, t \in plan.nodes : s.target.id = t.target.id => s = t
  BY DEF Valid, NodesCovered
<1>2. \A a, b \in TargetNodes(plan) : a.key.id = b.key.id => a = b
  BY <1>1 DEF TargetNodes
<1>3. KeysOf(TargetNodes(plan)) = {s.target : s \in plan.nodes}
  <2>1. \A s \in plan.nodes : [key |-> s.target, props |-> s.props].key = s.target
    OBVIOUS
  <2> QED BY <2>1 DEF KeysOf, TargetNodes
<1>4. ASSUME NEW e \in TargetEdges(plan)
      PROVE  \E s \in plan.edges : s.kept /\ e = [from |-> s.from, to |-> s.to, props |-> s.props]
  BY DEF TargetEdges
<1>5. \A e \in TargetEdges(plan) : {e.from, e.to} \subseteq KeysOf(TargetNodes(plan))
  BY <1>3, <1>4 DEF Valid, EndsAgree
<1>6. \A e, d \in TargetEdges(plan) : e.from = d.from /\ e.to = d.to => e = d
  BY <1>4 DEF Valid, OneIsKept
<1> QED BY <1>2, <1>5, <1>6 DEF Whole

LEMMA WholeIsKeyed ==
    ASSUME NEW nodes, NEW edges, Whole(nodes, edges)
    PROVE  Keyed(nodes, edges)
BY DEF Whole, Keyed

-----------------------------------------------------------------------------
(* The steps that leave the database alone.                                *)

LEMMA ClosedFits ==
    /\ Closed \in CallerRecs
    /\ \A kind \in {"legacy", "target"} : [Closed EXCEPT !.at = "open", !.kind = kind] \in CallerRecs
BY DEF Closed, CallerRecs

LEMMA GraphInitInv ==
    ASSUME GraphInit
    PROVE  GraphInv
BY MigrationAssumption, ClosedFits DEF GraphInit, GraphIsWhole, CallerFits, Closed, Honest,
   GraphInv, GraphTyped

\* A caller's record moves, and perhaps the plan file.
LEMMA CallerMoves ==
    ASSUME GraphInv, UNCHANGED <<schema, gNodes, gEdges, ledger>>,
           NEW c \in Callers, NEW rec, Sets(c, rec), rec \in CallerRecs, CallerFits(rec),
           planFile' \in Plans \cup {NoValue}, Honest(planFile')
    PROVE  GraphInv'
BY DEF GraphInv, GraphTyped, Sets, GraphIsWhole, CallerFits

LEMMA CallerTyped ==
    ASSUME GraphInv, NEW c \in Callers
    PROVE  caller[c] \in CallerRecs /\ CallerFits(caller[c])
BY DEF GraphInv, GraphTyped

LEMMA ReleasedFits ==
    ASSUME GraphInv, NEW c \in Callers, caller[c].at # "closed"
    PROVE  Released(c) \in CallerRecs /\ CallerFits(Released(c))
BY CallerTyped, ClosedFits DEF CallerRecs, CallerFits, Released, Closed, Honest

LEMMA OpenFits ==
    ASSUME GraphInv, NEW c \in Callers, OpenStore(c)
    PROVE  GraphInv'
<1> DEFINE rec == [Closed EXCEPT !.at = "open", !.kind = schema]
<1>1. schema \in {"legacy", "target"}
  BY DEF GraphInv, GraphTyped
<1>2. rec \in CallerRecs /\ CallerFits(rec)
  BY <1>1, ClosedFits DEF Closed, CallerFits, Honest
<1> HIDE DEF rec
<1>3. /\ UNCHANGED <<schema, gNodes, gEdges, ledger>> /\ Sets(c, rec)
      /\ planFile' \in Plans \cup {NoValue} /\ Honest(planFile')
  BY DEF OpenStore, GraphInv, GraphTyped, rec
<1> QED BY <1>2, <1>3, CallerMoves

LEMMA ReadFits ==
    ASSUME GraphInv, NEW c \in Callers, ReadNodes(c) \/ ReadEdges(c)
    PROVE  GraphInv'
<1>0. /\ caller[c] \in CallerRecs /\ CallerFits(caller[c])
      /\ gNodes \subseteq NodeRow /\ gEdges \subseteq EdgeRow
      /\ planFile \in Plans \cup {NoValue} /\ Honest(planFile)
  BY CallerTyped DEF GraphInv, GraphTyped
<1>1. CASE ReadNodes(c)
  <2> DEFINE rec == [caller[c] EXCEPT !.at = "reading", !.nodes = gNodes]
  <2>1. rec \in CallerRecs /\ CallerFits(rec)
    BY <1>0, <1>1 DEF CallerRecs, CallerFits, ReadNodes
  <2> HIDE DEF rec
  <2>2. UNCHANGED <<schema, gNodes, gEdges, ledger, planFile>> /\ Sets(c, rec)
    BY <1>1 DEF ReadNodes, rec
  <2> QED BY <1>0, <2>1, <2>2, CallerMoves
<1>2. CASE ReadEdges(c)
  <2> DEFINE rec == [caller[c] EXCEPT !.at = "read", !.edges = gEdges]
  <2>1. rec \in CallerRecs /\ CallerFits(rec)
    BY <1>0, <1>2 DEF CallerRecs, CallerFits, ReadEdges
  <2> HIDE DEF rec
  <2>2. UNCHANGED <<schema, gNodes, gEdges, ledger, planFile>> /\ Sets(c, rec)
    BY <1>2 DEF ReadEdges, rec
  <2> QED BY <1>0, <2>1, <2>2, CallerMoves
<1> QED BY <1>1, <1>2

LEMMA DryRunFits ==
    ASSUME GraphInv, NEW c \in Callers, NEW m \in Mappings, DryRun(c, m)
    PROVE  GraphInv'
<1> DEFINE inv == Inventory(caller[c].kind, caller[c].nodes, caller[c].edges)
<1>1. caller[c].at = "read" /\ UNCHANGED <<schema, gNodes, gEdges, ledger>> /\ Sets(c, Released(c))
  BY DEF DryRun
<1>2. planFile' = IF Buildable(inv, m) THEN Plan(inv, m) ELSE planFile
  BY DEF DryRun
<1>3. inv \in Inventories
  BY <1>1, CallerTyped DEF Inventory, Inventories, CallerRecs, CallerFits
<1> HIDE DEF inv
<1>4. Plan(inv, m) \in Plans /\ Plan(inv, m).source = inv
  BY <1>3, PlanTyped
<1>5. Buildable(inv, m) => Honest(Plan(inv, m))
  BY <1>4 DEF Honest
<1>6. planFile' \in Plans \cup {NoValue} /\ Honest(planFile')
  BY <1>2, <1>4, <1>5 DEF GraphInv, GraphTyped
<1>7. Released(c) \in CallerRecs /\ CallerFits(Released(c))
  BY <1>1, ReleasedFits
<1> QED BY <1>1, <1>6, <1>7, CallerMoves

LEMMA EditFits ==
    ASSUME GraphInv, EditPlan
    PROVE  GraphInv'
<1>1. UNCHANGED <<schema, gNodes, gEdges, ledger, caller>> /\ planFile # NoValue
  BY DEF EditPlan
<1>2. planFile \in Plans
  BY <1>1 DEF GraphInv, GraphTyped
<1>3. planFile' \in Plans /\ planFile'.edited = TRUE
  BY <1>2, EditsAreEdited DEF EditPlan
<1>4. Honest(planFile')
  BY <1>3 DEF Honest
<1>5. GraphTyped'
  BY <1>1, <1>3 DEF GraphInv, GraphTyped
<1>6. (Keyed(gNodes, gEdges) /\ GraphIsWhole)'
  BY <1>1 DEF GraphInv, GraphIsWhole
<1>7. \A d \in Callers : CallerFits(caller[d])'
  BY <1>1 DEF GraphInv, CallerFits
<1> QED BY <1>1, <1>4, <1>5, <1>6, <1>7 DEF GraphInv

LEMMA LookUpFits ==
    ASSUME GraphInv, NEW c \in Callers, NEW r \in RequestIds, LookUp(c, r)
    PROVE  GraphInv'
<1>0. /\ caller[c] \in CallerRecs /\ CallerFits(caller[c])
      /\ planFile \in Plans \cup {NoValue} /\ Honest(planFile)
      /\ ledger[r] \in Receipts \cup {NoValue}
  BY CallerTyped DEF GraphInv, GraphTyped
<1>1. /\ caller[c].at \in {"open", "refused"} /\ planFile # NoValue
      /\ UNCHANGED <<schema, gNodes, gEdges, ledger, planFile>>
  BY DEF LookUp
<1> DEFINE rec(at) == [caller[c] EXCEPT !.at = at, !.plan = planFile, !.req = r]
           answer == [caller[c] EXCEPT !.at = "answered", !.plan = planFile, !.req = r, !.receipt = ledger[r]]
<1>2. \/ ledger[r] # NoValue /\ ledger[r].plan = planFile /\ Sets(c, answer)
      \/ \E at \in {"ready", "refused"} : Sets(c, rec(at))
  BY DEF LookUp, Answers
<1>3. CASE ledger[r] # NoValue /\ ledger[r].plan = planFile /\ Sets(c, answer)
  <2>1. answer \in CallerRecs /\ CallerFits(answer)
    BY <1>0, <1>1, <1>3 DEF CallerRecs, CallerFits
  <2> HIDE DEF answer
  <2> QED BY <1>0, <1>1, <1>3, <2>1, CallerMoves
<1>4. ASSUME NEW at \in {"ready", "refused"}, Sets(c, rec(at))
      PROVE  GraphInv'
  <2>1. rec(at) \in CallerRecs /\ CallerFits(rec(at))
    BY <1>0, <1>1 DEF CallerRecs, CallerFits
  <2> HIDE DEF rec
  <2> QED BY <1>0, <1>1, <1>4, <2>1, CallerMoves
<1> HIDE DEF rec, answer
<1> QED BY <1>2, <1>3, <1>4

LEMMA SettleFits ==
    ASSUME GraphInv, NEW c \in Callers, Settle(c)
    PROVE  GraphInv'
<1> DEFINE r == caller[c].req
           answer == [caller[c] EXCEPT !.at = "answered", !.receipt = ledger[r], !.kind = "target"]
           refusal == [caller[c] EXCEPT !.at = "refused"]
           denial == [caller[c] EXCEPT !.at = "refused", !.receipt = NoValue]
<1>1. caller[c].at = "ready" /\ UNCHANGED <<schema, gNodes, gEdges, ledger, planFile>>
  BY DEF Settle
<1>0. /\ caller[c] \in CallerRecs /\ CallerFits(caller[c])
      /\ planFile \in Plans \cup {NoValue} /\ Honest(planFile)
      /\ r \in RequestIds /\ ledger[r] \in Receipts \cup {NoValue}
  BY <1>1, CallerTyped DEF GraphInv, GraphTyped, CallerFits
<1>2. \/ ledger[r] # NoValue /\ ledger[r].plan = caller[c].plan /\ Sets(c, answer)
      \/ Sets(c, denial) \/ Sets(c, refusal) \/ Sets(c, Released(c))
  BY <1>0 DEF Settle, Replays, CallerRecs
<1>3. CASE ledger[r] # NoValue /\ ledger[r].plan = caller[c].plan /\ Sets(c, answer)
  <2>1. schema = "target"
    BY <1>0, <1>3 DEF GraphInv
  <2>2. answer \in CallerRecs /\ CallerFits(answer)
    BY <1>0, <1>1, <1>3, <2>1 DEF CallerRecs, CallerFits
  <2> HIDE DEF answer
  <2> QED BY <1>0, <1>1, <1>3, <2>2, CallerMoves
<1>4. CASE Sets(c, denial)
  <2>1. denial \in CallerRecs /\ CallerFits(denial)
    BY <1>0, <1>1 DEF CallerRecs, CallerFits
  <2> HIDE DEF denial
  <2> QED BY <1>0, <1>1, <1>4, <2>1, CallerMoves
<1>5. CASE Sets(c, refusal)
  <2>1. refusal \in CallerRecs /\ CallerFits(refusal)
    BY <1>0, <1>1 DEF CallerRecs, CallerFits
  <2> HIDE DEF refusal
  <2> QED BY <1>0, <1>1, <1>5, <2>1, CallerMoves
<1>6. CASE Sets(c, Released(c))
  BY <1>0, <1>1, <1>6, ReleasedFits, CallerMoves
<1> QED BY <1>2, <1>3, <1>4, <1>5, <1>6

-----------------------------------------------------------------------------
(* The cutover.                                                            *)

LEMMA CommitIs ==
    ASSUME GraphInv, NEW c \in Callers, Commit(c)
    PROVE  LET plan == caller[c].plan
               r == caller[c].req
           IN /\ plan \in Plans /\ Honest(plan) /\ r \in RequestIds /\ ledger[r] = NoValue
              /\ Valid(plan, Inventory(caller[c].kind, gNodes, gEdges))
              /\ gNodes' = TargetNodes(plan) /\ gEdges' = TargetEdges(plan)
              /\ Receipt(plan, TargetNodes(plan), TargetEdges(plan)) \in Receipts
<1> DEFINE plan == caller[c].plan
           r == caller[c].req
<1>1. caller[c] \in CallerRecs /\ CallerFits(caller[c]) /\ caller[c].at = "ready"
  BY CallerTyped DEF Commit
<1>2. plan \in Plans /\ Honest(plan) /\ r \in RequestIds
  BY <1>1 DEF CallerRecs, CallerFits
<1>3. /\ ledger[r] = NoValue /\ Valid(plan, Inventory(caller[c].kind, gNodes, gEdges))
      /\ gNodes' = TargetNodes(plan) /\ gEdges' = TargetEdges(plan)
  BY DEF Commit, Replays, Acceptable
<1>4. gNodes \subseteq NodeRow /\ gEdges \subseteq EdgeRow
  BY DEF GraphInv, GraphTyped
<1>5. TargetNodes(plan) \subseteq NodeRow /\ TargetEdges(plan) \subseteq EdgeRow
  BY <1>2, TargetTyped
<1>6. <<gNodes, gEdges>> \in Contents /\ <<TargetNodes(plan), TargetEdges(plan)>> \in Contents
  BY <1>4, <1>5 DEF Contents
<1> HIDE DEF plan, r
<1>7. Receipt(plan, TargetNodes(plan), TargetEdges(plan)) \in Receipts
  BY <1>2, <1>6 DEF Receipt, Receipts
<1> QED BY <1>2, <1>3, <1>7 DEF plan, r

LEMMA CommitFits ==
    ASSUME GraphInv, NEW c \in Callers, Commit(c)
    PROVE  GraphInv'
<1> DEFINE plan == caller[c].plan
           r == caller[c].req
           receipt == Receipt(plan, TargetNodes(plan), TargetEdges(plan))
           answer == [caller[c] EXCEPT !.at = "answered", !.receipt = receipt, !.kind = "target"]
<1>1. /\ plan \in Plans /\ Honest(plan) /\ r \in RequestIds /\ ledger[r] = NoValue
      /\ Valid(plan, Inventory(caller[c].kind, gNodes, gEdges))
      /\ gNodes' = TargetNodes(plan) /\ gEdges' = TargetEdges(plan)
      /\ receipt \in Receipts
  BY CommitIs
<1>2. /\ schema' = "target" /\ planFile' = planFile /\ caller[c].at = "ready"
      /\ ledger' = [ledger EXCEPT ![r] = receipt]
      /\ Sets(c, answer) \/ Sets(c, Released(c))
  BY DEF Commit
<1>3. receipt.plan = plan /\ receipt # NoValue
  BY <1>1, MigrationAssumption DEF Receipt
<1>4. /\ ledger' \in [RequestIds -> Receipts \cup {NoValue}]
      /\ \A q \in RequestIds : ledger'[q] = IF q = r THEN receipt ELSE ledger[q]
  BY <1>1, <1>2 DEF GraphInv, GraphTyped
<1>5. gNodes' \subseteq NodeRow /\ gEdges' \subseteq EdgeRow /\ Whole(gNodes', gEdges')
  BY <1>1, TargetTyped, TargetIsWhole
<1>6. Keyed(gNodes', gEdges')
  BY <1>5, WholeIsKeyed
<1>7. caller[c] \in CallerRecs /\ CallerFits(caller[c])
  BY CallerTyped
<1> HIDE DEF receipt
<1>9. \E rec \in CallerRecs :
         /\ caller' = [caller EXCEPT ![c] = rec]
         /\ rec.at # "closed" => rec.kind # "partial"
         /\ rec.at \in {"ready", "answered"} => rec.req \in RequestIds /\ rec.plan # NoValue
         /\ rec.at = "answered" =>
               rec.receipt # NoValue /\ ledger'[rec.req] = rec.receipt /\ rec.receipt.plan = rec.plan
         /\ Honest(rec.plan)
  <2>1. CASE Sets(c, answer)
    <3>1. answer \in CallerRecs
      BY <1>1, <1>7 DEF CallerRecs
    <3>2. /\ answer.at = "answered" /\ answer.kind = "target" /\ answer.receipt = receipt
          /\ answer.req = r /\ answer.plan = plan
      BY <1>7 DEF CallerRecs
    <3> HIDE DEF answer, plan, r
    <3>3. ledger'[answer.req] = answer.receipt /\ answer.receipt.plan = answer.plan
      BY <1>1, <1>3, <1>4, <3>2
    <3>4. plan # NoValue
      BY <1>1, <1>2, <1>7 DEF CallerFits, plan
    <3> QED BY <1>1, <1>3, <2>1, <3>1, <3>2, <3>3, <3>4 DEF Sets
  <2>2. CASE Sets(c, Released(c))
    BY <1>2, ReleasedFits, <2>2 DEF Released, Closed, Sets, CallerFits
  <2> QED BY <1>2, <2>1, <2>2
<1>10. PICK rec \in CallerRecs :
         /\ caller' = [caller EXCEPT ![c] = rec]
         /\ rec.at # "closed" => rec.kind # "partial"
         /\ rec.at \in {"ready", "answered"} => rec.req \in RequestIds /\ rec.plan # NoValue
         /\ rec.at = "answered" =>
               rec.receipt # NoValue /\ ledger'[rec.req] = rec.receipt /\ rec.receipt.plan = rec.plan
         /\ Honest(rec.plan)
  BY <1>9
<1>11. caller' \in [Callers -> CallerRecs] /\ \A d \in Callers : caller'[d] = IF d = c THEN rec ELSE caller[d]
  BY <1>10 DEF GraphInv, GraphTyped
<1>12. GraphTyped'
  BY <1>2, <1>4, <1>5, <1>11 DEF GraphInv, GraphTyped
<1>13. (Keyed(gNodes, gEdges) /\ GraphIsWhole)'
  BY <1>5, <1>6 DEF GraphIsWhole
<1>14. ASSUME NEW d \in Callers
       PROVE  CallerFits(caller[d])'
  BY <1>2, <1>10, <1>11, CallerTyped, <1>1, <1>4 DEF CallerFits
<1>15. (\A q \in RequestIds : ledger[q] # NoValue => schema = "target")'
  BY <1>2
<1>16. Honest(planFile)'
  BY <1>2 DEF GraphInv
<1> QED BY <1>12, <1>13, <1>14, <1>15, <1>16 DEF GraphInv

-----------------------------------------------------------------------------
(* The writers of the target schema.                                       *)

LEMMA WriterMay ==
    ASSUME GraphInv, NEW c \in Callers, MayWrite(c)
    PROVE  /\ schema = "target" /\ Whole(gNodes, gEdges)
           /\ gNodes \in SUBSET NodeRow /\ gEdges \in SUBSET EdgeRow
BY CallerTyped DEF GraphInv, GraphTyped, CallerFits, MayWrite, GraphIsWhole

LEMMA WriterFits ==
    ASSUME GraphInv, GraphRest, gNodes' \subseteq NodeRow, gEdges' \subseteq EdgeRow,
           Whole(gNodes', gEdges')
    PROVE  GraphInv'
BY WholeIsKeyed DEF GraphRest, GraphInv, GraphTyped, GraphIsWhole, CallerFits

LEMMA UpsertNodeFits ==
    ASSUME GraphInv, NEW c \in Callers, NEW row \in NodeRow, UpsertNode(c, row)
    PROVE  GraphInv'
<1>1. /\ Whole(gNodes, gEdges) /\ gNodes \in SUBSET NodeRow /\ gEdges \in SUBSET EdgeRow
  BY WriterMay DEF UpsertNode
<1>2. /\ row.key.id \notin {n.key.id : n \in gNodes}
      /\ gNodes' = gNodes \cup {row} /\ gEdges' = gEdges /\ GraphRest
  BY DEF UpsertNode
<1>3. KeysOf(gNodes) \subseteq KeysOf(gNodes')
  BY <1>2 DEF KeysOf
<1>4. Whole(gNodes', gEdges')
  <2>1. \A m, n \in gNodes' : m.key.id = n.key.id => m = n
    BY <1>1, <1>2 DEF Whole
  <2>2. \A e \in gEdges' : {e.from, e.to} \subseteq KeysOf(gNodes')
    BY <1>1, <1>2, <1>3 DEF Whole
  <2>3. \A e, d \in gEdges' : e.from = d.from /\ e.to = d.to => e = d
    BY <1>1, <1>2 DEF Whole
  <2> QED BY <2>1, <2>2, <2>3 DEF Whole
<1> QED BY <1>1, <1>2, <1>4, WriterFits

LEMMA UpdateNodeFits ==
    ASSUME GraphInv, NEW c \in Callers, NEW old, NEW row \in NodeRow, UpdateNode(c, old, row)
    PROVE  GraphInv'
<1> DEFINE moved(k) == IF k = old.key THEN row.key ELSE k
<1>1. /\ Whole(gNodes, gEdges) /\ gNodes \in SUBSET NodeRow /\ gEdges \in SUBSET EdgeRow
  BY WriterMay DEF UpdateNode
<1>2. /\ old \in gNodes /\ row.key.id = old.key.id
      /\ gNodes' = (gNodes \ {old}) \cup {row}
      /\ gEdges' = {[e EXCEPT !.from = moved(e.from), !.to = moved(e.to)] : e \in gEdges}
      /\ GraphRest
  BY DEF UpdateNode
<1>3. \A k \in KeysOf(gNodes) : k \in Key /\ moved(k) \in Key /\ moved(k) \in KeysOf(gNodes')
  BY <1>1, <1>2 DEF KeysOf, NodeRow
<1>4. \A k, l \in KeysOf(gNodes) : moved(k) = moved(l) => k = l
  <2> SUFFICES ASSUME NEW k \in KeysOf(gNodes), NEW l \in KeysOf(gNodes), moved(k) = moved(l)
               PROVE  k = l
    OBVIOUS
  <2>1. \A n \in gNodes : n.key.id = row.key.id => n = old
    BY <1>1, <1>2 DEF Whole
  <2>2. \A j \in KeysOf(gNodes) : j = row.key => j = old.key
    BY <2>1 DEF KeysOf
  <2> QED BY <2>2
<1>5. \A e \in gEdges : e.from \in KeysOf(gNodes) /\ e.to \in KeysOf(gNodes) /\ e \in EdgeRow
  BY <1>1 DEF Whole
<1> DEFINE image(e) == [from |-> moved(e.from), to |-> moved(e.to), props |-> e.props]
<1>6. \A e \in gEdges : /\ [e EXCEPT !.from = moved(e.from), !.to = moved(e.to)] = image(e)
                       /\ image(e) \in EdgeRow
  <2> SUFFICES ASSUME NEW e \in gEdges
               PROVE  /\ [e EXCEPT !.from = moved(e.from), !.to = moved(e.to)] = image(e)
                      /\ image(e) \in EdgeRow
    OBVIOUS
  <2>1. moved(e.from) \in Key /\ moved(e.to) \in Key /\ e \in EdgeRow
    BY <1>3, <1>5
  <2>2. PICK k \in Key : k = moved(e.from)
    BY <2>1
  <2>3. PICK l \in Key : l = moved(e.to)
    BY <2>1
  <2> HIDE DEF moved
  <2>4. /\ [e EXCEPT !.from = k, !.to = l] \in EdgeRow
        /\ [e EXCEPT !.from = k, !.to = l] = [from |-> k, to |-> l, props |-> e.props]
    BY ONLY <2>1, k \in Key, l \in Key, EdgeMoved
  <2> QED BY ONLY <2>2, <2>3, <2>4
<1>7. gEdges' = {image(e) : e \in gEdges}
  <2> HIDE DEF moved, image
  <2> QED BY <1>2, <1>6
<1>8. gEdges' \subseteq EdgeRow
  <2> HIDE DEF image
  <2> QED BY <1>6, <1>7
<1>9. \A d \in gEdges' : {d.from, d.to} \subseteq KeysOf(gNodes')
  <2> SUFFICES ASSUME NEW d \in gEdges'
               PROVE  {d.from, d.to} \subseteq KeysOf(gNodes')
    OBVIOUS
  <2>1. PICK e \in gEdges : d = image(e)
    BY <1>7
  <2>2. d.from = moved(e.from) /\ d.to = moved(e.to)
    BY <2>1
  <2> HIDE DEF moved, image
  <2> QED BY <1>3, <1>5, <2>2
<1>10. \A x, y \in gEdges' : x.from = y.from /\ x.to = y.to => x = y
  <2> SUFFICES ASSUME NEW x \in gEdges', NEW y \in gEdges', x.from = y.from, x.to = y.to
               PROVE  x = y
    OBVIOUS
  <2>1. PICK e \in gEdges : x = image(e)
    BY <1>7
  <2>2. PICK d \in gEdges : y = image(d)
    BY <1>7
  <2>3. moved(e.from) = moved(d.from) /\ moved(e.to) = moved(d.to)
    <3> HIDE DEF moved
    <3> QED BY <2>1, <2>2
  <2> HIDE DEF moved, image
  <2>4. e.from = d.from /\ e.to = d.to
    BY <1>4, <1>5, <2>3
  <2>5. e = d
    BY <1>1, <2>4 DEF Whole
  <2> QED BY <2>1, <2>2, <2>5
<1>11. \A m, n \in gNodes' : m.key.id = n.key.id => m = n
  <2>1. \A m, n \in gNodes : m.key.id = n.key.id => m = n
    BY <1>1 DEF Whole
  <2>2. \A m \in gNodes \ {old} : m.key.id # row.key.id
    BY ONLY <1>2, <2>1
  <2>3. \A m \in gNodes' : m = row \/ m \in gNodes \ {old}
    BY ONLY <1>2
  <2> QED BY ONLY <2>1, <2>2, <2>3
<1>12. Whole(gNodes', gEdges')
  BY <1>9, <1>10, <1>11 DEF Whole
<1>13. gNodes' \subseteq NodeRow
  BY <1>1, <1>2
<1> QED BY <1>2, <1>8, <1>12, <1>13, WriterFits

LEMMA DeleteNodeFits ==
    ASSUME GraphInv, NEW c \in Callers, NEW k, DeleteNode(c, k)
    PROVE  GraphInv'
BY WriterMay, WriterFits DEF DeleteNode, EdgesBeside, KeysOf, Whole

LEMMA UpsertEdgeFits ==
    ASSUME GraphInv, NEW c \in Callers, NEW row \in EdgeRow, UpsertEdge(c, row)
    PROVE  GraphInv'
BY WriterMay, WriterFits DEF UpsertEdge, Whole

LEMMA UpdateEdgeFits ==
    ASSUME GraphInv, NEW c \in Callers, NEW old, NEW props \in Payload, UpdateEdge(c, old, props)
    PROVE  GraphInv'
<1> DEFINE new == [old EXCEPT !.props = props]
<1>1. /\ Whole(gNodes, gEdges) /\ gNodes \in SUBSET NodeRow /\ gEdges \in SUBSET EdgeRow
  BY WriterMay DEF UpdateEdge
<1>2. /\ old \in gEdges /\ gEdges' = (gEdges \ {old}) \cup {new} /\ gNodes' = gNodes /\ GraphRest
  BY DEF UpdateEdge
<1>3. new \in EdgeRow /\ new.from = old.from /\ new.to = old.to
  BY <1>1, <1>2 DEF EdgeRow
<1> HIDE DEF new
<1>4. \A d \in gEdges' : d # new => d \in gEdges /\ ~(d.from = old.from /\ d.to = old.to)
  BY <1>1, <1>2 DEF Whole
<1>5. \A d, e \in gEdges' : d.from = e.from /\ d.to = e.to => d = e
  BY <1>1, <1>3, <1>4 DEF Whole
<1>6. \A d \in gEdges' : {d.from, d.to} \subseteq KeysOf(gNodes)
  BY <1>1, <1>2, <1>3 DEF Whole
<1>7. \A m, n \in gNodes : m.key.id = n.key.id => m = n
  BY <1>1 DEF Whole
<1>8. Whole(gNodes', gEdges')
  BY <1>2, <1>5, <1>6, <1>7 DEF Whole
<1>9. gEdges' \subseteq EdgeRow
  BY <1>1, <1>2, <1>3
<1> QED BY <1>1, <1>2, <1>8, <1>9, WriterFits

LEMMA DeleteEdgeFits ==
    ASSUME GraphInv, NEW c \in Callers, NEW e, NEW v, DeleteEdge(c, e, v)
    PROVE  GraphInv'
BY WriterMay, WriterFits DEF DeleteEdge, Whole

LEMMA BackfillFits ==
    ASSUME GraphInv, NEW c \in Callers, NEW v \in PropValues, BackfillProvenance(c, v)
    PROVE  GraphInv'
<1>1. /\ Whole(gNodes, gEdges) /\ gNodes \in SUBSET NodeRow /\ gEdges \in SUBSET EdgeRow
  BY WriterMay DEF BackfillProvenance
<1>2. PICK ns \in SUBSET gNodes, es \in SUBSET gEdges :
        /\ gNodes' = (gNodes \ ns) \cup {Owned(n, v) : n \in ns}
        /\ gEdges' = (gEdges \ es) \cup {Owned(e, v) : e \in es}
        /\ GraphRest
  BY DEF BackfillProvenance
<1>3. \A n \in gNodes : Owned(n, v) \in NodeRow /\ Owned(n, v).key = n.key
  BY <1>1, MigrationAssumption DEF Owned, NodeRow, Payload
<1>4. \A e \in gEdges : Owned(e, v) \in EdgeRow /\ Owned(e, v).from = e.from /\ Owned(e, v).to = e.to
  BY <1>1, MigrationAssumption DEF Owned, EdgeRow, Payload
<1>5. gNodes' \subseteq NodeRow /\ gEdges' \subseteq EdgeRow
  BY <1>1, <1>2, <1>3, <1>4
<1> DEFINE now(n) == IF n \in ns THEN Owned(n, v) ELSE n
           then(e) == IF e \in es THEN Owned(e, v) ELSE e
<1>6. \A m \in gNodes' : \E n \in gNodes : m = now(n) /\ m.key = n.key
  BY <1>2, <1>3
<1>7. \A d \in gEdges' : \E e \in gEdges : d = then(e) /\ d.from = e.from /\ d.to = e.to
  BY <1>2, <1>4
<1>8. KeysOf(gNodes) \subseteq KeysOf(gNodes')
  <2>1. \A n \in gNodes : now(n) \in gNodes' /\ now(n).key = n.key
    BY <1>2, <1>3
  <2> HIDE DEF now
  <2> QED BY <2>1 DEF KeysOf
<1> HIDE DEF now, then
<1>9. \A m, n \in gNodes' : m.key.id = n.key.id => m = n
  BY <1>1, <1>6 DEF Whole
<1>10. \A d, e \in gEdges' : d.from = e.from /\ d.to = e.to => d = e
  BY <1>1, <1>7 DEF Whole
<1>11. \A d \in gEdges' : {d.from, d.to} \subseteq KeysOf(gNodes')
  BY <1>1, <1>7, <1>8 DEF Whole
<1>12. Whole(gNodes', gEdges')
  BY <1>9, <1>10, <1>11 DEF Whole
<1> QED BY <1>2, <1>5, <1>12, WriterFits

-----------------------------------------------------------------------------
(* The results.                                                            *)

LEMMA GraphStepInv ==
    ASSUME GraphInv, GraphNext
    PROVE  GraphInv'
<1>1. ASSUME NEW c \in Callers, OpenStore(c) \/ ReadNodes(c) \/ ReadEdges(c) \/ Commit(c) \/ Settle(c)
      PROVE  GraphInv'
  BY <1>1, OpenFits, ReadFits, CommitFits, SettleFits
<1>2. ASSUME NEW c \in Callers, NEW m \in Mappings, DryRun(c, m)
      PROVE  GraphInv'
  BY <1>2, DryRunFits
<1>3. ASSUME NEW c \in Callers, NEW r \in RequestIds, LookUp(c, r)
      PROVE  GraphInv'
  BY <1>3, LookUpFits
<1>4. ASSUME NEW c \in Callers, NEW k \in Key, DeleteNode(c, k)
      PROVE  GraphInv'
  BY <1>4, DeleteNodeFits
<1>5. ASSUME NEW c \in Callers, NEW k \in Key, NEW p \in NewRows,
             \/ UpsertNode(c, [key |-> k, props |-> p])
             \/ \E old \in caller[c].nodes : UpdateNode(c, old, [key |-> k, props |-> p])
      PROVE  GraphInv'
  BY MigrationAssumption, <1>5, UpsertNodeFits, UpdateNodeFits DEF NodeRow
<1>6. ASSUME NEW c \in Callers, NEW k \in Key, NEW p \in NewRows, NEW l \in Key,
             UpsertEdge(c, [from |-> k, to |-> l, props |-> p])
      PROVE  GraphInv'
  BY MigrationAssumption, <1>6, UpsertEdgeFits DEF EdgeRow
<1>7. ASSUME NEW c \in Callers, NEW e \in gEdges,
             \/ \E v \in PropValues : DeleteEdge(c, e, v)
             \/ \E p \in NewRows : UpdateEdge(c, e, p)
      PROVE  GraphInv'
  BY MigrationAssumption, <1>7, DeleteEdgeFits, UpdateEdgeFits
<1>8. ASSUME NEW c \in Callers, NEW v \in PropValues, BackfillProvenance(c, v)
      PROVE  GraphInv'
  BY <1>8, BackfillFits
<1> QED BY <1>1, <1>2, <1>3, <1>4, <1>5, <1>6, <1>7, <1>8, EditFits DEF GraphNext

LEMMA GraphInvHolds == GraphSpec => []GraphInv
<1>1. GraphInv /\ UNCHANGED graphVars => GraphInv'
  BY DEF GraphInv, GraphTyped, GraphIsWhole, CallerFits, graphVars
<1>2. GraphInv /\ [GraphNext]_graphVars => GraphInv'
  BY <1>1, GraphStepInv
<1> QED BY <1>2, GraphInitInv, PTL DEF GraphSpec

\* The database and the callers keep their types (stores/_sql_graph_base.py).
THEOREM GraphTypeCorrect == GraphSpec => []GraphTypeOK
<1>1. GraphInv => GraphTypeOK
  BY DEF GraphInv, GraphTyped, GraphTypeOK, CallerRecs
<1> QED BY <1>1, GraphInvHolds, PTL

\* In the target schema no id is there twice, no edge is without its ends, and
\* no two edges run between the same ends, whatever was edited in a plan and
\* however the writers and the cutover follow each other (_apply_migration,
\* update_node, backfill_pack_provenance).
THEOREM GraphStaysWhole == GraphSpec => []GraphIsWhole
<1>1. GraphInv => GraphIsWhole
  BY DEF GraphInv
<1> QED BY <1>1, GraphInvHolds, PTL

LEMMA WritersLeaveTheRest ==
    /\ \A c, x : DeleteNode(c, x) \/ UpsertNode(c, x) \/ UpsertEdge(c, x) \/ BackfillProvenance(c, x)
                  => ledger' = ledger /\ caller' = caller
    /\ \A c, x, y : UpdateNode(c, x, y) \/ DeleteEdge(c, x, y) \/ UpdateEdge(c, x, y)
                  => ledger' = ledger /\ caller' = caller
    /\ EditPlan => ledger' = ledger /\ caller' = caller
BY DEF DeleteNode, UpsertNode, UpsertEdge, BackfillProvenance, GraphRest, UpdateNode, DeleteEdge,
   UpdateEdge, EditPlan

\* Who writes the ledger.
LEMMA OnlyCommitsAreRecorded ==
    ASSUME GraphNext, ledger' # ledger
    PROVE  \E c \in Callers : Commit(c)
BY WritersLeaveTheRest DEF OpenStore, ReadNodes, ReadEdges, Settle, DryRun, LookUp, GraphNext

CommitLosesNothing(plan) ==
    /\ \A n \in gNodes : \E s \in plan.nodes :
          n.key \in s.sources /\ \E t \in gNodes' : t.key = s.target /\ Holds(n, t)
    /\ \A t \in gNodes' : \A q \in Props : t.props[q] # NoValue =>
          \E n \in gNodes : \E p \in Props : n.props[p] = t.props[q]
    /\ {e.props : e \in gEdges} = {e.props : e \in gEdges'}
    /\ ~plan.edited => \A e \in gEdges : \E s, t \in plan.nodes :
          /\ e.from \in s.sources /\ e.to \in t.sources
          /\ [e EXCEPT !.from = s.target, !.to = t.target] \in gEdges'

LEMMA CommitKeepsAll ==
    ASSUME GraphInv, NEW c \in Callers, Commit(c)
    PROVE  CommitLosesNothing(caller[c].plan)
<1> DEFINE plan == caller[c].plan
           inv == Inventory(caller[c].kind, gNodes, gEdges)
<1>1. /\ plan \in Plans /\ Honest(plan) /\ Valid(plan, inv)
      /\ gNodes' = TargetNodes(plan) /\ gEdges' = TargetEdges(plan)
  BY CommitIs
<1>2. inv.nodes = gNodes /\ inv.edges = gEdges
  BY DEF Inventory
<1>3. gNodes \in SUBSET NodeRow /\ gEdges \in SUBSET EdgeRow /\ Keyed(gNodes, gEdges)
  BY DEF GraphInv, GraphTyped
<1> HIDE DEF plan, inv
<1>4. ASSUME NEW s \in plan.nodes
      PROVE  /\ [key |-> s.target, props |-> s.props] \in gNodes'
             /\ \A n \in gNodes : n.key \in s.sources => Holds(n, s)
             /\ \A q \in Props : s.props[q] # NoValue =>
                   \E n \in gNodes : \E p \in Props : n.props[p] = s.props[q]
  <2>1. [key |-> s.target, props |-> s.props] \in gNodes'
    BY <1>1 DEF TargetNodes
  <2>2. s \in NodeSpecs /\ CoversProps(s, inv)
    BY <1>1 DEF Plans, Valid, NodesCovered
  <2>4. PICK nodes \in SUBSET NodeRow : nodes = gNodes
    BY <1>3
  <2>5. inv.nodes = nodes
    BY <1>2, <2>4
  <2>k. Keyed(nodes, gEdges)
    BY <1>3, <2>4
  <2>i. PICK all : all = inv
    OBVIOUS
  <2>6. /\ \A n \in nodes : n.key \in s.sources => Holds(n, s)
        /\ \A q \in Props : s.props[q] # NoValue => \E n \in nodes : \E p \in Props : n.props[p] = s.props[q]
    BY <2>2, <2>5, <2>i, <2>k, ValuesAreKept
  <2> QED BY ONLY <2>1, <2>4, <2>6
<1>5. \A n \in gNodes : \E s \in plan.nodes :
         n.key \in s.sources /\ \E t \in gNodes' : t.key = s.target /\ Holds(n, t)
  <2> SUFFICES ASSUME NEW n \in gNodes
               PROVE  \E s \in plan.nodes :
                         n.key \in s.sources /\ \E t \in gNodes' : t.key = s.target /\ Holds(n, t)
    OBVIOUS
  <2>1. n.key \in UNION {s.sources : s \in plan.nodes}
    BY <1>1, <1>2 DEF Valid, NodesCovered, KeysOf
  <2>2. PICK s \in plan.nodes : n.key \in s.sources
    BY <2>1
  <2> DEFINE t == [key |-> s.target, props |-> s.props]
  <2>3. t.key = s.target /\ t.props = s.props /\ t \in gNodes'
    BY <1>4
  <2> HIDE DEF t
  <2>4. Holds(n, s)
    BY <1>4, <2>2
  <2>5. Holds(n, t)
    BY <2>3, <2>4 DEF Holds
  <2> QED BY <2>2, <2>3, <2>5
<1>6. \A t \in gNodes' : \A q \in Props : t.props[q] # NoValue =>
         \E n \in gNodes : \E p \in Props : n.props[p] = t.props[q]
  BY <1>1, <1>4 DEF TargetNodes
<1>7. {e.props : e \in gEdges} = {e.props : e \in gEdges'}
  BY <1>1, <1>2, <1>3, EdgesAreKept DEF Keyed, Valid
<1>8. ASSUME ~plan.edited, NEW e \in gEdges
      PROVE  \E s, t \in plan.nodes :
                /\ e.from \in s.sources /\ e.to \in t.sources
                /\ [e EXCEPT !.from = s.target, !.to = t.target] \in gEdges'
  BY CallerTyped, <1>1, <1>8, <1>2, <1>3, EdgesGoWithTheirEnds DEF CallerFits, Commit, plan, Honest,
     Valid
<1>9. CommitLosesNothing(plan)
  BY <1>5, <1>6, <1>7, <1>8 DEF CommitLosesNothing
<1> QED BY <1>9 DEF plan

LEMMA CutoverStep == GraphInv /\ [GraphNext]_graphVars => [\A r \in RequestIds :
    ledger[r] = NoValue /\ ledger'[r] # NoValue => CommitLosesNothing(ledger'[r].plan)]_graphVars
<1> SUFFICES ASSUME GraphInv, GraphNext, NEW r \in RequestIds, ledger[r] = NoValue, ledger'[r] # NoValue
             PROVE  CommitLosesNothing(ledger'[r].plan)
  BY DEF graphVars
<1>1. PICK c \in Callers : Commit(c)
  BY OnlyCommitsAreRecorded
<1> DEFINE receipt == Receipt(caller[c].plan, TargetNodes(caller[c].plan), TargetEdges(caller[c].plan))
<1>2. ledger' = [ledger EXCEPT ![caller[c].req] = receipt]
  BY <1>1 DEF Commit
<1>3. ledger'[r] = receipt
  BY <1>2 DEF GraphInv, GraphTyped
<1>4. ledger'[r].plan = caller[c].plan
  BY <1>3 DEF Receipt
<1> QED BY <1>1, <1>4, CommitKeepsAll

\* A cutover that leaves a receipt loses no property value and no edge and makes
\* none up, whatever was edited in its plan, and an edge of a plan that nobody
\* edited runs between what its ends became (_validate_decoded_plan).
THEOREM CutoverKeepsAll == GraphSpec => CutoverLosesNothing
<1>1. GraphInv /\ [GraphNext]_graphVars => [\A r \in RequestIds :
          ledger[r] = NoValue /\ ledger'[r] # NoValue =>
        LET plan == ledger'[r].plan IN
        /\ \A n \in gNodes : \E s \in plan.nodes :
              n.key \in s.sources /\ \E t \in gNodes' : t.key = s.target /\ Holds(n, t)
        /\ \A t \in gNodes' : \A q \in Props : t.props[q] # NoValue =>
              \E n \in gNodes : \E p \in Props : n.props[p] = t.props[q]
        /\ {e.props : e \in gEdges} = {e.props : e \in gEdges'}
        /\ ~plan.edited => \A e \in gEdges : \E s, t \in plan.nodes :
              /\ e.from \in s.sources /\ e.to \in t.sources
              /\ [e EXCEPT !.from = s.target, !.to = t.target] \in gEdges']_graphVars
  BY CutoverStep DEF CommitLosesNothing
<1> QED BY <1>1, GraphInvHolds, PTL DEF GraphSpec, CutoverLosesNothing

LEMMA RetryStep == GraphInv /\ [GraphNext]_graphVars => [\A c \in Callers :
        /\ caller[c].at = "ready" /\ caller'[c].at = "refused" =>
              ledger[caller[c].req] = NoValue \/ ledger[caller[c].req].plan # caller[c].plan
        /\ caller'[c].at = "answered" =>
              /\ ledger'[caller'[c].req] = caller'[c].receipt
              /\ caller'[c].receipt.plan = caller'[c].plan]_graphVars
<1> SUFFICES ASSUME GraphInv, GraphNext, NEW c \in Callers
             PROVE  /\ caller[c].at = "ready" /\ caller'[c].at = "refused" =>
                          \/ ledger[caller[c].req] = NoValue
                          \/ ledger[caller[c].req].plan # caller[c].plan
                    /\ caller'[c].at = "answered" =>
                          /\ ledger'[caller'[c].req] = caller'[c].receipt
                          /\ caller'[c].receipt.plan = caller'[c].plan
  BY DEF graphVars
<1>1. GraphInv'
  BY GraphStepInv
<1>2. caller'[c].at = "answered" =>
         ledger'[caller'[c].req] = caller'[c].receipt /\ caller'[c].receipt.plan = caller'[c].plan
  BY <1>1 DEF GraphInv, CallerFits
<1>3. ASSUME caller[c].at = "ready", caller'[c].at = "refused", ledger[caller[c].req] # NoValue
      PROVE  ledger[caller[c].req].plan # caller[c].plan
  <2>0. DOMAIN caller = Callers /\ caller[c] \in CallerRecs
    BY DEF GraphInv, GraphTyped
  <2>1. \A d \in Callers : d # c => \A rec : Sets(d, rec) => caller'[c] = caller[c]
    BY <2>0 DEF Sets
  <2>2. caller'[c] # caller[c]
    BY <1>3
  <2>3. \/ OpenStore(c) \/ ReadNodes(c) \/ ReadEdges(c) \/ Commit(c) \/ Settle(c)
        \/ \E m \in Mappings : DryRun(c, m)
        \/ \E r \in RequestIds : LookUp(c, r)
    <3>1. \A d \in Callers : d # c => ~(OpenStore(d) \/ ReadNodes(d) \/ ReadEdges(d))
      BY <2>1, <2>2 DEF OpenStore, ReadNodes, ReadEdges
    <3>2. \A d \in Callers : d # c => ~Commit(d) /\ ~Settle(d)
      BY <2>1, <2>2 DEF Commit, Settle
    <3>3. \A d \in Callers : d # c => \A x : ~DryRun(d, x) /\ ~LookUp(d, x)
      BY <2>1, <2>2 DEF DryRun, LookUp, Answers
    <3> QED BY <2>2, <3>1, <3>2, <3>3, WritersLeaveTheRest DEF GraphNext
  <2>4. \A rec : Sets(c, rec) => caller'[c] = rec
    BY <2>0 DEF Sets
  <2>5. ~OpenStore(c)
    BY <1>3, <2>4 DEF OpenStore, Closed
  <2>6. ~Commit(c)
    BY <1>3 DEF Commit, Replays
  <2>7. Settle(c)
    BY <1>3, <2>3, <2>5, <2>6 DEF ReadNodes, ReadEdges, DryRun, LookUp
  <2>8. Replays(caller[c].req)
    BY <1>3 DEF Replays
  <2> DEFINE same == ledger[caller[c].req].plan = caller[c].plan
  <2>9. CASE same
    BY <2>7, <2>8, <2>9, <2>0, <2>4, <1>3 DEF Settle, CallerRecs
  <2> QED BY <2>9
<1> QED BY <1>2, <1>3

\* A committed request is answered with its receipt when it is sent again, also
\* to a caller that looked before the commit; no request stands for two plans.
THEOREM RetriesAreAnswered == GraphSpec => RetryIsAnswered
BY RetryStep, GraphInvHolds, PTL DEF GraphSpec, RetryIsAnswered


-----------------------------------------------------------------------------
(***************************************************************************)
(* PackLoad: a run that nothing disturbed leaves the stores as its file    *)
(* says, whatever earlier runs left half done, and no run of a load takes  *)
(* away what its file lists.                                               *)
(***************************************************************************)

LoadStages == {"idle", "nodes", "edges", "chunks", "batch", "sources", "single", "finalize",
               "dropNodes", "dropDocs", "dropSources", "dropEdges", "dropVectors", "done"}
LoadRuns == [at : LoadStages, file : Files, full : BOOLEAN, force : BOOLEAN, replace : BOOLEAN,
             todo : SUBSET (Ids \cup Edges), pending : SUBSET Chunks, applied : SUBSET Edges,
             seen : SUBSET Ids, agrees : SUBSET Nodes, listed : BOOLEAN, clean : BOOLEAN]
Snapshots == [nodes : [Nodes -> Version \cup {Absent}], chunks : [Chunks -> ChunkRow \cup {Absent}],
              edges : SUBSET Edges, vectors : SUBSET Ids, docs : [Nodes -> SUBSET Spaces]]

LoadTyped ==
    /\ nodeRows \in [Nodes -> Version \cup {Absent}]
    /\ edgeRows \in [Edges -> Values \cup {Absent}]
    /\ docRows \in [Nodes -> SUBSET Version]
    /\ sourceRows \in [Chunks -> ChunkRow \cup {Absent}]
    /\ slots \in [Ids -> Slot \cup {Absent}]
    /\ live \in Snapshots /\ run \in LoadRuns /\ outside \in Nat

ListedNodes == Listed(run.file, "nodes")
ListedEdges == Listed(run.file, "edges")
ListedChunks == Listed(run.file, "chunks")

AfterEdges == LoadStages \ {"idle", "nodes", "edges"}
AfterFlush == {"finalize", "dropNodes", "dropDocs", "dropSources", "dropEdges", "dropVectors", "done"}
NodesDropped == {"dropDocs", "dropSources", "dropEdges", "dropVectors", "done"}
DocsDropped == {"dropSources", "dropEdges", "dropVectors", "done"}
SourcesDropped == {"dropEdges", "dropVectors", "done"}
EdgesDropped == {"dropVectors", "done"}

-----------------------------------------------------------------------------
(* Of every run.                                                           *)

\* A document per node and space; the slot of a chunk that has its row is its own.
DocsKeyed == \A n \in Nodes : \A r, w \in docRows[n] : r.space = w.space => r = w
OwnSlot(c) == slots[c] = Absent \/ slots[c].meta # {}
SlotsAreOwn == \A c \in Chunks : sourceRows[c] # Absent => OwnSlot(c)

ProgressFits ==
    /\ run.at = "nodes" => run.todo \subseteq ListedNodes
    /\ run.at = "edges" => run.todo \subseteq ListedEdges
    /\ run.at = "chunks" => run.todo \subseteq ListedChunks
    /\ run.at \in {"nodes", "edges"} => run.pending = {}
    /\ run.pending \subseteq ListedChunks
    /\ run.applied \subseteq ListedEdges
    /\ run.at = "sources" => \A c \in run.pending : OwnSlot(c)
    /\ run.at = "dropNodes" => ~Pinned
    /\ run.full => live = NoSnapshot
    /\ run.full /\ run.at = "nodes" => \A c \in Chunks : sourceRows[c] = Absent

\* An edge that was not tried has an end that the file does not list.
EdgesTried ==
    /\ run.at = "edges" => \A e \in ListedEdges : e \in run.todo \cup run.applied \/ ~EndsListed(e)
    /\ run.at \in AfterEdges => \A e \in ListedEdges : e \in run.applied \/ ~EndsListed(e)

-----------------------------------------------------------------------------
(* Of a run that nothing disturbed so far.                                 *)

Settles(n) == nodeRows[n] = run.file.nodes[n] /\ docRows[n] = {run.file.nodes[n]}
NodeHasSlot(n) == slots[n] # Absent \/ (n \in Chunks /\ live.chunks[n] # Absent)
DocsAsSeen(n) == {r.space : r \in docRows[n]} = live.docs[n]
ListedNodesFit ==
    run.at # "idle" => \A n \in ListedNodes :
        IF run.at = "nodes" /\ n \in run.todo
        THEN /\ nodeRows[n] = live.nodes[n] /\ DocsAsSeen(n)
             /\ n \in run.agrees => run.file.nodes[n] \in docRows[n]
        ELSE Settles(n) /\ NodeHasSlot(n)

OtherNodesFit ==
    run.at # "idle" => \A n \in Nodes \ ListedNodes :
        /\ nodeRows[n] = IF run.at \in NodesDropped THEN Absent ELSE live.nodes[n]
        /\ IF run.at \in DocsDropped THEN docRows[n] = {} ELSE DocsAsSeen(n)

ListedEdgesFit ==
    run.at \in AfterEdges \cup {"edges"} => \A e \in ListedEdges :
        \/ run.at = "edges" /\ e \in run.todo
        \/ edgeRows[e] = run.file.edges[e] /\ EndsListed(e)
OtherEdgesFit ==
    run.at # "idle" => \A e \in Edges \ ListedEdges :
        /\ edgeRows[e] # Absent => e \in live.edges
        /\ run.at \in EdgesDropped /\ ListedEdges # {} => edgeRows[e] = Absent

HasOwnSlot(c) == slots[c] # Absent /\ slots[c].meta # {}
ChunkSettles(c) == sourceRows[c] = run.file.chunks[c] /\ HasOwnSlot(c)
ListedChunksFit ==
    /\ run.at \in {"nodes", "edges"} => \A c \in Chunks : sourceRows[c] = live.chunks[c]
    /\ run.at = "chunks" => \A c \in ListedChunks :
          IF c \in run.todo
          THEN sourceRows[c] = live.chunks[c] /\ (c \in run.seen => slots[c] # Absent)
          ELSE c \in run.pending \/ ChunkSettles(c)
    /\ run.at = "batch" => \A c \in ListedChunks : c \in run.pending \/ ChunkSettles(c)
    /\ run.at = "sources" => \A c \in ListedChunks :
          IF c \in run.pending THEN HasOwnSlot(c) ELSE ChunkSettles(c)
    /\ run.at = "single" => run.pending # {}
    /\ run.at \in AfterFlush => \A c \in ListedChunks : ChunkSettles(c)
OtherChunksFit ==
    run.at # "idle" => \A c \in Chunks \ ListedChunks :
        sourceRows[c] = IF run.at \in SourcesDropped THEN Absent ELSE live.chunks[c]

SeenIsThere == run.at = "nodes" => \A i \in run.seen : slots[i] # Absent

Unspoilt ==
    /\ ListedNodesFit /\ OtherNodesFit
    /\ ListedEdgesFit /\ OtherEdgesFit
    /\ ListedChunksFit /\ OtherChunksFit
    /\ SeenIsThere

LoadInv ==
    /\ LoadTyped
    /\ DocsKeyed /\ SlotsAreOwn
    /\ ProgressFits /\ EdgesTried
    /\ run.clean => Unspoilt

-----------------------------------------------------------------------------
(* Types and frames.                                                       *)

RunTyped(c) ==
    /\ c.at \in LoadStages /\ c.file \in Files
    /\ c.full \in BOOLEAN /\ c.force \in BOOLEAN /\ c.listed \in BOOLEAN /\ c.clean \in BOOLEAN
    /\ c.todo \subseteq Ids \cup Edges /\ c.pending \subseteq Chunks /\ c.applied \subseteq Edges
    /\ c.seen \subseteq Ids

LEMMA RunIsTyped ==
    ASSUME NEW c \in LoadRuns
    PROVE  RunTyped(c)
BY DEF LoadRuns, RunTyped

LEMMA FileIsTyped ==
    ASSUME LoadTyped
    PROVE  /\ run.file \in Files
           /\ run.file.nodes \in [Nodes -> Version \cup {Absent}]
           /\ run.file.chunks \in [Chunks -> ChunkRow \cup {Absent}]
           /\ run.file.edges \in [Edges -> Values \cup {Absent}]
           /\ ListedNodes = {n \in Nodes : run.file.nodes[n] # Absent}
           /\ ListedChunks = {c \in Chunks : run.file.chunks[c] # Absent}
           /\ ListedEdges = {e \in Edges : run.file.edges[e] # Absent}
BY LoadAssumption DEF LoadTyped, LoadRuns, ListedNodes, Listed, ListedChunks, ListedEdges

LEMMA FileSays ==
    ASSUME LoadTyped
    PROVE  /\ \A n \in ListedNodes : /\ n \in Nodes /\ FileRow(n) \in Version /\ FileRow(n) # Absent
                                     /\ NodeSlot(FileRow(n)) \in Slot
           /\ \A c \in ListedChunks : /\ c \in Chunks /\ FileChunk(c) \in ChunkRow /\ FileChunk(c) # Absent
                                      /\ ChunkSlot(FileChunk(c)) \in Slot
                                      /\ ChunkSlot(FileChunk(c)).meta # {}
           /\ \A e \in ListedEdges : e \in Edges /\ run.file.edges[e] \in Values
BY FileIsTyped DEF NodeSlot, Slot, Version, ChunkSlot, ChunkRow, FileRow, FileChunk

LEMMA SlotsAreThere ==
    /\ \A s \in Slot : s # Absent
    /\ \A v \in Version : v # Absent
    /\ \A r \in ChunkRow : r # Absent
    /\ \A v \in Values : v # Absent
BY LoadAssumption

LEMMA IdleIs ==
    /\ Idle \in LoadRuns /\ Idle.at = "idle" /\ Idle.todo = {} /\ Idle.pending = {}
    /\ Idle.applied = {} /\ Idle.full = FALSE /\ Idle.clean = FALSE
BY LoadAssumption DEF Idle, LoadRuns, LoadStages

LEMMA NoSnapshotTyped == NoSnapshot \in Snapshots
BY DEF NoSnapshot, Snapshots

\* The run goes on with its file and its snapshot.
GoesOn ==
    /\ run' \in LoadRuns /\ live' = live
    /\ run'.file = run.file /\ run'.full = run.full /\ run'.force = run.force

LEMMA Remains ==
    ASSUME GoesOn
    PROVE  /\ ListedNodes' = ListedNodes /\ ListedEdges' = ListedEdges /\ ListedChunks' = ListedChunks
           /\ Pinned' <=> Pinned
           /\ \A e : EndsListed(e)' <=> EndsListed(e)
BY DEF GoesOn, ListedNodes, ListedEdges, ListedChunks, GoneNodes, GoneChunks, GoneDocs, Pinned,
   EndsListed

StoresTyped ==
    /\ nodeRows \in [Nodes -> Version \cup {Absent}]
    /\ edgeRows \in [Edges -> Values \cup {Absent}]
    /\ docRows \in [Nodes -> SUBSET Version]
    /\ sourceRows \in [Chunks -> ChunkRow \cup {Absent}]
    /\ slots \in [Ids -> Slot \cup {Absent}]
    /\ outside \in Nat
StoresFit == StoresTyped /\ DocsKeyed /\ SlotsAreOwn

LEMMA StopsFits ==
    ASSUME Stops, StoresFit'
    PROVE  LoadInv'
BY IdleIs, NoSnapshotTyped DEF Stops, LoadTyped, StoresFit, StoresTyped, ProgressFits, EdgesTried,
   AfterEdges, LoadInv

LEMMA InvIs ==
    ASSUME LoadInv
    PROVE  StoresFit /\ LoadTyped /\ RunTyped(run) /\ live \in Snapshots /\ ProgressFits /\ EdgesTried
BY RunIsTyped DEF LoadInv, StoresFit, StoresTyped, LoadTyped

\* A run that is spoilt goes on at the same stage.
LEMMA SpoiltFits ==
    ASSUME LoadInv, GoesOn, StoresFit', run'.at = run.at, ~run'.clean,
           run'.todo \subseteq run.todo, run'.pending \subseteq run.pending, run'.applied = run.applied,
           run.at = "edges" => \A e \in ListedEdges : e \in run.todo \ run'.todo => ~EndsListed(e),
           run.at = "sources" => \A c \in run'.pending : OwnSlot(c)',
           run.at = "nodes" => sourceRows' = sourceRows
    PROVE  LoadInv'
BY InvIs, Remains DEF GoesOn, LoadTyped, StoresFit, StoresTyped, ProgressFits, EdgesTried, LoadInv

-----------------------------------------------------------------------------
(* What keeps the stores fit.                                              *)

LEMMA StoresStay ==
    ASSUME StoresFit, UNCHANGED <<nodeRows, edgeRows, docRows, sourceRows, slots, outside>>
    PROVE  StoresFit'
BY DEF StoresFit, StoresTyped, DocsKeyed, SlotsAreOwn, OwnSlot

LEMMA DocIsWritten ==
    ASSUME StoresFit, NEW n \in Nodes, NEW v \in Version, WriteDoc(n, v)
    PROVE  docRows' \in [Nodes -> SUBSET Version] /\ DocsKeyed'
BY DEF StoresFit, StoresTyped, WriteDoc, DocsKeyed

LEMMA DocsShrink ==
    ASSUME StoresFit, NEW newDocs \in [Nodes -> SUBSET Version], docRows' = newDocs,
           \A n \in Nodes : newDocs[n] \subseteq docRows[n]
    PROVE  docRows' \in [Nodes -> SUBSET Version] /\ DocsKeyed'
BY DEF StoresFit, DocsKeyed

LEMMA DocsMove ==
    ASSUME StoresFit, docRows' \in [Nodes -> SUBSET Version], DocsKeyed',
           UNCHANGED <<nodeRows, edgeRows, sourceRows, slots, outside>>
    PROVE  StoresFit'
BY DEF StoresFit, StoresTyped, SlotsAreOwn, OwnSlot

\* What a node write may do to the stores, whole or in part.
LEMMA LandFits ==
    ASSUME LoadInv, run.at = "nodes", NEW n \in ListedNodes,
           nodeRows' \in {nodeRows, [nodeRows EXCEPT ![n] = FileRow(n)]},
           docRows' \in [Nodes -> SUBSET Version], DocsKeyed',
           slots' \in {slots, [slots EXCEPT ![n] = NodeSlot(FileRow(n))]},
           SharedSlot(n) => slots' = slots,
           UNCHANGED <<edgeRows, sourceRows, outside>>
    PROVE  StoresFit'
BY InvIs, FileSays DEF StoresFit, StoresTyped, SlotsAreOwn, Ids, ProgressFits, SharedSlot, OwnSlot

-----------------------------------------------------------------------------
(* Runs that stop, and steps that spoil a run.                             *)

LEMMA StopStep ==
    ASSUME LoadInv, Stops, UNCHANGED <<stores, outside>>
    PROVE  LoadInv'
BY InvIs, StoresStay, StopsFits DEF stores

LEMMA TodoOf ==
    ASSUME LoadInv
    PROVE  /\ run.at = "nodes" => run.todo \subseteq ListedNodes
           /\ run.at = "edges" => run.todo \subseteq ListedEdges
           /\ run.at = "chunks" => run.todo \subseteq ListedChunks
           /\ run.pending \subseteq ListedChunks
           /\ run \in LoadRuns
BY InvIs DEF ProgressFits, LoadTyped

\* A row is done with and the run is spoilt.
LEMMA DoneWith ==
    ASSUME LoadInv, NEW i, run' = [run EXCEPT !.todo = @ \ {i}, !.clean = FALSE], live' = live
    PROVE  /\ GoesOn /\ run'.at = run.at /\ ~run'.clean /\ run'.todo = run.todo \ {i}
           /\ run'.pending = run.pending /\ run'.applied = run.applied
BY TodoOf DEF LoadRuns, GoesOn

LEMMA ConflictStep ==
    ASSUME LoadInv, NEW n \in Nodes, ConflictNode(n) \/ SkipNode(n)
    PROVE  LoadInv'
BY InvIs, StoresStay, DoneWith, SpoiltFits DEF ConflictNode, SkipNode, Writes, stores

LEMMA SkipEdgeStep ==
    ASSUME LoadInv, NEW e \in Edges, SkipEdge(e)
    PROVE  LoadInv'
BY InvIs, StoresStay, DoneWith, SpoiltFits DEF SkipEdge, stores

LEMMA FailNodeStep ==
    ASSUME LoadInv, NEW n \in Nodes, FailNode(n)
    PROVE  LoadInv'
<1>1. run.at = "nodes" /\ n \in ListedNodes /\ UNCHANGED <<edgeRows, sourceRows, outside>>
  BY TodoOf DEF FailNode, Writes
<1>2. PICK legs \in Landings : Land(n, legs)
  BY DEF FailNode
<1>3. FileRow(n) \in Version /\ StoresFit
  BY <1>1, FileSays, InvIs
<1>4. docRows' \in [Nodes -> SUBSET Version] /\ DocsKeyed'
  BY <1>2, <1>3, DocIsWritten DEF Land, StoresFit, StoresTyped, DocsKeyed
<1>5. StoresFit'
  BY <1>2, <1>1, <1>4, LandFits DEF Land
<1>6. CASE run' = [run EXCEPT !.todo = @ \ {n}, !.clean = FALSE] /\ UNCHANGED live
  BY <1>1, <1>5, <1>6, DoneWith, SpoiltFits
<1>7. CASE Stops
  BY <1>5, <1>7, StopsFits
<1> QED BY <1>6, <1>7 DEF FailNode

LEMMA OutsideSteps ==
    ASSUME LoadInv, (\E i \in Ids : LoseVector(i)) \/ (\E n \in Nodes \ Chunks, v \in Version \ Refused : OutsideAdd(n, v))
    PROVE  LoadInv'
<1>1. /\ run' = [run EXCEPT !.clean = FALSE] /\ live' = live
      /\ UNCHANGED <<edgeRows, sourceRows>> /\ outside' = outside + 1
  BY DEF LoseVector, OutsideAdd
<1>2. /\ StoresTyped /\ DocsKeyed /\ SlotsAreOwn /\ run \in LoadRuns
  BY InvIs DEF StoresFit, LoadTyped
<1>3. /\ GoesOn /\ run'.at = run.at /\ ~run'.clean /\ run'.todo = run.todo
      /\ run'.pending = run.pending /\ run'.applied = run.applied
  BY <1>1, <1>2 DEF GoesOn, LoadRuns
<1>4. StoresFit' /\ \A c \in Chunks : OwnSlot(c) => OwnSlot(c)'
  <2>1. CASE \E i \in Ids : LoseVector(i)
    BY <2>1, <1>1, <1>2 DEF LoseVector, StoresTyped, OwnSlot, Ids, DocsKeyed, SlotsAreOwn, StoresFit
  <2>2. CASE \E n \in Nodes \ Chunks, v \in Version \ Refused : OutsideAdd(n, v)
    <3>1. PICK n \in Nodes \ Chunks, v \in Version \ Refused : OutsideAdd(n, v)
      BY <2>2
    <3>2. /\ slots' = [slots EXCEPT ![n] = NodeSlot(v)] /\ nodeRows' = [nodeRows EXCEPT ![n] = v]
          /\ WriteDoc(n, v)
      BY <3>1 DEF OutsideAdd
    <3>3. NodeSlot(v) \in Slot
      BY DEF NodeSlot, Slot, Version
    <3>4. docRows' \in [Nodes -> SUBSET Version] /\ DocsKeyed'
      BY <3>2, InvIs, DocIsWritten
    <3>5. StoresTyped'
      <4>1. nodeRows' \in [Nodes -> Version \cup {Absent}]
        BY <1>2, <3>2 DEF StoresTyped
      <4>2. slots' \in [Ids -> Slot \cup {Absent}]
        BY <1>2, <3>2, <3>3 DEF StoresTyped
      <4> QED BY <1>1, <1>2, <3>4, <4>1, <4>2 DEF StoresTyped
    <3>6. \A c \in Chunks : OwnSlot(c) => OwnSlot(c)'
      BY <1>2, <3>2 DEF OwnSlot, StoresTyped, Ids
    <3>7. SlotsAreOwn'
      BY <1>1, <1>2, <3>6 DEF SlotsAreOwn
    <3> QED BY <3>4, <3>5, <3>6, <3>7 DEF StoresFit
  <2> QED BY <2>1, <2>2
<1>5. run.at = "sources" => \A c \in run'.pending : OwnSlot(c)'
  BY <1>2, <1>3, <1>4, InvIs DEF ProgressFits, LoadRuns
<1> QED BY <1>1, <1>3, <1>4, <1>5, SpoiltFits
-----------------------------------------------------------------------------
(* Starting a run.                                                         *)

LEMMA SnapshotTyped ==
    ASSUME StoresTyped
    PROVE  /\ Snapshot \in Snapshots
           /\ Snapshot.nodes = nodeRows /\ Snapshot.chunks = sourceRows
           /\ Snapshot.edges = {e \in Edges : edgeRows[e] # Absent}
           /\ Snapshot.vectors = {i \in Ids : slots[i] # Absent}
           /\ \A n \in Nodes : Snapshot.docs[n] = {r.space : r \in docRows[n]}
BY DEF StoresTyped, Version, Snapshot, Snapshots

ListedAreIn == ListedNodes \subseteq Nodes /\ ListedEdges \subseteq Edges /\ ListedChunks \subseteq Chunks

LEMMA ListedTyped == LoadTyped => ListedAreIn
BY FileSays DEF ListedAreIn

LEMMA StartFits ==
    ASSUME LoadInv, UNCHANGED <<stores, outside>>, live' = Snapshot, run' \in LoadRuns,
           run'.at = "nodes", run'.todo = ListedNodes', run'.applied = {}, run'.pending = {},
           run'.seen \subseteq Snapshot.vectors, run'.full => Snapshot = NoSnapshot,
           run'.clean => \A n \in run'.agrees : run'.file.nodes[n] \in docRows[n]
    PROVE  LoadInv'
<1>0. /\ StoresTyped /\ StoresFit /\ live' \in Snapshots
      /\ live'.nodes = nodeRows /\ live'.chunks = sourceRows
      /\ live'.edges = {e \in Edges : edgeRows[e] # Absent}
      /\ \A n \in Nodes : live'.docs[n] = {r.space : r \in docRows[n]}
      /\ \A i \in run'.seen : slots[i] # Absent
  BY InvIs, SnapshotTyped DEF StoresFit
<1>1. /\ UNCHANGED <<nodeRows, edgeRows, docRows, sourceRows, slots, outside>>
  BY DEF stores
<1>2. StoresFit'
  BY <1>0, <1>1, StoresStay
<1>3. LoadTyped'
  BY <1>0, <1>2 DEF LoadTyped, StoresFit, StoresTyped
<1>4. ListedNodes' \subseteq Nodes /\ ListedEdges' \subseteq Edges /\ ListedChunks' \subseteq Chunks
  <2>1. ListedAreIn'
    BY <1>3, ListedTyped, PTL
  <2> QED BY <2>1 DEF ListedAreIn
<1>5. ProgressFits'
  BY <1>0, <1>1 DEF NoSnapshot, ProgressFits
<1>6. EdgesTried'
  BY DEF EdgesTried, AfterEdges
<1>7. run'.clean => ListedNodesFit'
  BY <1>0, <1>1, <1>4 DEF ListedNodesFit, DocsAsSeen
<1>8. OtherNodesFit'
  BY <1>0, <1>1, <1>4 DEF OtherNodesFit, DocsAsSeen, NodesDropped, DocsDropped
<1>9. ListedEdgesFit' /\ OtherEdgesFit'
  BY <1>0, <1>1 DEF ListedEdgesFit, OtherEdgesFit, EdgesDropped, AfterEdges
<1>10. ListedChunksFit' /\ OtherChunksFit'
  BY <1>0, <1>1 DEF ListedChunksFit, OtherChunksFit, SourcesDropped, AfterFlush
<1>11. SeenIsThere'
  BY <1>0, <1>1 DEF SeenIsThere
<1> QED BY <1>2, <1>3, <1>5, <1>6, <1>7, <1>8, <1>9, <1>10, <1>11 DEF LoadInv, StoresFit, Unspoilt

LEMMA StartsAreFit ==
    ASSUME LoadInv, NEW f \in Files,
           StartFull(f) \/ \E force, replace \in BOOLEAN : StartIncremental(f, force, replace)
    PROVE  LoadInv'
<1>0. StoresTyped /\ Listed(f, "nodes") \subseteq Nodes /\ Snapshot.vectors \subseteq Ids
  BY LoadAssumption, InvIs DEF StoresFit, Listed, Snapshot
<1>1. CASE StartFull(f)
  BY <1>1, <1>0, IdleIs, StartFits DEF StartFull, LoadRuns, LoadStages, Ids, Idle, ListedNodes
<1>2. ASSUME NEW force \in BOOLEAN, NEW replace \in BOOLEAN, StartIncremental(f, force, replace)
      PROVE  LoadInv'
  <2>1. PICK compared, listed \in BOOLEAN :
            run' = [Idle EXCEPT !.at = "nodes", !.file = f, !.force = force,
                       !.replace = replace, !.todo = Listed(f, "nodes"),
                       !.seen = IF listed THEN Snapshot.vectors ELSE {},
                       !.agrees = {n \in Listed(f, "nodes") : compared => f.nodes[n] \in docRows[n]},
                       !.listed = listed, !.clean = compared]
    BY <1>2 DEF StartIncremental
  <2>2. UNCHANGED <<stores, outside>> /\ live' = Snapshot
    BY <1>2 DEF StartIncremental
  <2>0. run' \in LoadRuns
    <3> DEFINE agreed == {n \in Listed(f, "nodes") : compared => f.nodes[n] \in docRows[n]}
               todo == Listed(f, "nodes")
               seen == IF listed THEN Snapshot.vectors ELSE {}
    <3>1. agreed \subseteq Nodes /\ todo \subseteq Ids /\ seen \subseteq Ids
      BY <1>0 DEF Ids
    <3>2. run' = [Idle EXCEPT !.at = "nodes", !.file = f, !.force = force, !.replace = replace,
                      !.todo = todo, !.seen = seen, !.agrees = agreed, !.listed = listed, !.clean = compared]
      BY <2>1
    <3> HIDE DEF agreed, todo, seen
    <3> QED BY <3>1, <3>2, IdleIs DEF LoadRuns, LoadStages
  <2>3. /\ run'.at = "nodes" /\ run'.todo = Listed(f, "nodes") /\ run'.file = f
        /\ run'.applied = {} /\ run'.pending = {} /\ run'.seen \subseteq Snapshot.vectors
        /\ ~run'.full
    BY <2>1 DEF Idle
  <2>4. run'.todo = ListedNodes'
    BY <2>3 DEF ListedNodes
  <2>5. run'.clean => \A n \in run'.agrees : run'.file.nodes[n] \in docRows[n]
    BY <2>1 DEF Idle
  <2> QED BY <2>0, <2>2, <2>3, <2>4, <2>5, StartFits
<1> QED BY <1>1, <1>2

-----------------------------------------------------------------------------
(* The nodes.                                                              *)

LEMMA DocsReplace ==
    ASSUME StoresFit, NEW n \in Nodes, NEW v \in Version, docRows' \in [Nodes -> SUBSET Version],
           docRows'[n] \subseteq {r \in docRows[n] : r.space # v.space} \cup {v},
           \A m \in Nodes \ {n} : docRows'[m] = docRows[m]
    PROVE  DocsKeyed'
BY DEF StoresFit, DocsKeyed

LEMMA NodeIsDone ==
    ASSUME LoadInv, run.at = "nodes", NEW n \in run.todo, GoesOn,
           run'.at = "nodes", run'.todo = run.todo \ {n}, run'.pending = run.pending,
           run'.applied = run.applied, run'.seen = run.seen, run'.clean => run.clean,
           run'.agrees = run.agrees, StoresFit', UNCHANGED <<edgeRows, sourceRows>>,
           \A m \in Nodes \ {n} : nodeRows'[m] = nodeRows[m] /\ docRows'[m] = docRows[m],
           \A i \in Ids : slots[i] # Absent => slots'[i] # Absent,
           run'.clean => Settles(n)' /\ NodeHasSlot(n)'
    PROVE  LoadInv'
<1>1. LoadTyped'
  BY InvIs DEF GoesOn, LoadTyped, StoresFit, StoresTyped
<1>2. ProgressFits' /\ EdgesTried'
  BY InvIs, Remains DEF ProgressFits, EdgesTried, GoesOn, AfterEdges
<1>3. ASSUME run'.clean PROVE Unspoilt'
  <2>1. Unspoilt /\ ListedNodes \subseteq Nodes /\ n \in ListedNodes /\ run.seen \subseteq Ids
    BY <1>3, InvIs, FileSays, TodoOf DEF LoadInv, RunTyped
  <2>2. /\ ListedNodes' = ListedNodes /\ ListedEdges' = ListedEdges /\ ListedChunks' = ListedChunks
        /\ run'.file = run.file /\ live' = live
    BY Remains DEF GoesOn
  <2>3. ListedNodesFit'
    BY <2>2, <1>3, <2>1 DEF ListedNodesFit, Unspoilt, NodeHasSlot, Ids, Settles, DocsAsSeen
  <2>4. OtherNodesFit'
    BY <2>1, <2>2 DEF Unspoilt, OtherNodesFit, NodesDropped, DocsDropped, DocsAsSeen
  <2>5. ListedEdgesFit' /\ OtherEdgesFit'
    BY <2>1, <2>2 DEF Unspoilt, ListedEdgesFit, OtherEdgesFit, AfterEdges, EdgesDropped
  <2>6. ListedChunksFit' /\ OtherChunksFit'
    BY <2>1, <2>2 DEF Unspoilt, ListedChunksFit, OtherChunksFit, AfterFlush, SourcesDropped
  <2>7. SeenIsThere'
    BY <2>1, <2>2 DEF Unspoilt, SeenIsThere
  <2> QED BY <2>3, <2>4, <2>5, <2>6, <2>7 DEF Unspoilt
<1> QED BY <1>1, <1>2, <1>3 DEF LoadInv, StoresFit

LEMMA KeepNodeStep ==
    ASSUME LoadInv, NEW n \in Nodes, KeepNode(n)
    PROVE  LoadInv'
<1> DEFINE spared == {r \in docRows[n] : r.space \notin OtherSpaces(n)}
<1>1. /\ run.at = "nodes" /\ n \in run.todo /\ n \in ListedNodes /\ SameRow(n) /\ Found(n)
      /\ UNCHANGED <<nodeRows, edgeRows, sourceRows, slots, live, outside>>
  BY TodoOf DEF KeepNode
<1>2. CASE /\ docRows' = CleanDocs(n, docRows)
           /\ run' = [run EXCEPT !.todo = @ \ {n}, !.clean = @ /\ Confirmable]
  <2>1. run \in LoadRuns /\ docRows \in [Nodes -> SUBSET Version] /\ StoresFit
    BY InvIs DEF LoadTyped
  <2>2. docRows' = [docRows EXCEPT ![n] = spared]
    BY <1>2 DEF CleanDocs
  <2>3. docRows' \in [Nodes -> SUBSET Version] /\ \A m \in Nodes : docRows'[m] \subseteq docRows[m]
    BY <2>1, <2>2
  <2>4. StoresFit'
    BY <1>1, <2>1, <2>3, DocsShrink, DocsMove
  <2>5. /\ GoesOn /\ run'.at = "nodes" /\ run'.todo = run.todo \ {n} /\ run'.pending = run.pending
        /\ run'.applied = run.applied /\ run'.seen = run.seen /\ run'.agrees = run.agrees
        /\ run'.clean <=> run.clean /\ Confirmable
    BY <2>1, LoadAssumption, <1>2, <1>1 DEF Confirmable, LoadRuns, GoesOn
  <2>6. ASSUME run'.clean PROVE Settles(n)' /\ NodeHasSlot(n)'
    <3>1. ListedNodesFit /\ SeenIsThere /\ Confirmable
      BY <2>5, <2>6 DEF LoadInv, Unspoilt
    <3>2. /\ nodeRows[n] = live.nodes[n] /\ DocsAsSeen(n)
          /\ n \in run.agrees => FileRow(n) \in docRows[n]
      BY <1>1, <3>1 DEF ListedNodesFit, FileRow
    <3>3. live.nodes[n] = FileRow(n) /\ FileRow(n) \in docRows[n]
      BY <1>1, <3>2 DEF SameRow
    <3>4. spared = {FileRow(n)}
      BY <3>3, <3>2, <2>1 DEF OtherSpaces, DocsAsSeen, StoresFit, DocsKeyed
    <3>5. Settles(n)'
      BY <1>1, <2>1, <2>2, <2>5, <3>2, <3>3, <3>4 DEF Settles, FileRow, GoesOn
    <3>6. slots[n] # Absent
      BY <1>1, <3>1 DEF Found, Confirmable, SeenIsThere
    <3> QED BY <1>1, <3>5, <3>6 DEF NodeHasSlot
  <2> QED BY <1>1, <2>1, <2>2, <2>4, <2>5, <2>6, NodeIsDone
<1>3. CASE UNCHANGED docRows /\ run' = [run EXCEPT !.todo = @ \ {n}, !.clean = FALSE]
  BY <1>1, <1>3, InvIs, StoresStay, DoneWith, SpoiltFits
<1> QED BY <1>2, <1>3 DEF KeepNode

LEMMA WriteNodeStep ==
    ASSUME LoadInv, NEW n \in Nodes, WriteNode(n)
    PROVE  LoadInv'
<1> DEFINE v == FileRow(n)
           newDocs == {r \in {q \in docRows[n] : q.space # v.space} \cup {v} : r.space \notin OtherSpaces(n)}
<1>1. /\ run.at = "nodes" /\ n \in run.todo /\ n \in ListedNodes
      /\ nodeRows' = [nodeRows EXCEPT ![n] = v]
      /\ slots' = IF SharedSlot(n) THEN slots ELSE [slots EXCEPT ![n] = NodeSlot(v)]
      /\ run' = [run EXCEPT !.todo = @ \ {n}]
      /\ UNCHANGED <<edgeRows, sourceRows, live, outside>>
  BY TodoOf DEF WriteNode, Writes
<1>2. /\ run \in LoadRuns /\ docRows \in [Nodes -> SUBSET Version] /\ StoresFit
      /\ nodeRows \in [Nodes -> Version \cup {Absent}] /\ slots \in [Ids -> Slot \cup {Absent}]
      /\ v \in Version /\ v # Absent /\ NodeSlot(v) # Absent
  BY <1>1, InvIs, FileSays, SlotsAreThere DEF LoadTyped
<1>3. docRows' = [docRows EXCEPT ![n] = newDocs]
  BY <1>2 DEF WriteNode, CleanDocs
<1>4. docRows' \in [Nodes -> SUBSET Version] /\ docRows'[n] = newDocs
  BY <1>2, <1>3
<1>5. \A m \in Nodes \ {n} : nodeRows'[m] = nodeRows[m] /\ docRows'[m] = docRows[m]
  BY <1>1, <1>2, <1>3
<1>6. DocsKeyed'
  BY <1>2, <1>4, <1>5, DocsReplace
<1>7. StoresFit'
  BY <1>1, <1>4, <1>6, LandFits
<1>8. /\ GoesOn /\ run'.at = "nodes" /\ run'.todo = run.todo \ {n} /\ run'.pending = run.pending
      /\ run'.applied = run.applied /\ run'.seen = run.seen /\ run'.clean = run.clean
      /\ run'.agrees = run.agrees
  BY <1>1, <1>2 DEF GoesOn, LoadRuns
<1>9. \A i \in Ids : slots[i] # Absent => slots'[i] # Absent
  BY <1>1, <1>2
<1>10. ASSUME run'.clean PROVE Settles(n)' /\ NodeHasSlot(n)'
  <2>1. ListedNodesFit /\ ListedChunksFit
    BY <1>8, <1>10 DEF LoadInv, Unspoilt
  <2>2. DocsAsSeen(n)
    BY <1>1, <2>1 DEF ListedNodesFit
  <2>3. newDocs = {v}
    BY <2>2 DEF OtherSpaces, DocsAsSeen
  <2>4. Settles(n)'
    BY <1>1, <1>2, <1>4, <1>8, <2>3 DEF Settles, FileRow, GoesOn
  <2>5. NodeHasSlot(n)'
    BY <1>1, <2>1, <1>2 DEF SharedSlot, ListedChunksFit, NodeHasSlot, Ids
  <2> QED BY <2>4, <2>5
<1> QED BY <1>1, <1>5, <1>7, <1>8, <1>9, <1>10, NodeIsDone
-----------------------------------------------------------------------------
(* What stays as it was.                                                   *)

LEMMA FitFrom ==
    ASSUME LoadInv
    PROVE  /\ LoadTyped /\ StoresFit /\ StoresTyped /\ DocsKeyed /\ SlotsAreOwn
           /\ ProgressFits /\ EdgesTried /\ (run.clean => Unspoilt) /\ run \in LoadRuns
           /\ ListedNodes \subseteq Nodes /\ ListedEdges \subseteq Edges /\ ListedChunks \subseteq Chunks
           /\ run.todo \subseteq Ids \cup Edges /\ run.pending \subseteq Chunks /\ run.pending \subseteq ListedChunks
           /\ run.applied \subseteq Edges /\ run.applied \subseteq ListedEdges /\ run.seen \subseteq Ids
BY InvIs, ListedTyped DEF LoadInv, ListedAreIn, StoresFit, LoadTyped, ProgressFits, RunTyped

\* Nothing is done to the nodes, except that the slot of a chunk may go.
LEMMA NodesFrame ==
    ASSUME LoadInv, GoesOn, UNCHANGED <<nodeRows, docRows>>, run.at # "idle",
           run.at = "nodes" => run.todo = {}, run'.at \notin {"idle", "nodes"},
           run'.at \in NodesDropped <=> run.at \in NodesDropped,
           run'.at \in DocsDropped <=> run.at \in DocsDropped,
           \A i \in ListedNodes : slots[i] # Absent => slots'[i] # Absent \/ (i \in Chunks /\ live.chunks[i] # Absent)
    PROVE  ListedNodesFit /\ OtherNodesFit => ListedNodesFit' /\ OtherNodesFit'
BY Remains DEF GoesOn, ListedNodesFit, Settles, NodeHasSlot, OtherNodesFit, DocsAsSeen

LEMMA EdgesFrame ==
    ASSUME LoadInv, GoesOn, edgeRows' = edgeRows, run'.applied = run.applied,
           run.at \in AfterEdges, run'.at \in AfterEdges,
           run'.at \in EdgesDropped <=> run.at \in EdgesDropped
    PROVE  /\ EdgesTried'
           /\ ListedEdgesFit /\ OtherEdgesFit => ListedEdgesFit' /\ OtherEdgesFit'
BY Remains, FitFrom DEF GoesOn, AfterEdges, EdgesTried, ListedEdgesFit, OtherEdgesFit

LEMMA ChunksFrame ==
    ASSUME LoadInv, GoesOn, sourceRows' = sourceRows,
           run.at \in AfterFlush, run'.at \in AfterFlush,
           run'.at \in SourcesDropped <=> run.at \in SourcesDropped,
           \A c \in ListedChunks : slots'[c] = slots[c]
    PROVE  ListedChunksFit /\ OtherChunksFit => ListedChunksFit' /\ OtherChunksFit' /\ SeenIsThere'
BY Remains DEF GoesOn, ListedChunksFit, ChunkSettles, HasOwnSlot, AfterFlush, OtherChunksFit,
   SeenIsThere

LEMMA StillTyped ==
    ASSUME LoadInv, GoesOn, StoresFit'
    PROVE  LoadTyped' /\ DocsKeyed' /\ SlotsAreOwn'
BY InvIs DEF GoesOn, LoadTyped, StoresFit, StoresTyped

-----------------------------------------------------------------------------
(* The edges.                                                              *)

LEMMA NodesDoneStep ==
    ASSUME LoadInv, NodesDone
    PROVE  LoadInv'
<1>1. /\ run.at = "nodes" /\ run.todo = {}
      /\ run' = [run EXCEPT !.at = "edges", !.todo = ListedEdges]
      /\ UNCHANGED <<nodeRows, edgeRows, docRows, sourceRows, slots, live, outside>>
  BY DEF NodesDone, stores, ListedEdges
<1>2. StoresFit'
  BY <1>1, FitFrom, StoresStay
<1>3. /\ GoesOn /\ run'.at = "edges" /\ run'.todo = ListedEdges /\ run'.pending = run.pending
      /\ run'.applied = run.applied /\ run'.clean = run.clean
  BY <1>1, FitFrom DEF GoesOn, LoadRuns, LoadStages
<1>4. ProgressFits' /\ EdgesTried'
  BY <1>1, <1>3, FitFrom, Remains DEF ProgressFits, EdgesTried, GoesOn, AfterEdges
<1>5. ASSUME run'.clean PROVE Unspoilt'
  <2>1. Unspoilt
    BY <1>3, <1>5, FitFrom
  <2>2. ListedNodesFit' /\ OtherNodesFit'
    BY <1>1, <1>3, <2>1, NodesFrame DEF Unspoilt, NodesDropped, DocsDropped
  <2>3. ListedEdgesFit' /\ OtherEdgesFit'
    BY <1>1, <1>3, <2>1, Remains DEF Unspoilt, ListedEdgesFit, OtherEdgesFit, EdgesDropped, AfterEdges, GoesOn
  <2>4. ListedChunksFit' /\ OtherChunksFit'
    BY <1>1, <1>3, <2>1, Remains DEF Unspoilt, ListedChunksFit, OtherChunksFit, AfterFlush, SourcesDropped, GoesOn
  <2>5. SeenIsThere'
    BY <1>3 DEF SeenIsThere
  <2> QED BY <2>2, <2>3, <2>4, <2>5 DEF Unspoilt
<1> QED BY <1>2, <1>3, <1>4, <1>5, StillTyped DEF LoadInv

\* An edge was tried: it landed, or the run is spoilt.
LEMMA EdgeIsDone ==
    ASSUME LoadInv, NEW e \in run.todo, run.at = "edges", EndsListed(e),
           edgeRows' \in {edgeRows, [edgeRows EXCEPT ![e] = run.file.edges[e]]},
           GoesOn, run'.at = "edges", run'.todo = run.todo \ {e}, run'.pending = run.pending,
           run'.applied = run.applied \cup {e}, run'.clean => run.clean,
           run'.clean => edgeRows' = [edgeRows EXCEPT ![e] = run.file.edges[e]],
           UNCHANGED <<nodeRows, docRows, sourceRows, slots, outside>>
    PROVE  LoadInv'
<1>0. e \in ListedEdges /\ e \in Edges /\ run.file.edges[e] \in Values
  BY FitFrom, TodoOf, FileSays
<1>1. StoresFit'
  BY <1>0, FitFrom DEF StoresTyped, StoresFit, DocsKeyed, SlotsAreOwn, OwnSlot
<1>2. ProgressFits'
  BY <1>0, FitFrom, Remains DEF ProgressFits, GoesOn
<1>3. EdgesTried'
  BY FitFrom, Remains DEF EdgesTried, AfterEdges
<1>4. ASSUME run'.clean PROVE Unspoilt'
  <2>1. Unspoilt
    BY <1>4, FitFrom
  <2>2. /\ ListedEdges' = ListedEdges /\ ListedChunks' = ListedChunks
        /\ run'.file = run.file /\ live' = live /\ \A d : EndsListed(d)' <=> EndsListed(d)
    BY Remains DEF GoesOn
  <2>3. ListedNodesFit' /\ OtherNodesFit'
    BY <2>1, NodesFrame DEF Unspoilt, NodesDropped, DocsDropped
  <2>4. edgeRows'[e] = run.file.edges[e] /\ \A d \in Edges \ {e} : edgeRows'[d] = edgeRows[d]
    BY <1>0, <1>4, FitFrom DEF StoresTyped
  <2>5. ListedEdgesFit'
    BY <2>1, <2>4, FitFrom, <2>2 DEF Unspoilt, ListedEdgesFit
  <2>6. OtherEdgesFit'
    BY <1>0, <2>1, <2>2, <2>4 DEF Unspoilt, OtherEdgesFit, EdgesDropped
  <2>7. ListedChunksFit' /\ OtherChunksFit'
    BY <2>1, <2>2 DEF Unspoilt, ListedChunksFit, OtherChunksFit, AfterFlush, SourcesDropped
  <2>8. SeenIsThere'
    BY DEF SeenIsThere
  <2> QED BY <2>3, <2>5, <2>6, <2>7, <2>8 DEF Unspoilt
<1> QED BY <1>1, <1>2, <1>3, <1>4, StillTyped DEF LoadInv

LEMMA EdgeSteps ==
    ASSUME LoadInv, NEW e \in Edges, WriteEdge(e) \/ FailEdge(e)
    PROVE  LoadInv'
<1>1. /\ run.at = "edges" /\ e \in run.todo /\ EndsListed(e) /\ run \in LoadRuns
      /\ UNCHANGED <<nodeRows, docRows, sourceRows, slots, live, outside>>
  BY FitFrom DEF WriteEdge, FailEdge
<1>2. CASE WriteEdge(e)
  BY <1>2, <1>1, EdgeIsDone DEF WriteEdge, Applied, GoesOn, LoadRuns
<1>3. CASE FailEdge(e)
  BY <1>3, <1>1, EdgeIsDone DEF FailEdge, Applied, GoesOn, LoadRuns
<1> QED BY <1>2, <1>3

LEMMA EdgesDoneStep ==
    ASSUME LoadInv, EdgesDone
    PROVE  LoadInv'
<1>0. PICK listed \in BOOLEAN :
          run' = [run EXCEPT !.at = "chunks", !.listed = listed,
                             !.seen = IF listed /\ ~run.full THEN Snapshot.vectors ELSE {},
                             !.todo = ListedChunks]
  BY DEF EdgesDone, ListedChunks
<1>1. /\ run.at = "edges" /\ run.todo = {}
      /\ UNCHANGED <<nodeRows, edgeRows, docRows, sourceRows, slots, live, outside>>
  BY DEF EdgesDone, stores
<1>2. StoresFit'
  BY <1>1, FitFrom, StoresStay
<1>3. Snapshot.vectors = {i \in Ids : slots[i] # Absent}
  BY DEF Snapshot
<1>4. /\ GoesOn /\ run'.at = "chunks" /\ run'.todo = ListedChunks /\ run'.pending = run.pending
      /\ run'.applied = run.applied /\ run'.clean = run.clean /\ run'.seen \subseteq Snapshot.vectors
  BY <1>0, <1>1, <1>3, FitFrom DEF GoesOn, LoadRuns, LoadStages, Ids
<1>5. ProgressFits' /\ EdgesTried'
  BY <1>1, <1>4, FitFrom, Remains DEF ProgressFits, EdgesTried, GoesOn, AfterEdges
<1>6. ASSUME run'.clean PROVE Unspoilt'
  <2>1. Unspoilt
    BY <1>4, <1>6, FitFrom
  <2>2. /\ ListedEdges' = ListedEdges /\ ListedChunks' = ListedChunks
        /\ run'.file = run.file /\ live' = live /\ \A d : EndsListed(d)' <=> EndsListed(d)
    BY <1>4, Remains DEF GoesOn
  <2>3. ListedNodesFit' /\ OtherNodesFit'
    BY <1>1, <1>4, <2>1, NodesFrame DEF Unspoilt, NodesDropped, DocsDropped
  <2>4. ListedEdgesFit' /\ OtherEdgesFit'
    BY <1>1, <1>4, <2>1, <2>2 DEF Unspoilt, ListedEdgesFit, OtherEdgesFit, EdgesDropped, AfterEdges
  <2>5. ListedChunksFit'
    BY <1>1, <1>3, <1>4, <2>1, FitFrom, <2>2 DEF Unspoilt, ListedChunksFit, AfterFlush
  <2>6. OtherChunksFit'
    BY <1>1, <1>4, <2>1, <2>2 DEF Unspoilt, OtherChunksFit, SourcesDropped
  <2>7. SeenIsThere'
    BY <1>4 DEF SeenIsThere
  <2> QED BY <2>3, <2>4, <2>5, <2>6, <2>7 DEF Unspoilt
<1> QED BY <1>2, <1>4, <1>5, <1>6, StillTyped DEF LoadInv
-----------------------------------------------------------------------------
(* The chunks.                                                             *)

\* A run goes on among the chunks, with the rows of graph and documents left.
AmongChunks ==
    /\ GoesOn /\ run'.applied = run.applied
    /\ run.at \in {"chunks", "batch", "sources", "single"}
    /\ run'.at \in {"chunks", "batch", "sources", "single"}
    /\ UNCHANGED <<nodeRows, edgeRows, docRows, outside>>
    /\ \A i \in ListedNodes : slots[i] # Absent =>
           slots'[i] # Absent \/ (i \in Chunks /\ live.chunks[i] # Absent)

LEMMA ChunkStoresFit ==
    ASSUME LoadInv, UNCHANGED <<nodeRows, edgeRows, docRows, outside>>,
           sourceRows' \in [Chunks -> ChunkRow \cup {Absent}], slots' \in [Ids -> Slot \cup {Absent}],
           \A c \in Chunks : sourceRows'[c] # Absent => OwnSlot(c)'
    PROVE  StoresFit'
BY FitFrom DEF StoresFit, StoresTyped, DocsKeyed, SlotsAreOwn

LEMMA AmongFits ==
    ASSUME LoadInv, AmongChunks, StoresFit',
           run'.at = "chunks" => run'.todo \subseteq ListedChunks, run'.pending \subseteq ListedChunks,
           run'.at = "sources" => \A c \in run'.pending : OwnSlot(c)',
           run'.clean => run.clean /\ ListedChunksFit',
           \A c \in Chunks \ ListedChunks : sourceRows'[c] = sourceRows[c]
    PROVE  LoadInv'
<1>1. /\ ListedEdges' = ListedEdges /\ ListedChunks' = ListedChunks
      /\ run'.file = run.file /\ live' = live /\ run'.full = run.full
  BY Remains DEF GoesOn, AmongChunks
<1>2. ProgressFits'
  BY <1>1, FitFrom DEF ProgressFits, AmongChunks
<1>3. run.at \in AfterEdges /\ run'.at \in AfterEdges /\ run.at \notin EdgesDropped /\ run'.at \notin EdgesDropped
  BY DEF AmongChunks, AfterEdges, EdgesDropped, LoadStages
<1>4. EdgesTried' /\ (ListedEdgesFit /\ OtherEdgesFit => ListedEdgesFit' /\ OtherEdgesFit')
  BY <1>3, EdgesFrame DEF AmongChunks
<1>5. ASSUME run'.clean PROVE Unspoilt'
  BY <1>5, FitFrom, NodesFrame, <1>1, <1>4 DEF Unspoilt, NodesDropped, DocsDropped, AmongChunks,
     OtherChunksFit, SourcesDropped, SeenIsThere
<1> QED BY <1>2, <1>4, <1>5, StillTyped DEF LoadInv, AmongChunks

\* One chunk was looked at: it is as the file says, or it waits.
LEMMA ChunkIsRead ==
    ASSUME LoadInv, run.at = "chunks", NEW c \in run.todo, AmongChunks, StoresFit',
           run'.at = "chunks", run'.todo = run.todo \ {c}, run.pending \subseteq run'.pending,
           run'.pending \subseteq run.pending \cup {c}, run'.seen = run.seen,
           \A d \in Chunks \ {c} : sourceRows'[d] = sourceRows[d] /\ slots'[d] = slots[d],
           run'.clean => run.clean /\ (c \in run'.pending \/ ChunkSettles(c)')
    PROVE  LoadInv'
BY Remains, TodoOf, FitFrom, AmongFits DEF GoesOn, AmongChunks, Unspoilt, ListedChunksFit,
   ChunkSettles, HasOwnSlot, AfterFlush

LEMMA QueueChunkStep ==
    ASSUME LoadInv, NEW c \in Chunks, QueueChunk(c)
    PROVE  LoadInv'
BY FitFrom, StoresStay, ChunkIsRead DEF QueueChunk, stores, GoesOn, LoadRuns, AmongChunks

LEMMA KeepChunkStep ==
    ASSUME LoadInv, NEW c \in Chunks, KeepChunk(c)
    PROVE  LoadInv'
<1>1. /\ run.at = "chunks" /\ c \in run.todo /\ run \in LoadRuns
      /\ run' = [run EXCEPT !.todo = @ \ {c}, !.clean = @ /\ Confirmable]
      /\ UNCHANGED <<nodeRows, edgeRows, docRows, sourceRows, slots, live, outside>>
  BY FitFrom DEF KeepChunk, stores
<1>2. Confirmable \in BOOLEAN
  BY <1>1, LoadAssumption DEF Confirmable, LoadRuns
<1>3. /\ GoesOn /\ run'.at = "chunks" /\ run'.todo = run.todo \ {c} /\ run'.seen = run.seen
      /\ run'.pending = run.pending /\ run'.applied = run.applied
      /\ run'.clean <=> run.clean /\ Confirmable
  BY <1>1, <1>2 DEF GoesOn, LoadRuns
<1>4. StoresFit' /\ AmongChunks
  BY <1>1, <1>3, FitFrom, StoresStay DEF AmongChunks
<1>5. ASSUME run'.clean PROVE ChunkSettles(c)'
  <2>1. Unspoilt /\ Confirmable /\ c \in ListedChunks
    BY <1>1, <1>3, <1>5, FitFrom, TodoOf
  <2>2. sourceRows[c] = live.chunks[c] /\ (c \in run.seen => slots[c] # Absent)
    BY <1>1, <2>1 DEF Unspoilt, ListedChunksFit
  <2>3. live.chunks[c] = FileChunk(c) /\ Found(c)
    BY <1>1 DEF KeepChunk, MetaDiffers
  <2>4. slots[c] # Absent
    BY <2>1, <2>2, <2>3 DEF Found, Confirmable
  <2>5. sourceRows[c] = FileChunk(c) /\ sourceRows[c] # Absent
    BY <2>1, <2>2, <2>3, FileSays, FitFrom
  <2>6. slots[c].meta # {}
    BY <2>4, <2>5, FitFrom DEF SlotsAreOwn, OwnSlot
  <2> QED BY <1>1, <1>3, <2>4, <2>5, <2>6 DEF ChunkSettles, HasOwnSlot, FileChunk, GoesOn
<1> QED BY <1>1, <1>3, <1>4, <1>5, ChunkIsRead

LEMMA MetaRow ==
    ASSUME LoadInv, NEW c \in Chunks, MetaDiffers(c)
    PROVE  live.chunks[c] # Absent
BY SlotsAreThere DEF MetaDiffers, TextDiffers

LEMMA FailMetaStep ==
    ASSUME LoadInv, NEW c \in Chunks, FailMeta(c)
    PROVE  LoadInv'
<1>1. /\ run.at = "chunks" /\ c \in run.todo /\ run \in LoadRuns
      /\ run' = [run EXCEPT !.todo = @ \ {c}, !.pending = @ \cup {c}]
      /\ slots' \in {slots, [slots EXCEPT ![c] = Absent]}
      /\ UNCHANGED <<nodeRows, edgeRows, docRows, sourceRows, live, outside>>
  BY FitFrom DEF FailMeta
<1>2. /\ GoesOn /\ run'.at = "chunks" /\ run'.todo = run.todo \ {c} /\ run'.seen = run.seen
      /\ run'.pending = run.pending \cup {c} /\ run'.applied = run.applied /\ run'.clean = run.clean
  BY <1>1 DEF GoesOn, LoadRuns
<1>3. /\ slots' \in [Ids -> Slot \cup {Absent}] /\ \A i \in Ids \ {c} : slots'[i] = slots[i]
      /\ slots'[c] = slots[c] \/ slots'[c] = Absent
  BY <1>1, FitFrom DEF StoresTyped, Ids
<1>4. live.chunks[c] # Absent
  BY MetaRow DEF FailMeta
<1>5. StoresFit'
  BY <1>1, <1>3, FitFrom, ChunkStoresFit DEF SlotsAreOwn, OwnSlot, Ids, StoresTyped
<1>6. AmongChunks
  BY <1>1, <1>2, <1>3, <1>4, FitFrom DEF AmongChunks, Ids
<1>7. \A d \in Chunks \ {c} : sourceRows'[d] = sourceRows[d] /\ slots'[d] = slots[d]
  BY <1>1, <1>3 DEF Ids
<1> QED BY <1>1, <1>2, <1>5, <1>6, <1>7, ChunkIsRead

LEMMA RewriteMetaStep ==
    ASSUME LoadInv, NEW c \in Chunks, RewriteMeta(c)
    PROVE  LoadInv'
<1>1. /\ run.at = "chunks" /\ c \in run.todo /\ run \in LoadRuns /\ slots[c] # Absent
      /\ slots' = [slots EXCEPT ![c].meta = {FileChunk(c).meta}]
      /\ UNCHANGED <<nodeRows, edgeRows, docRows, outside>>
  BY FitFrom DEF RewriteMeta
<1>2. c \in ListedChunks /\ FileChunk(c) \in ChunkRow
  BY <1>1, TodoOf, FileSays, FitFrom
<1>3. /\ slots' \in [Ids -> Slot \cup {Absent}] /\ \A i \in Ids \ {c} : slots'[i] = slots[i]
      /\ slots'[c] # Absent /\ slots'[c].meta # {}
  <2>1. slots[c] \in Slot
    BY <1>1, FitFrom DEF StoresTyped, Ids
  <2>2. [slots[c] EXCEPT !.meta = {FileChunk(c).meta}] \in Slot
    BY <1>2, <2>1 DEF Slot, ChunkRow
  <2>3. [slots[c] EXCEPT !.meta = {FileChunk(c).meta}].meta = {FileChunk(c).meta}
    BY <2>1 DEF Slot
  <2>4. slots' = [slots EXCEPT ![c] = [slots[c] EXCEPT !.meta = {FileChunk(c).meta}]]
    BY <1>1
  <2> HIDE DEF FileChunk
  <2>5. slots' \in [Ids -> Slot \cup {Absent}] /\ \A i \in Ids \ {c} : slots'[i] = slots[i]
    BY <2>2, <2>4, FitFrom DEF StoresTyped
  <2>6. slots'[c] = [slots[c] EXCEPT !.meta = {FileChunk(c).meta}]
    BY <2>4, FitFrom DEF StoresTyped, Ids
  <2> QED BY <2>2, <2>3, <2>5, <2>6, SlotsAreThere
<1>4. ASSUME sourceRows' \in [Chunks -> ChunkRow \cup {Absent}],
             \A d \in Chunks \ {c} : sourceRows'[d] = sourceRows[d]
      PROVE  StoresFit'
  BY <1>3, <1>4, FitFrom, <1>1, ChunkStoresFit DEF SlotsAreOwn, OwnSlot, Ids
<1>5. CASE /\ sourceRows' = [sourceRows EXCEPT ![c] = FileChunk(c)]
           /\ run' = [run EXCEPT !.todo = @ \ {c}]
           /\ UNCHANGED live
  <2>1. /\ sourceRows' \in [Chunks -> ChunkRow \cup {Absent}] /\ sourceRows'[c] = FileChunk(c)
        /\ \A d \in Chunks \ {c} : sourceRows'[d] = sourceRows[d]
    BY <1>2, <1>5, FitFrom DEF StoresTyped
  <2>2. /\ GoesOn /\ run'.at = "chunks" /\ run'.todo = run.todo \ {c} /\ run'.seen = run.seen
        /\ run'.pending = run.pending /\ run'.applied = run.applied /\ run'.clean = run.clean
    BY <1>1, <1>5 DEF GoesOn, LoadRuns
  <2>3. AmongChunks
    BY <1>1, <1>3, <2>2, FitFrom DEF AmongChunks, Ids
  <2>4. ChunkSettles(c)'
    BY <1>3, <2>1, <2>2 DEF ChunkSettles, HasOwnSlot, FileChunk, GoesOn
  <2>5. \A d \in Chunks \ {c} : sourceRows'[d] = sourceRows[d] /\ slots'[d] = slots[d]
    BY <1>3, <2>1 DEF Ids
  <2> QED BY <1>1, <1>4, <2>1, <2>2, <2>3, <2>4, <2>5, ChunkIsRead
<1>6. CASE /\ UNCHANGED sourceRows
           /\ \/ run' = [run EXCEPT !.todo = @ \ {c}, !.clean = FALSE] /\ UNCHANGED live
              \/ Stops
  BY <1>4, <1>6, FitFrom, StopsFits, <1>1, DoneWith, SpoiltFits DEF StoresTyped
<1> QED BY <1>5, <1>6 DEF RewriteMeta

-----------------------------------------------------------------------------
(* The batch.                                                              *)

LEMMA ChunksReadStep ==
    ASSUME LoadInv, ChunksRead
    PROVE  LoadInv'
<1>1. /\ run.at = "chunks" /\ run.todo = {} /\ run \in LoadRuns
      /\ run' = [run EXCEPT !.at = "batch"]
      /\ UNCHANGED <<nodeRows, edgeRows, docRows, sourceRows, slots, live, outside>>
  BY FitFrom DEF ChunksRead, stores
<1>2. /\ GoesOn /\ run'.at = "batch" /\ run'.pending = run.pending
      /\ run'.applied = run.applied /\ run'.clean = run.clean
  BY <1>1 DEF GoesOn, LoadRuns, LoadStages
<1>3. StoresFit' /\ AmongChunks
  BY <1>1, <1>2, FitFrom, StoresStay DEF AmongChunks
<1>4. ASSUME run'.clean PROVE ListedChunksFit'
  BY <1>1, <1>2, <1>4, FitFrom, Remains DEF Unspoilt, ListedChunksFit, ChunkSettles, HasOwnSlot,
     GoesOn, AfterFlush
<1> QED BY <1>1, <1>2, <1>3, <1>4, FitFrom, AmongFits

LEMMA EmbeddedFits ==
    ASSUME LoadInv, NEW cs \in SUBSET ListedChunks
    PROVE  /\ Embedded(cs) \in [Ids -> Slot \cup {Absent}]
           /\ \A i \in Ids \ cs : Embedded(cs)[i] = slots[i]
           /\ \A c \in cs : Embedded(cs)[c] # Absent /\ Embedded(cs)[c].meta # {}
BY FitFrom, FileSays, SlotsAreThere DEF Ids, StoresTyped, Embedded

LEMMA FlushVectorsStep ==
    ASSUME LoadInv, FlushVectors
    PROVE  LoadInv'
<1>1. /\ run.at = "batch" /\ run \in LoadRuns
      /\ UNCHANGED <<nodeRows, edgeRows, docRows, sourceRows, live, outside>>
  BY FitFrom DEF FlushVectors
<1>2. CASE slots' = Embedded(run.pending) /\ run' = [run EXCEPT !.at = "sources"]
  <2>1. /\ GoesOn /\ run'.at = "sources" /\ run'.pending = run.pending
        /\ run'.applied = run.applied /\ run'.clean = run.clean
    BY <1>1, <1>2 DEF GoesOn, LoadRuns, LoadStages
  <2>2. /\ slots' \in [Ids -> Slot \cup {Absent}]
        /\ \A i \in Ids \ run.pending : slots'[i] = slots[i]
        /\ \A c \in run.pending : slots'[c] # Absent /\ slots'[c].meta # {}
    BY <1>2, FitFrom, EmbeddedFits
  <2>3. StoresFit'
    BY <1>1, <2>2, FitFrom, ChunkStoresFit DEF SlotsAreOwn, OwnSlot, Ids, StoresTyped
  <2>4. AmongChunks
    BY <1>1, <2>1, <2>2, FitFrom DEF AmongChunks, Ids
  <2>5. ASSUME run'.clean PROVE ListedChunksFit'
    <3>1. \A c \in ListedChunks : c \in run.pending \/ ChunkSettles(c)
      BY <1>1, <2>1, <2>5, FitFrom DEF Unspoilt, ListedChunksFit
    <3>2. ASSUME NEW c \in ListedChunks
          PROVE  IF c \in run'.pending THEN HasOwnSlot(c)' ELSE ChunkSettles(c)'
      BY <1>1, <2>1, <2>2, <3>1, FitFrom DEF ChunkSettles, HasOwnSlot, GoesOn, Ids
    <3> QED BY <2>1, <3>2, Remains DEF ListedChunksFit, AfterFlush
  <2>6. \A c \in run'.pending : OwnSlot(c)'
    BY <2>1, <2>2 DEF OwnSlot
  <2> QED BY <1>1, <2>1, <2>3, <2>4, <2>5, <2>6, FitFrom, AmongFits
<1>3. CASE run.pending # {} /\ UNCHANGED slots /\ run' = [run EXCEPT !.at = "single"]
  BY <1>1, <1>3, FitFrom, StoresStay, AmongFits DEF GoesOn, LoadRuns, LoadStages, AmongChunks,
     ListedChunksFit, AfterFlush
<1> QED BY <1>2, <1>3 DEF FlushVectors

LEMMA FlushSourceStep ==
    ASSUME LoadInv, NEW c \in Chunks, FlushSource(c)
    PROVE  LoadInv'
<1>1. /\ run.at = "sources" /\ c \in run.pending /\ run \in LoadRuns /\ c \in ListedChunks
      /\ UNCHANGED <<nodeRows, edgeRows, docRows, slots, live, outside>>
      /\ FileChunk(c) \in ChunkRow /\ \A d \in run.pending : OwnSlot(d)
  BY FitFrom, FileSays DEF FlushSource, ProgressFits
<1>2. CASE sourceRows' = [sourceRows EXCEPT ![c] = FileChunk(c)] /\ run' = [run EXCEPT !.pending = @ \ {c}]
  <2>1. /\ GoesOn /\ run'.at = "sources" /\ run'.pending = run.pending \ {c}
        /\ run'.applied = run.applied /\ run'.clean = run.clean
    BY <1>1, <1>2 DEF GoesOn, LoadRuns
  <2>2. /\ sourceRows' \in [Chunks -> ChunkRow \cup {Absent}] /\ sourceRows'[c] = FileChunk(c)
        /\ \A d \in Chunks \ {c} : sourceRows'[d] = sourceRows[d]
    BY <1>1, <1>2, FitFrom DEF StoresTyped
  <2>3. StoresFit'
    BY <1>1, <2>2, FitFrom, ChunkStoresFit DEF SlotsAreOwn, OwnSlot, StoresTyped
  <2>4. AmongChunks
    BY <1>1, <2>1 DEF AmongChunks
  <2>5. ASSUME run'.clean PROVE ListedChunksFit'
    <3>1. \A d \in ListedChunks : IF d \in run.pending THEN HasOwnSlot(d) ELSE ChunkSettles(d)
      BY <1>1, <2>1, <2>5, FitFrom DEF Unspoilt, ListedChunksFit
    <3>2. ASSUME NEW d \in ListedChunks
          PROVE  IF d \in run'.pending THEN HasOwnSlot(d)' ELSE ChunkSettles(d)'
      BY <1>1, <2>1, <2>2, <3>1, FitFrom DEF ChunkSettles, HasOwnSlot, GoesOn, FileChunk
    <3> QED BY <2>1, <3>2, Remains DEF ListedChunksFit, AfterFlush
  <2>6. \A d \in run'.pending : OwnSlot(d)'
    BY <1>1, <2>1 DEF OwnSlot
  <2> QED BY <1>1, <2>1, <2>2, <2>3, <2>4, <2>5, <2>6, FitFrom, AmongFits
<1>3. CASE UNCHANGED sourceRows /\ run' = [run EXCEPT !.pending = @ \ {c}, !.clean = FALSE]
  BY <1>1, <1>3, FitFrom, StoresStay, SpoiltFits DEF GoesOn, LoadRuns, OwnSlot
<1> QED BY <1>2, <1>3 DEF FlushSource

LEMMA FlushSingleStep ==
    ASSUME LoadInv, NEW c \in Chunks, FlushSingle(c)
    PROVE  LoadInv'
<1>1. /\ run.at = "single" /\ c \in run.pending /\ run \in LoadRuns /\ c \in ListedChunks
      /\ UNCHANGED <<nodeRows, edgeRows, docRows, live, outside>>
      /\ FileChunk(c) \in ChunkRow
      /\ run' = [run EXCEPT !.pending = @ \ {c}, !.clean = FALSE]
  BY FitFrom, FileSays DEF FlushSingle
<1>2. /\ GoesOn /\ run'.at = run.at /\ run'.pending = run.pending \ {c} /\ run'.todo = run.todo
      /\ run'.applied = run.applied /\ ~run'.clean
  BY <1>1 DEF GoesOn, LoadRuns
<1>3. {c} \in SUBSET ListedChunks
  BY <1>1
<1>4. /\ Embedded({c}) \in [Ids -> Slot \cup {Absent}]
      /\ \A i \in Ids \ {c} : Embedded({c})[i] = slots[i]
      /\ Embedded({c})[c] # Absent /\ Embedded({c})[c].meta # {}
  BY <1>3, EmbeddedFits
<1>5. /\ slots' \in [Ids -> Slot \cup {Absent}] /\ slots' \in {slots, Embedded({c})}
      /\ sourceRows' \in [Chunks -> ChunkRow \cup {Absent}]
      /\ \A d \in Chunks \ {c} : sourceRows'[d] = sourceRows[d]
      /\ slots' # Embedded({c}) => sourceRows' = sourceRows
  BY <1>1, <1>4, FitFrom DEF FlushSingle, StoresTyped
<1>6. \A d \in Chunks : sourceRows'[d] # Absent => OwnSlot(d)'
  BY <1>4, <1>5, FitFrom DEF SlotsAreOwn, OwnSlot, Ids
<1>7. StoresFit'
  BY <1>1, <1>5, <1>6, ChunkStoresFit
<1> QED BY <1>1, <1>2, <1>7, SpoiltFits
-----------------------------------------------------------------------------
(* The end of a run: what the file no longer lists goes.                   *)

LEMMA NothingSeen ==
    ASSUME live = NoSnapshot
    PROVE  /\ \A n \in Nodes : live.nodes[n] = Absent /\ live.docs[n] = {}
           /\ \A c \in Chunks : live.chunks[c] = Absent
           /\ live.edges = {}
BY DEF NoSnapshot

LEMMA EndFits ==
    ASSUME LoadInv, GoesOn, run'.at \in AfterFlush, run'.pending = run.pending, run'.applied = run.applied,
           run'.at = "dropNodes" => ~Pinned
    PROVE  ProgressFits'
BY FitFrom, Remains DEF ProgressFits, GoesOn, AfterFlush

LEMMA ChunksDoneStep ==
    ASSUME LoadInv, ChunksDone
    PROVE  LoadInv'
<1>1. /\ run.at \in {"sources", "single"} /\ run.pending = {} /\ run \in LoadRuns
      /\ run' = [run EXCEPT !.at = IF run.full THEN "done" ELSE "finalize"]
      /\ UNCHANGED <<nodeRows, edgeRows, docRows, sourceRows, slots, live, outside>>
  BY FitFrom DEF ChunksDone, stores
<1>2. /\ GoesOn /\ run'.pending = run.pending /\ run'.at = IF run.full THEN "done" ELSE "finalize"
      /\ run'.applied = run.applied /\ run'.clean = run.clean
  BY <1>1 DEF GoesOn, LoadRuns, LoadStages
<1>3. StoresFit'
  BY <1>1, FitFrom, StoresStay
<1>4. run'.at \in AfterFlush /\ run'.at # "dropNodes"
  BY <1>2 DEF AfterFlush
<1>5. ProgressFits'
  BY <1>2, <1>4, EndFits
<1>6. /\ ListedNodes' = ListedNodes /\ ListedEdges' = ListedEdges /\ ListedChunks' = ListedChunks
      /\ run'.file = run.file /\ live' = live /\ run'.full = run.full
      /\ \A d : EndsListed(d)' <=> EndsListed(d)
  BY <1>2, Remains DEF GoesOn
<1>7. EdgesTried'
  BY <1>1, FitFrom, <1>2, <1>4, <1>6 DEF EdgesTried, AfterEdges, LoadStages, AfterFlush
<1>8. run.full => live = NoSnapshot
  BY FitFrom DEF ProgressFits
<1>9. ASSUME run'.clean PROVE Unspoilt'
  <2>1. Unspoilt /\ run.at = "sources"
    BY <1>1, <1>2, <1>9, FitFrom DEF Unspoilt, ListedChunksFit
  <2>2. ListedNodesFit'
    BY <2>1, <1>1, <1>6, <1>4 DEF Unspoilt, ListedNodesFit, Settles, NodeHasSlot, AfterFlush
  <2>3. OtherNodesFit'
    BY <2>1, <1>8, NothingSeen, <1>1, <1>2, <1>6 DEF Unspoilt, OtherNodesFit, NodesDropped,
       DocsDropped, DocsAsSeen
  <2>4. ListedEdgesFit'
    BY <2>1, <1>1, <1>6 DEF Unspoilt, ListedEdgesFit, AfterEdges, LoadStages
  <2>5. OtherEdgesFit'
    BY <2>1, <1>8, NothingSeen, <1>1, <1>2, <1>6 DEF Unspoilt, OtherEdgesFit, EdgesDropped
  <2>6. ListedChunksFit'
    BY <1>1, <2>1, <1>6, <1>4 DEF Unspoilt, ListedChunksFit, ChunkSettles, HasOwnSlot, AfterFlush
  <2>7. OtherChunksFit'
    BY <2>1, <1>8, NothingSeen, <1>1, <1>2, <1>6 DEF Unspoilt, OtherChunksFit, SourcesDropped
  <2>8. SeenIsThere'
    BY <1>2 DEF SeenIsThere
  <2> QED BY <2>2, <2>3, <2>4, <2>5, <2>6, <2>7, <2>8 DEF Unspoilt
<1> QED BY <1>2, <1>3, <1>5, <1>7, <1>9, StillTyped DEF LoadInv

LEMMA PassPinsStep ==
    ASSUME LoadInv, PassPins
    PROVE  LoadInv'
<1>1. /\ run.at = "finalize" /\ ~Pinned /\ run \in LoadRuns
      /\ run' = [run EXCEPT !.at = "dropNodes"]
      /\ UNCHANGED <<nodeRows, edgeRows, docRows, sourceRows, slots, live, outside>>
  BY FitFrom DEF PassPins, stores
<1>2. /\ GoesOn /\ run'.pending = run.pending /\ run'.at = "dropNodes"
      /\ run'.applied = run.applied /\ run'.clean = run.clean
  BY <1>1 DEF GoesOn, LoadRuns, LoadStages
<1>3. StoresFit'
  BY <1>1, FitFrom, StoresStay
<1>4. /\ {run.at, run'.at} \subseteq AfterFlush /\ {run.at, run'.at} \subseteq AfterEdges
      /\ run.at \notin NodesDropped \cup DocsDropped \cup SourcesDropped \cup EdgesDropped
      /\ run'.at \notin NodesDropped \cup DocsDropped \cup SourcesDropped \cup EdgesDropped
  BY <1>1, <1>2 DEF AfterFlush, AfterEdges, LoadStages, NodesDropped, DocsDropped, SourcesDropped, EdgesDropped
<1>5. ProgressFits'
  BY <1>1, <1>2, <1>4, EndFits
<1>6. EdgesTried' /\ (ListedEdgesFit /\ OtherEdgesFit => ListedEdgesFit' /\ OtherEdgesFit')
  BY <1>1, <1>2, <1>4, EdgesFrame
<1>7. ListedNodesFit /\ OtherNodesFit => ListedNodesFit' /\ OtherNodesFit'
  BY <1>1, <1>2, <1>4, NodesFrame
<1>8. ListedChunksFit /\ OtherChunksFit => ListedChunksFit' /\ OtherChunksFit' /\ SeenIsThere'
  BY <1>1, <1>2, <1>4, ChunksFrame
<1> QED BY <1>2, <1>3, <1>5, <1>6, <1>7, <1>8, FitFrom, StillTyped DEF LoadInv, Unspoilt

\* The stages of the cleanup, one after the other.
LEMMA DropNodesStep ==
    ASSUME LoadInv, DropNodes
    PROVE  LoadInv'
<1>0. PICK spared \in SUBSET GoneNodes :
        LET gone == {n \in GoneNodes \ spared :
                        nodeRows[n] # Absent /\ nodeRows[n].type = live.nodes[n].type} IN
        /\ nodeRows' = [n \in Nodes |-> IF n \in gone THEN Absent ELSE nodeRows[n]]
        /\ edgeRows' = [e \in Edges |-> IF {e[1], e[2]} \cap gone # {} THEN Absent
                                        ELSE edgeRows[e]]
        /\ run' = [run EXCEPT !.at = "dropDocs", !.clean = @ /\ spared = {}]
  BY DEF DropNodes
<1> DEFINE gone == {n \in GoneNodes \ spared : nodeRows[n] # Absent /\ nodeRows[n].type = live.nodes[n].type}
<1>1. /\ run.at = "dropNodes" /\ run \in LoadRuns
      /\ UNCHANGED <<docRows, sourceRows, slots, live, outside>>
  BY FitFrom DEF DropNodes
<1>2. /\ GoesOn /\ run'.pending = run.pending /\ run'.at = "dropDocs"
      /\ run'.applied = run.applied /\ (run'.clean <=> run.clean /\ spared = {})
  BY <1>0, <1>1 DEF GoesOn, LoadRuns, LoadStages
<1>3. StoresFit'
  BY <1>0, FitFrom, <1>1 DEF StoresTyped, StoresFit, DocsKeyed, SlotsAreOwn, OwnSlot
<1>4. ProgressFits'
  BY <1>2, EndFits DEF AfterFlush
<1>5. /\ ListedNodes' = ListedNodes /\ ListedEdges' = ListedEdges /\ ListedChunks' = ListedChunks
      /\ run'.file = run.file /\ live' = live
      /\ \A d : EndsListed(d)' <=> EndsListed(d)
  BY <1>2, Remains DEF GoesOn
<1>6. EdgesTried'
  BY <1>1, <1>2, <1>5, FitFrom DEF EdgesTried, AfterEdges, LoadStages
<1>7. ASSUME run'.clean PROVE Unspoilt'
  <2>1. Unspoilt /\ spared = {} /\ gone \cap ListedNodes = {}
    BY <1>2, <1>7, FitFrom DEF GoneNodes, ListedNodes
  <2>2. ListedNodesFit'
    BY <1>0, <1>1, <2>1, FitFrom, <1>2, <1>5 DEF Unspoilt, ListedNodesFit, Settles, NodeHasSlot
  <2>3. OtherNodesFit'
    BY <1>1, <2>1, <1>0, <1>2, <1>5 DEF Unspoilt, OtherNodesFit, NodesDropped, DocsDropped,
       GoneNodes, ListedNodes, DocsAsSeen
  <2>4. ListedEdgesFit' /\ OtherEdgesFit'
    <3>1. \A e \in ListedEdges : edgeRows'[e] = run.file.edges[e] /\ EndsListed(e)
      <4>1. ASSUME NEW e \in ListedEdges PROVE edgeRows'[e] = run.file.edges[e] /\ EndsListed(e)
        BY <1>1, <2>1, <1>0, FitFrom DEF Unspoilt, ListedEdgesFit, AfterEdges, LoadStages,
           EndsListed, ListedNodes
      <4> QED BY <4>1
    <3>2. \A e \in Edges \ ListedEdges : edgeRows'[e] # Absent => e \in live.edges
      BY <1>0, <1>1, <2>1 DEF Unspoilt, OtherEdgesFit
    <3> QED BY <1>2, <1>5, <3>1, <3>2 DEF ListedEdgesFit, OtherEdgesFit, EdgesDropped
  <2>5. ListedChunksFit' /\ OtherChunksFit' /\ SeenIsThere'
    BY <1>1, <1>2, <2>1, ChunksFrame DEF Unspoilt, AfterFlush, SourcesDropped
  <2> QED BY <2>2, <2>3, <2>4, <2>5 DEF Unspoilt
<1> QED BY <1>2, <1>3, <1>4, <1>6, <1>7, StillTyped DEF LoadInv

LEMMA DropDocsStep ==
    ASSUME LoadInv, DropDocs
    PROVE  LoadInv'
<1>0. PICK spared \in SUBSET GoneDocs :
        /\ docRows' = [n \in Nodes |-> IF n \in GoneDocs \ spared
                          THEN {r \in docRows[n] : r.space \notin live.docs[n]}
                          ELSE docRows[n]]
        /\ run' = [run EXCEPT !.at = "dropSources", !.clean = @ /\ spared = {}]
  BY DEF DropDocs
<1>1. /\ run.at = "dropDocs" /\ run \in LoadRuns /\ docRows \in [Nodes -> SUBSET Version]
      /\ UNCHANGED <<nodeRows, edgeRows, sourceRows, slots, live, outside>>
  BY FitFrom DEF DropDocs, StoresTyped
<1>2. /\ GoesOn /\ run'.pending = run.pending /\ run'.at = "dropSources"
      /\ run'.applied = run.applied /\ (run'.clean <=> run.clean /\ spared = {})
  BY <1>0, <1>1 DEF GoesOn, LoadRuns, LoadStages
<1>3. StoresFit'
  BY <1>0, <1>1, FitFrom, DocsShrink, DocsMove
<1>4. ProgressFits'
  BY <1>2, EndFits DEF AfterFlush
<1>5. /\ ListedNodes' = ListedNodes /\ run'.file = run.file /\ live' = live
  BY <1>2, Remains DEF GoesOn
<1>6. EdgesTried' /\ (ListedEdgesFit /\ OtherEdgesFit => ListedEdgesFit' /\ OtherEdgesFit')
  BY <1>1, <1>2, EdgesFrame DEF AfterEdges, LoadStages, EdgesDropped
<1>7. ASSUME run'.clean PROVE Unspoilt'
  <2>1. Unspoilt /\ spared = {} /\ GoneDocs \cap ListedNodes = {}
    BY <1>2, <1>7, FitFrom DEF GoneDocs, ListedNodes
  <2>2. ListedNodesFit'
    BY <1>0, <1>1, <2>1, FitFrom, <1>2, <1>5 DEF Unspoilt, ListedNodesFit, Settles, NodeHasSlot
  <2>3. OtherNodesFit'
    <3>1. ASSUME NEW n \in Nodes \ ListedNodes PROVE nodeRows[n] = Absent /\ docRows'[n] = {}
      BY <1>1, <2>1, <1>0 DEF Unspoilt, OtherNodesFit, NodesDropped, DocsDropped, DocsAsSeen,
         GoneDocs, ListedNodes
    <3> QED BY <1>1, <1>2, <1>5, <3>1 DEF OtherNodesFit, NodesDropped, DocsDropped
  <2>4. ListedChunksFit' /\ OtherChunksFit' /\ SeenIsThere'
    BY <1>1, <1>2, <2>1, ChunksFrame DEF Unspoilt, AfterFlush, SourcesDropped
  <2> QED BY <1>6, <2>1, <2>2, <2>3, <2>4 DEF Unspoilt
<1> QED BY <1>2, <1>3, <1>4, <1>6, <1>7, StillTyped DEF LoadInv

LEMMA DropSourcesStep ==
    ASSUME LoadInv, DropSources
    PROVE  LoadInv'
<1>0. PICK spared \in {{}, GoneChunks}, vspared \in {{}, ChunkVectors} :
        /\ sourceRows' = [c \in Chunks |-> IF c \in GoneChunks \ spared THEN Absent
                                           ELSE sourceRows[c]]
        /\ slots' = [i \in Ids |-> IF i \in ChunkVectors \ vspared THEN Absent ELSE slots[i]]
        /\ run' = [run EXCEPT !.at = "dropEdges", !.clean = @ /\ spared = {} /\ vspared = {}]
  BY DEF DropSources
<1>1. /\ run.at = "dropSources" /\ run \in LoadRuns
      /\ UNCHANGED <<nodeRows, edgeRows, docRows, live, outside>>
  BY FitFrom DEF DropSources
<1>2. /\ GoesOn /\ run'.pending = run.pending /\ run'.at = "dropEdges"
      /\ run'.applied = run.applied /\ (run'.clean <=> run.clean /\ spared = {} /\ vspared = {})
  BY <1>0, <1>1 DEF GoesOn, LoadRuns, LoadStages
<1>3. StoresFit'
  BY <1>0, FitFrom, <1>1, ChunkStoresFit DEF StoresTyped, SlotsAreOwn, OwnSlot, Ids
<1>4. ProgressFits'
  BY <1>2, EndFits DEF AfterFlush
<1>5. /\ ListedNodes' = ListedNodes /\ ListedChunks' = ListedChunks /\ run'.file = run.file /\ live' = live
  BY <1>2, Remains DEF GoesOn
<1>6. EdgesTried' /\ (ListedEdgesFit /\ OtherEdgesFit => ListedEdgesFit' /\ OtherEdgesFit')
  BY <1>1, <1>2, EdgesFrame DEF AfterEdges, LoadStages, EdgesDropped
<1>7. /\ \A i \in Ids \cap (ListedNodes \cup ListedChunks) : slots'[i] = slots[i]
      /\ GoneChunks \cap ListedChunks = {}
  BY <1>0 DEF ChunkVectors, GoneChunks, ListedNodes, ListedChunks
<1>8. ASSUME run'.clean PROVE Unspoilt'
  <2>1. Unspoilt /\ spared = {}
    BY <1>2, <1>8, FitFrom
  <2>2. ListedNodesFit' /\ OtherNodesFit'
    BY <1>7, FitFrom, <1>1, <1>2, <2>1, NodesFrame DEF Ids, Unspoilt, NodesDropped, DocsDropped
  <2>3. ListedChunksFit'
    <3>1. \A c \in ListedChunks : ChunkSettles(c) /\ sourceRows'[c] = sourceRows[c] /\ slots'[c] = slots[c]
      BY <1>0, <1>1, <1>7, <2>1, FitFrom DEF Unspoilt, ListedChunksFit, AfterFlush, Ids
    <3> QED BY <1>2, <1>5, <3>1 DEF ListedChunksFit, ChunkSettles, HasOwnSlot, AfterFlush
  <2>4. OtherChunksFit'
    BY <1>0, <1>1, <2>1, <1>2, <1>5 DEF Unspoilt, OtherChunksFit, SourcesDropped, GoneChunks,
       ListedChunks
  <2>5. SeenIsThere'
    BY <1>2 DEF SeenIsThere
  <2> QED BY <1>6, <2>1, <2>2, <2>3, <2>4, <2>5 DEF Unspoilt
<1> QED BY <1>2, <1>3, <1>4, <1>6, <1>8, StillTyped DEF LoadInv

LEMMA DropEdgesStep ==
    ASSUME LoadInv, DropEdges
    PROVE  LoadInv'
<1>0. PICK spared \in SUBSET StaleEdges :
        /\ edgeRows' = [e \in Edges |-> IF e \in StaleEdges \ spared THEN Absent ELSE edgeRows[e]]
        /\ run' = [run EXCEPT !.at = "dropVectors", !.clean = @ /\ spared = {}]
  BY DEF DropEdges
<1>1. /\ run.at = "dropEdges" /\ run \in LoadRuns
      /\ UNCHANGED <<nodeRows, docRows, sourceRows, slots, live, outside>>
  BY FitFrom DEF DropEdges
<1>2. /\ GoesOn /\ run'.pending = run.pending /\ run'.at = "dropVectors"
      /\ run'.applied = run.applied /\ (run'.clean <=> run.clean /\ spared = {})
  BY <1>0, <1>1 DEF GoesOn, LoadRuns, LoadStages
<1>3. StoresFit'
  BY <1>0, FitFrom, <1>1 DEF StoresTyped, StoresFit, DocsKeyed, SlotsAreOwn, OwnSlot
<1>4. ProgressFits'
  BY <1>2, EndFits DEF AfterFlush
<1>5. /\ ListedEdges' = ListedEdges /\ run'.file = run.file /\ live' = live
      /\ \A d : EndsListed(d)' <=> EndsListed(d)
  BY <1>2, Remains DEF GoesOn
<1>6. \A e \in ListedEdges : e \in run.applied \/ ~EndsListed(e)
  BY <1>1, FitFrom DEF EdgesTried, AfterEdges, LoadStages
<1>7. EdgesTried'
  BY <1>2, <1>5, <1>6 DEF EdgesTried
<1>8. ASSUME run'.clean PROVE Unspoilt'
  <2>1. Unspoilt /\ spared = {}
    BY <1>2, <1>8, FitFrom
  <2>2. ListedNodesFit' /\ OtherNodesFit'
    BY <1>1, <1>2, <2>1, NodesFrame DEF Unspoilt, NodesDropped, DocsDropped
  <2>3. \A e \in ListedEdges : edgeRows[e] = run.file.edges[e] /\ EndsListed(e) /\ e \in run.applied
    BY <1>1, <1>6, <2>1 DEF Unspoilt, ListedEdgesFit, AfterEdges, LoadStages
  <2>4. ListedEdgesFit'
    BY <1>0, <2>3, FitFrom, <1>5 DEF StaleEdges, ListedEdgesFit
  <2>5. OtherEdgesFit'
    BY <1>1, <2>1, <1>0, <2>3, FitFrom, <1>5 DEF Unspoilt, OtherEdgesFit, StaleEdges
  <2>6. ListedChunksFit' /\ OtherChunksFit' /\ SeenIsThere'
    BY <1>1, <1>2, <2>1, ChunksFrame DEF Unspoilt, AfterFlush, SourcesDropped
  <2> QED BY <2>2, <2>4, <2>5, <2>6 DEF Unspoilt
<1> QED BY <1>2, <1>3, <1>4, <1>7, <1>8, StillTyped DEF LoadInv

LEMMA DropVectorsStep ==
    ASSUME LoadInv, DropVectors
    PROVE  LoadInv'
<1>0. PICK spared \in {{}, Orphans} :
        /\ slots' = [i \in Ids |-> IF i \in Orphans \ spared THEN Absent ELSE slots[i]]
        /\ run' = [run EXCEPT !.at = "done", !.clean = @ /\ spared = {}]
  BY DEF DropVectors
<1>1. /\ run.at = "dropVectors" /\ run \in LoadRuns
      /\ UNCHANGED <<nodeRows, edgeRows, docRows, sourceRows, live, outside>>
  BY FitFrom DEF DropVectors
<1>2. /\ GoesOn /\ run'.pending = run.pending /\ run'.at = "done"
      /\ run'.applied = run.applied /\ (run'.clean <=> run.clean /\ spared = {})
  BY <1>0, <1>1 DEF GoesOn, LoadRuns, LoadStages
<1>3. StoresFit'
  BY <1>0, <1>1, FitFrom, ChunkStoresFit DEF StoresTyped, SlotsAreOwn, OwnSlot, Ids
<1>4. ProgressFits'
  BY <1>2, EndFits DEF AfterFlush
<1>5. \A i \in Ids \cap (ListedNodes \cup ListedChunks) : slots'[i] = slots[i]
  BY <1>0 DEF Orphans, ListedNodes, ListedChunks
<1>6. EdgesTried' /\ (ListedEdgesFit /\ OtherEdgesFit => ListedEdgesFit' /\ OtherEdgesFit')
  BY <1>1, <1>2, EdgesFrame DEF AfterEdges, LoadStages, EdgesDropped
<1>7. ListedNodesFit /\ OtherNodesFit => ListedNodesFit' /\ OtherNodesFit'
  BY <1>5, FitFrom, <1>1, <1>2, NodesFrame DEF Ids, NodesDropped, DocsDropped
<1>8. ListedChunksFit /\ OtherChunksFit => ListedChunksFit' /\ OtherChunksFit' /\ SeenIsThere'
  BY <1>5, FitFrom, <1>1, <1>2, ChunksFrame DEF Ids, AfterFlush, SourcesDropped
<1> QED BY <1>2, <1>3, <1>4, <1>6, <1>7, <1>8, FitFrom, StillTyped DEF LoadInv, Unspoilt
-----------------------------------------------------------------------------
(* The invariant.                                                          *)

LEMMA LoadInvInit == LoadInit => LoadInv
BY IdleIs, NoSnapshotTyped DEF LoadInit, LoadTyped, DocsKeyed, SlotsAreOwn, ProgressFits,
   EdgesTried, AfterEdges, LoadInv

LEMMA LoadStutters ==
    ASSUME LoadInv, UNCHANGED loadVars
    PROVE  LoadInv'
<1>1. /\ LoadTyped' /\ DocsKeyed' /\ SlotsAreOwn'
  BY DEF LoadInv, LoadTyped, DocsKeyed, SlotsAreOwn, OwnSlot, loadVars
<1>2. /\ ListedNodes' = ListedNodes /\ ListedEdges' = ListedEdges /\ ListedChunks' = ListedChunks
      /\ (Pinned' <=> Pinned) /\ \A e : EndsListed(e)' <=> EndsListed(e)
  BY FitFrom, Remains DEF GoesOn, loadVars
<1>3. ProgressFits' /\ EdgesTried'
  BY <1>2 DEF LoadInv, ProgressFits, EdgesTried, OwnSlot, loadVars
<1>4. ASSUME Unspoilt PROVE Unspoilt'
  <2> USE DEF loadVars
  <2>1. ListedNodesFit' /\ OtherNodesFit'
    BY <1>2, <1>4 DEF Unspoilt, ListedNodesFit, OtherNodesFit, Settles, NodeHasSlot, DocsAsSeen
  <2>2. ListedEdgesFit' /\ OtherEdgesFit'
    BY <1>2, <1>4 DEF Unspoilt, ListedEdgesFit, OtherEdgesFit
  <2>3. ListedChunksFit' /\ OtherChunksFit'
    BY <1>2, <1>4 DEF Unspoilt, ListedChunksFit, OtherChunksFit, ChunkSettles, HasOwnSlot
  <2>4. SeenIsThere'
    BY <1>4 DEF Unspoilt, SeenIsThere
  <2> QED BY <2>1, <2>2, <2>3, <2>4 DEF Unspoilt
<1> QED BY <1>1, <1>3, <1>4 DEF LoadInv, loadVars

LEMMA LoadStepFits ==
    ASSUME LoadInv, LoadNext
    PROVE  LoadInv'
<1>1. ASSUME NEW f \in Files, StartFull(f) \/ \E force, replace \in BOOLEAN : StartIncremental(f, force, replace)
      PROVE  LoadInv'
  BY <1>1, StartsAreFit
<1>2. ASSUME NEW n \in Nodes, KeepNode(n) \/ SkipNode(n) \/ WriteNode(n) \/ FailNode(n) \/ ConflictNode(n)
      PROVE  LoadInv'
  BY <1>2, KeepNodeStep, WriteNodeStep, FailNodeStep, ConflictStep
<1>3. ASSUME NEW e \in Edges, SkipEdge(e) \/ WriteEdge(e) \/ FailEdge(e)
      PROVE  LoadInv'
  BY <1>3, SkipEdgeStep, EdgeSteps
<1>4. ASSUME NEW c \in Chunks, \/ QueueChunk(c) \/ KeepChunk(c) \/ RewriteMeta(c)
                               \/ FailMeta(c) \/ FlushSource(c) \/ FlushSingle(c)
      PROVE  LoadInv'
  BY <1>4, QueueChunkStep, KeepChunkStep, RewriteMetaStep, FailMetaStep, FlushSourceStep, FlushSingleStep
<1>5. CASE NodesDone \/ EdgesDone \/ ChunksRead \/ FlushVectors \/ ChunksDone \/ PassPins
  BY <1>5, NodesDoneStep, EdgesDoneStep, ChunksReadStep, FlushVectorsStep, ChunksDoneStep, PassPinsStep
<1>6. CASE DropNodes \/ DropDocs \/ DropSources \/ DropEdges \/ DropVectors
  BY <1>6, DropNodesStep, DropDocsStep, DropSourcesStep, DropEdgesStep, DropVectorsStep
<1>7. CASE StopAtPin \/ ReturnFromLoad \/ CrashLoad
  BY <1>7, StopStep DEF StopAtPin, ReturnFromLoad, CrashLoad
<1>8. CASE (\E i \in Ids : LoseVector(i)) \/ (\E n \in Nodes \ Chunks, v \in Version \ Refused : OutsideAdd(n, v))
  BY <1>8, OutsideSteps
<1> QED BY <1>1, <1>2, <1>3, <1>4, <1>5, <1>6, <1>7, <1>8 DEF LoadNext, LoadStep

LEMMA LoadInvHolds == LoadSpec => []LoadInv
<1>1. LoadInv /\ [LoadNext]_loadVars => LoadInv'
  BY LoadStepFits, LoadStutters
<1> QED BY <1>1, LoadInvInit, PTL DEF LoadSpec

\* Graph, documents, source texts and vectors hold rows of their shape.
THEOREM LoadTypeCorrect == LoadSpec => []LoadTypeOK
<1>1. LoadInv => LoadTypeOK
  BY DEF LoadInv, LoadTyped, LoadTypeOK, LoadRuns
<1> QED BY <1>1, LoadInvHolds, PTL

LEMMA DoneConverges ==
    ASSUME LoadInv, run.at = "done", run.clean
    PROVE  Converges
<1>1. /\ Unspoilt /\ LoadTyped /\ DocsKeyed /\ ListedNodes \subseteq Nodes
      /\ ListedEdges \subseteq Edges /\ ListedChunks \subseteq Chunks
  BY FitFrom
<1>2. /\ run.file.nodes \in [Nodes -> Version \cup {Absent}]
      /\ run.file.chunks \in [Chunks -> ChunkRow \cup {Absent}]
      /\ run.file.edges \in [Edges -> Values \cup {Absent}]
      /\ ListedNodes = {n \in Nodes : run.file.nodes[n] # Absent}
      /\ ListedChunks = {c \in Chunks : run.file.chunks[c] # Absent}
      /\ ListedEdges = {e \in Edges : run.file.edges[e] # Absent}
  BY <1>1, FileIsTyped
<1>3. /\ \A n \in ListedNodes : Settles(n) /\ NodeHasSlot(n)
      /\ \A n \in Nodes \ ListedNodes : nodeRows[n] = Absent /\ docRows[n] = {}
  BY <1>1 DEF Unspoilt, ListedNodesFit, OtherNodesFit, NodesDropped, DocsDropped
<1>4. nodeRows = run.file.nodes
  BY <1>2, <1>3, <1>1 DEF Settles, LoadTyped
<1>5. docRows = [n \in Nodes |-> {run.file.nodes[n]} \ {Absent}]
  BY <1>2, <1>3, <1>1 DEF Settles, LoadTyped
<1>6. /\ \A c \in ListedChunks : ChunkSettles(c)
      /\ \A c \in Chunks \ ListedChunks : sourceRows[c] = Absent
  BY <1>1 DEF Unspoilt, ListedChunksFit, OtherChunksFit, SourcesDropped, AfterFlush
<1>7. sourceRows = run.file.chunks
  BY <1>2, <1>6, <1>1 DEF ChunkSettles, LoadTyped
<1>8. run.file.edges = edgeRows \/ (ListedEdges = {} /\ live.edges # {})
  BY <1>1, <1>2 DEF Unspoilt, ListedEdgesFit, AfterEdges, LoadStages, OtherEdgesFit, EdgesDropped,
     LoadTyped
<1>9. \A i \in ListedNodes \ GoneChunks : slots[i] # Absent
  BY <1>6, <1>3 DEF GoneChunks, ListedChunks, ChunkSettles, HasOwnSlot, NodeHasSlot
<1>10. \A c \in ListedChunks : slots[c] # Absent /\ slots[c].meta # {}
  BY <1>6 DEF ChunkSettles, HasOwnSlot
<1> QED BY <1>4, <1>5, <1>7, <1>8, <1>9, <1>10 DEF Converges, ListedNodes, ListedEdges, ListedChunks

\* A run of the loader that met no fault, no error, no unconfirmed vector and no
\* other writer leaves the stores as its file says (load_nodes, load_chunks and
\* their incremental siblings, incremental_finalize).
THEOREM LoadsConverge == LoadSpec => []Converges
<1>1. LoadInv => Converges
  BY DoneConverges DEF Converges
<1> QED BY <1>1, LoadInvHolds, PTL

-----------------------------------------------------------------------------
(* What no step of a load takes away.                                      *)

NodesSpared == \A n \in Nodes : LosesNode(n) =>
    /\ run.file.nodes[n] = Absent /\ live.nodes[n] # Absent
    /\ run.force \/ ~Over30(GoneNodes, {m \in Nodes : live.nodes[m] # Absent})
DocsSpared == \A n \in Nodes : \A r \in docRows[n] \ docRows'[n] :
    \/ \E w \in docRows'[n] : w.space = r.space
    \/ r.space \in live.docs[n] /\ ( \/ run.file.nodes[n] = Absent
                                     \/ run.file.nodes[n].space # r.space)
SourcesSpared == \A c \in Chunks : sourceRows[c] # Absent /\ sourceRows'[c] = Absent =>
    run.file.chunks[c] = Absent /\ live.chunks[c] # Absent
SlotsSpared == \A i \in Ids : slots[i] # Absent /\ slots'[i] = Absent =>
    \/ i \notin Listed(run.file, "nodes") \cup Listed(run.file, "chunks")
    \/ i \in run'.pending
EdgesSpared == \A e \in Edges : edgeRows[e] # Absent /\ edgeRows'[e] = Absent =>
    \/ run.file.edges[e] = Absent
    \/ LosesNode(e[1]) \/ LosesNode(e[2])
    \/ ~EndsListed(e)
AllSpared == NodesSpared /\ DocsSpared /\ SourcesSpared /\ SlotsSpared /\ EdgesSpared

LEMMA StaysSpared ==
    /\ nodeRows' = nodeRows => NodesSpared
    /\ docRows' = docRows => DocsSpared
    /\ sourceRows' = sourceRows => SourcesSpared
    /\ slots' = slots => SlotsSpared
    /\ edgeRows' = edgeRows => EdgesSpared
BY DEF NodesSpared, LosesNode, DocsSpared, SourcesSpared, SlotsSpared, EdgesSpared

LEMMA NodeStepsSpare ==
    ASSUME LoadInv, NEW n \in Nodes, KeepNode(n) \/ WriteNode(n) \/ FailNode(n)
    PROVE  AllSpared
<1>1. /\ n \in ListedNodes /\ FileRow(n) \in Version /\ FileRow(n) # Absent /\ NodeSlot(FileRow(n)) # Absent
      /\ docRows \in [Nodes -> SUBSET Version]
      /\ nodeRows \in [Nodes -> Version \cup {Absent}] /\ slots \in [Ids -> Slot \cup {Absent}]
  BY TodoOf, FitFrom, FileSays, SlotsAreThere DEF KeepNode, WriteNode, FailNode, Writes, StoresTyped
<1>2. sourceRows' = sourceRows /\ edgeRows' = edgeRows
  BY DEF KeepNode, WriteNode, FailNode
<1>3. NodesSpared
  BY <1>1 DEF KeepNode, WriteNode, FailNode, Land, LosesNode, NodesSpared
<1>4. SlotsSpared
  BY <1>1 DEF KeepNode, WriteNode, FailNode, Land, SlotsSpared
<1>5. DocsSpared
  <2>1. CASE docRows' = CleanDocs(n, docRows)
    BY <2>1, <1>1 DEF CleanDocs, OtherSpaces, FileRow, DocsSpared
  <2>2. CASE WriteNode(n)
    <3> DEFINE written == {r \in docRows[n] : r.space # FileRow(n).space} \cup {FileRow(n)}
    <3>1. docRows' = [docRows EXCEPT ![n] = {r \in written : r.space \notin OtherSpaces(n)}]
      BY <1>1, <2>2 DEF WriteNode, CleanDocs
    <3>2. ASSUME NEW m \in Nodes, NEW r \in docRows[m] \ docRows'[m]
          PROVE  \/ \E w \in docRows'[m] : w.space = r.space
                 \/ r.space \in live.docs[m] /\ run.file.nodes[m].space # r.space
      BY <1>1, <3>1 DEF OtherSpaces, FileRow
    <3> QED BY <3>2 DEF DocsSpared
  <2>3. CASE WriteDoc(n, FileRow(n))
    BY <2>3, <1>1 DEF WriteDoc, DocsSpared
  <2>4. CASE docRows' = docRows
    BY <2>4, StaysSpared
  <2> QED BY <2>1, <2>2, <2>3, <2>4 DEF KeepNode, FailNode, Land
<1> QED BY <1>2, <1>3, <1>4, <1>5, StaysSpared DEF AllSpared

LEMMA EdgeStepsSpare ==
    ASSUME LoadInv, NEW e \in Edges, WriteEdge(e) \/ FailEdge(e)
    PROVE  AllSpared
BY TodoOf, FitFrom, FileSays, SlotsAreThere, StaysSpared DEF WriteEdge, FailEdge, StoresTyped,
   EdgesSpared, AllSpared

LEMMA MetaRewritten ==
    ASSUME LoadInv, NEW c \in Chunks, RewriteMeta(c)
    PROVE  \A i \in Ids : slots[i] # Absent => slots'[i] # Absent
<1>1. /\ slots' = [slots EXCEPT ![c].meta = {FileChunk(c).meta}] /\ slots[c] # Absent
      /\ c \in ListedChunks /\ FileChunk(c) \in ChunkRow
  BY TodoOf, FitFrom, FileSays DEF RewriteMeta
<1>2. slots[c] \in Slot /\ slots \in [Ids -> Slot \cup {Absent}]
  BY <1>1, FitFrom DEF StoresTyped, Ids
<1>3. [slots[c] EXCEPT !.meta = {FileChunk(c).meta}] \in Slot
  BY <1>1, <1>2 DEF Slot, ChunkRow
<1>4. slots' = [slots EXCEPT ![c] = [slots[c] EXCEPT !.meta = {FileChunk(c).meta}]]
  BY <1>1
<1> HIDE DEF FileChunk
<1> QED BY <1>2, <1>3, <1>4, SlotsAreThere

LEMMA ChunkStepsSpare ==
    ASSUME LoadInv, FlushVectors \/ \E c \in Chunks : RewriteMeta(c) \/ FailMeta(c) \/ FlushSource(c) \/ FlushSingle(c)
    PROVE  AllSpared
<1>1. UNCHANGED <<nodeRows, edgeRows, docRows>>
  BY DEF FlushVectors, RewriteMeta, FailMeta, FlushSource, FlushSingle
<1>2. SourcesSpared
  <2>1. CASE sourceRows' = sourceRows
    BY <2>1, StaysSpared
  <2>2. ASSUME NEW c \in Chunks, c \in ListedChunks, sourceRows' = [sourceRows EXCEPT ![c] = FileChunk(c)]
        PROVE  SourcesSpared
    BY <2>2, FitFrom, FileSays DEF StoresTyped, SourcesSpared
  <2>3. ASSUME NEW c \in Chunks, RewriteMeta(c) \/ FailMeta(c) \/ FlushSource(c) \/ FlushSingle(c)
        PROVE  c \in ListedChunks
    BY <2>3, FitFrom, TodoOf DEF RewriteMeta, FailMeta, FlushSource, FlushSingle
  <2>4. ASSUME NEW c \in Chunks, RewriteMeta(c) \/ FailMeta(c) \/ FlushSource(c) \/ FlushSingle(c)
        PROVE  sourceRows' \in {sourceRows, [sourceRows EXCEPT ![c] = FileChunk(c)]}
    BY <2>4 DEF RewriteMeta, FailMeta, FlushSource, FlushSingle
  <2> QED BY <2>1, <2>2, <2>3, <2>4 DEF FlushVectors
<1>3. SlotsSpared
  <2>1. CASE slots' = slots
    BY <2>1, StaysSpared
  <2>2. ASSUME NEW cs \in SUBSET ListedChunks, slots' = Embedded(cs)
        PROVE  SlotsSpared
    BY <2>2, EmbeddedFits, FitFrom DEF Ids, SlotsSpared
  <2>3. ASSUME NEW c \in Chunks, RewriteMeta(c)
        PROVE  SlotsSpared
    BY <2>3, MetaRewritten DEF SlotsSpared
  <2>4. ASSUME NEW c \in Chunks, FailMeta(c)
        PROVE  SlotsSpared
    BY <2>4, FitFrom DEF FailMeta, LoadRuns, StoresTyped, SlotsSpared
  <2>5. ASSUME NEW c \in Chunks, FlushSource(c) \/ FlushSingle(c)
        PROVE  SlotsSpared
    BY <2>5, FitFrom, <2>1, <2>2 DEF FlushSource, FlushSingle
  <2>6. CASE FlushVectors
    BY FitFrom, <2>1, <2>2, <2>6 DEF FlushVectors
  <2> QED BY <2>3, <2>4, <2>5, <2>6
<1> QED BY <1>1, <1>2, <1>3, StaysSpared DEF AllSpared

LEMMA DropsSpare ==
    ASSUME LoadInv, DropNodes \/ DropDocs \/ DropSources \/ DropEdges \/ DropVectors
    PROVE  AllSpared
<1>1. CASE DropNodes
  <2>0. PICK spared \in SUBSET GoneNodes :
        LET gone == {n \in GoneNodes \ spared :
                        nodeRows[n] # Absent /\ nodeRows[n].type = live.nodes[n].type} IN
        /\ nodeRows' = [n \in Nodes |-> IF n \in gone THEN Absent ELSE nodeRows[n]]
        /\ edgeRows' = [e \in Edges |-> IF {e[1], e[2]} \cap gone # {} THEN Absent
                                        ELSE edgeRows[e]]
    BY <1>1 DEF DropNodes
  <2> DEFINE gone == {n \in GoneNodes \ spared : nodeRows[n] # Absent /\ nodeRows[n].type = live.nodes[n].type}
  <2>1. UNCHANGED <<docRows, sourceRows, slots>>
    BY <1>1 DEF DropNodes
  <2>2. ~Pinned
    BY <1>1, FitFrom DEF DropNodes, ProgressFits
  <2>3. NodesSpared
    BY <2>0, FitFrom, FileIsTyped, <2>2 DEF LosesNode, GoneNodes, ListedNodes, Pinned, NodesSpared
  <2>4. EdgesSpared
    BY LoadAssumption, <2>0 DEF LosesNode, EdgesSpared
  <2> QED BY <2>1, <2>3, <2>4, StaysSpared DEF AllSpared
<1>2. CASE DropDocs
  <2>0. PICK spared \in SUBSET GoneDocs :
            docRows' = [n \in Nodes |-> IF n \in GoneDocs \ spared
                          THEN {r \in docRows[n] : r.space \notin live.docs[n]}
                          ELSE docRows[n]]
    BY <1>2 DEF DropDocs
  <2>1. UNCHANGED <<nodeRows, edgeRows, sourceRows, slots>>
    BY <1>2 DEF DropDocs
  <2>2. ASSUME NEW n \in Nodes, NEW r \in docRows[n] \ docRows'[n]
        PROVE  r.space \in live.docs[n] /\ run.file.nodes[n] = Absent
    BY <2>0, FitFrom, FileIsTyped DEF GoneDocs, ListedNodes
  <2>3. DocsSpared
    BY <2>2 DEF DocsSpared
  <2> QED BY <2>1, <2>3, StaysSpared DEF AllSpared
<1>3. CASE DropSources
  BY <1>3, FitFrom, FileIsTyped, StaysSpared DEF DropSources, GoneChunks, ListedChunks,
     SourcesSpared, SlotsSpared, ChunkVectors, AllSpared
<1>4. CASE DropEdges
  BY <1>4, FitFrom, FileIsTyped, StaysSpared DEF DropEdges, EdgesTried, AfterEdges, LoadStages,
     StaleEdges, EdgesSpared, AllSpared
<1>5. CASE DropVectors
  BY <1>5, StaysSpared DEF DropVectors, SlotsSpared, Orphans, AllSpared
<1> QED BY <1>1, <1>2, <1>3, <1>4, <1>5

LEMMA LoadsSpare ==
    ASSUME LoadInv, LoadNext, outside' = outside
    PROVE  AllSpared
<1>1. CASE UNCHANGED <<nodeRows, edgeRows, docRows, sourceRows, slots>>
  BY <1>1, StaysSpared DEF AllSpared
<1>2. ASSUME NEW f \in Files, StartFull(f) \/ \E force, replace \in BOOLEAN : StartIncremental(f, force, replace)
      PROVE  AllSpared
  BY <1>1, <1>2 DEF StartFull, StartIncremental, stores
<1>3. ASSUME NEW n \in Nodes, KeepNode(n) \/ SkipNode(n) \/ WriteNode(n) \/ FailNode(n) \/ ConflictNode(n)
      PROVE  AllSpared
  BY <1>1, <1>3, NodeStepsSpare DEF ConflictNode, SkipNode, stores
<1>4. ASSUME NEW e \in Edges, SkipEdge(e) \/ WriteEdge(e) \/ FailEdge(e)
      PROVE  AllSpared
  BY <1>1, <1>4, EdgeStepsSpare DEF SkipEdge, stores
<1>5. ASSUME NEW c \in Chunks, \/ QueueChunk(c) \/ KeepChunk(c) \/ RewriteMeta(c)
                               \/ FailMeta(c) \/ FlushSource(c) \/ FlushSingle(c)
      PROVE  AllSpared
  BY <1>1, ChunkStepsSpare, <1>5 DEF QueueChunk, KeepChunk, stores
<1>6. CASE NodesDone \/ EdgesDone \/ ChunksRead \/ ChunksDone \/ PassPins \/ StopAtPin \/ ReturnFromLoad \/ CrashLoad
  BY <1>1, <1>6 DEF NodesDone, EdgesDone, ChunksRead, ChunksDone, PassPins, StopAtPin, ReturnFromLoad,
                    CrashLoad, stores
<1>7. CASE FlushVectors
  BY <1>7, ChunkStepsSpare
<1>8. CASE DropNodes \/ DropDocs \/ DropSources \/ DropEdges \/ DropVectors
  BY <1>8, DropsSpare
<1>9. ~(\E i \in Ids : LoseVector(i)) /\ ~(\E n \in Nodes \ Chunks, v \in Version \ Refused : OutsideAdd(n, v))
  BY FitFrom DEF StoresTyped, LoseVector, OutsideAdd
<1> QED BY <1>2, <1>3, <1>4, <1>5, <1>6, <1>7, <1>8, <1>9 DEF LoadNext, LoadStep

\* No step of a load takes away what its file lists, nor what another writer
\* added behind its snapshot, and without --force-delete no more of the nodes
\* than the pin allows (incremental_finalize).
THEOREM LoadsLoseOnlyStale == LoadSpec => LosesOnlyStale
<1>1. LoadInv /\ [LoadNext]_loadVars => [outside' = outside =>
        /\ \A n \in Nodes : LosesNode(n) =>
              /\ run.file.nodes[n] = Absent /\ live.nodes[n] # Absent
              /\ run.force \/ ~Over30(GoneNodes, {m \in Nodes : live.nodes[m] # Absent})
        /\ \A n \in Nodes : \A r \in docRows[n] \ docRows'[n] :
              \/ \E w \in docRows'[n] : w.space = r.space
              \/ r.space \in live.docs[n] /\ ( \/ run.file.nodes[n] = Absent
                                               \/ run.file.nodes[n].space # r.space)
        /\ \A c \in Chunks : sourceRows[c] # Absent /\ sourceRows'[c] = Absent =>
              run.file.chunks[c] = Absent /\ live.chunks[c] # Absent
        /\ \A i \in Ids : slots[i] # Absent /\ slots'[i] = Absent =>
              \/ i \notin Listed(run.file, "nodes") \cup Listed(run.file, "chunks")
              \/ i \in run'.pending
        /\ \A e \in Edges : edgeRows[e] # Absent /\ edgeRows'[e] = Absent =>
              \/ run.file.edges[e] = Absent
              \/ LosesNode(e[1]) \/ LosesNode(e[2])
              \/ ~EndsListed(e)]_loadVars
  BY LoadsSpare DEF AllSpared, NodesSpared, DocsSpared, SourcesSpared, SlotsSpared, EdgesSpared
<1> QED BY <1>1, LoadInvHolds, PTL DEF LoadSpec, LosesOnlyStale

-----------------------------------------------------------------------------
(***************************************************************************)
(* The five together: a behaviour moves one of them, the others rest.      *)
(***************************************************************************)

\* Every behaviour is one of each component.
LEMMA StoresAreEach ==
    StoresSpec => LoadSpec /\ GraphSpec /\ CleanupSpec /\ BackfillSpec /\ OwnershipSpec
<1>1. StoresInit => LoadInit /\ GraphInit /\ CleanupInit /\ BackfillInit /\ OwnershipInit
  BY DEF StoresInit
<1>2. [StoresNext]_allVars => [LoadNext]_loadVars
  BY DEF StoresNext, allVars
<1>3. [StoresNext]_allVars => [GraphNext]_graphVars
  BY DEF StoresNext, allVars
<1>4. [StoresNext]_allVars => [CleanupNext]_cleanupVars
  BY DEF StoresNext, allVars
<1>5. [StoresNext]_allVars => [BackfillNext]_backfillVars
  BY DEF StoresNext, allVars
<1>6. [StoresNext]_allVars => [OwnershipNext]_ownershipVars
  BY DEF StoresNext, allVars
<1> QED BY <1>1, <1>2, <1>3, <1>4, <1>5, <1>6, PTL
        DEF StoresSpec, LoadSpec, GraphSpec, CleanupSpec, BackfillSpec, OwnershipSpec

\* The types of the components that move and repair rows.
THEOREM StoresTypesCorrect == StoresSpec => []StoresTypesOK
<1>1. LoadTypeOK /\ GraphTypeOK /\ CleanupTypeOK /\ BackfillTypeOK /\ OwnershipTypeOK => StoresTypesOK
  BY DEF StoresTypesOK
<1> QED BY <1>1, StoresAreEach, LoadTypeCorrect, GraphTypeCorrect, CleanupTypeCorrect,
           BackfillTypeCorrect, OwnershipTypeCorrect, PTL

\* A run that reports success has done what it was for, the graph is whole, and a
\* cleanup can be finished or rolled back, for any number of rows, packs, runs
\* and faults.
THEOREM StoresAreLeftWhole == StoresSpec => []RunsLeaveWholeStores
<1>1. /\ Converges /\ BackfillConverges /\ ExitZeroMeansOwned /\ AttributionIsStable
      /\ GraphIsWhole /\ CleanupIsRecoverable
      => RunsLeaveWholeStores
  BY DEF RunsLeaveWholeStores
<1> QED BY <1>1, StoresAreEach, LoadsConverge, BackfillEndsSettled, OwnershipConverges,
           GraphStaysWhole, CleanupRecoverable, PTL

\* No step loses a row that the input, the cutover or the rollback had to keep,
\* takes a space from a record, or answers a committed request with anything but
\* its receipt.
THEOREM RowsAreKept == StoresSpec => StoresKeepTheirRows
BY StoresAreEach, LoadsLoseOnlyStale, CutoverKeepsAll, RollbackRestoresAll,
   BackfillSparesSpaces, RetriesAreAnswered DEF StoresKeepTheirRows
=============================================================================
