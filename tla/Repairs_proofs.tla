---------------------------- MODULE Repairs_proofs ----------------------------
(***************************************************************************)
(* Proofs about the tools that copy, move and repair whole stores, for any *)
(* rows, packs, files and installations and any faults, interruptions and  *)
(* repeated runs: schema packs (SchemaPacks), the repair of the owner      *)
(* 'None' (NoneOwnerRepair) and of mismatched ids (MismatchRepair), the    *)
(* copy of a pack (ForkCopy), the reconciliation of documents and nodes    *)
(* (Reconcile), backups (BackupRun), the migration between stores          *)
(* (StoreMigration), and the seven together (MCRepairs).                   *)
(***************************************************************************)
EXTENDS MCRepairs, TLAPS, FiniteSetTheorems, NaturalsInduction, WellFoundedInduction

-----------------------------------------------------------------------------
(* Schema packs: any number of packs, types, threads, calls and edits.     *)

\* A person's file has no generated header, whatever its text says.
SchemaFiles ==
    {f \in [by : {"nobody", "tool", "user"}, header : SchemaPackNames \cup {"none"},
            says : SUBSET SchemaPackNames, shape : {"none", "legacy", "current", "torn"},
            fields : SUBSET {"name", "own"}] : f.by = "user" => f.header = "none"}
SomeType == SchemaTypes \cup {CHOOSE t \in TypesOf[p] : TRUE : p \in SchemaPackNames}
SchemaJobs ==
    [call : {"install", "uninstall"}, of : SchemaPackNames, force : BOOLEAN,
     left : SUBSET SchemaTypes, at : {"next", "act", "write"}, type : SomeType,
     saw : SchemaFiles, wrote : SUBSET SchemaTypes]

\* A call that is about to write or unlink has seen a file that lets it.
CallIsLicensed(j) ==
    /\ j.left \subseteq TypesOf[j.of] /\ j.wrote \subseteq TypesOf[j.of]
    /\ j.at = "write" => j.call = "install"
    /\ j.at # "next" =>
         /\ j.type \in TypesOf[j.of]
         /\ j.call = "install" => Installable(j.saw, j.of)
         /\ j.call = "uninstall" => Removable(j.saw, j.of, j.force)

SchemaInv ==
    /\ file \in [SchemaTypes -> SchemaFiles]
    /\ job \in [Installers -> {Idle} \cup SchemaJobs]
    /\ \A n \in Installers : Busy(n) => CallIsLicensed(job[n])

LEMMA SchemaFileTypes ==
    /\ Absent \in SchemaFiles /\ Torn \in SchemaFiles
    /\ \A p \in SchemaPackNames, shape \in {"legacy", "current"}, fields \in SUBSET {"name", "own"} :
          Generated(p, shape, fields) \in SchemaFiles
    /\ \A says \in SUBSET SchemaPackNames, shape \in {"legacy", "current"} :
          ByHand(says, shape, {"own"}) \in SchemaFiles
BY DEF SchemaFiles, Absent, Torn, Generated, ByHand

LEMMA IdleFacts ==
    /\ Idle.call = "none"
    /\ \A j \in SchemaJobs : j.call # "none" /\ j # Idle
BY DEF Idle, SchemaJobs

LEMMA BusyJob ==
    ASSUME SchemaInv, NEW n \in Installers, Busy(n)
    PROVE  /\ job[n] \in SchemaJobs /\ CallIsLicensed(job[n])
           /\ TypesOf[job[n].of] \subseteq SchemaTypes
BY IdleFacts DEF SchemaInv, Busy, SchemaJobs, SchemaTypes

\* The one who moves is licensed; the others' calls are as they were.
LEMMA JobMoves ==
    ASSUME SchemaInv, NEW n \in Installers, NEW j \in {Idle} \cup SchemaJobs,
           j # Idle => CallIsLicensed(j), job' = [job EXCEPT ![n] = j]
    PROVE  /\ job' \in [Installers -> {Idle} \cup SchemaJobs]
           /\ (\A m \in Installers : Busy(m) => CallIsLicensed(job[m]))'
BY IdleFacts DEF SchemaInv, Busy, CallIsLicensed

LEMMA SchemaStarts ==
    ASSUME SchemaInit
    PROVE  SchemaInv
BY SchemaFileTypes, IdleFacts DEF SchemaInit, SchemaInv, Busy

LEMMA SchemaCallsStep ==
    ASSUME SchemaInv, NEW n \in Installers, NEW p \in SchemaPackNames,
           NEW call \in {"install", "uninstall"}, NEW force \in BOOLEAN,
           StartCall(n, call, p, force)
    PROVE  SchemaInv'
<1> DEFINE j == [call |-> call, of |-> p, force |-> force, left |-> TypesOf[p],
                 at |-> "next", type |-> CHOOSE t \in TypesOf[p] : TRUE,
                 saw |-> Absent, wrote |-> {}]
<1>1. TypesOf[p] \subseteq SchemaTypes /\ (CHOOSE t \in TypesOf[p] : TRUE) \in SomeType
  BY DEF SchemaTypes, SomeType
<1>2. j \in SchemaJobs
  BY <1>1, SchemaFileTypes DEF SchemaJobs
<1>3. CallIsLicensed(j)
  BY DEF CallIsLicensed
<1>4. job' = [job EXCEPT ![n] = j]
  BY DEF StartCall
<1> HIDE DEF j
<1>5. /\ job' \in [Installers -> {Idle} \cup SchemaJobs]
      /\ (\A m \in Installers : Busy(m) => CallIsLicensed(job[m]))'
  BY <1>2, <1>3, <1>4, JobMoves
<1> QED BY <1>5 DEF SchemaInv, StartCall

LEMMA SchemaLooksStep ==
    ASSUME SchemaInv, NEW n \in Installers, LookAtFile(n)
    PROVE  SchemaInv'
<1>1. PICK t \in job[n].left :
         LET acts == IF job[n].call = "install" THEN Installable(file[t], job[n].of)
                     ELSE Removable(file[t], job[n].of, job[n].force)
         IN  job' = [job EXCEPT ![n].left = @ \ {t}, ![n].type = t, ![n].saw = file[t],
                                ![n].at = IF acts THEN "act" ELSE "next"]
  BY DEF LookAtFile
<1> DEFINE acts == IF job[n].call = "install" THEN Installable(file[t], job[n].of)
                   ELSE Removable(file[t], job[n].of, job[n].force)
           j == [job[n] EXCEPT !.left = @ \ {t}, !.type = t, !.saw = file[t],
                               !.at = IF acts THEN "act" ELSE "next"]
<1>2. /\ job[n] \in SchemaJobs /\ CallIsLicensed(job[n])
      /\ TypesOf[job[n].of] \subseteq SchemaTypes
  BY BusyJob DEF LookAtFile
<1>3. t \in SchemaTypes /\ t \in TypesOf[job[n].of] /\ file[t] \in SchemaFiles /\ t \in SomeType
  BY <1>2 DEF CallIsLicensed, SchemaInv, SomeType
<1>4. j \in SchemaJobs
  BY <1>2, <1>3 DEF SchemaJobs
<1>5. /\ j.left = job[n].left \ {t} /\ j.type = t /\ j.saw = file[t]
      /\ j.at = (IF acts THEN "act" ELSE "next")
      /\ j.call = job[n].call /\ j.of = job[n].of /\ j.force = job[n].force /\ j.wrote = job[n].wrote
  BY <1>2 DEF SchemaJobs
<1>6. CallIsLicensed(j)
  BY <1>5, <1>2, <1>3 DEF CallIsLicensed
<1>7. job' = [job EXCEPT ![n] = j]
  BY <1>1, <1>2 DEF SchemaInv
<1> HIDE DEF j
<1>8. /\ job' \in [Installers -> {Idle} \cup SchemaJobs]
      /\ (\A m \in Installers : Busy(m) => CallIsLicensed(job[m]))'
  BY <1>4, <1>6, <1>7, JobMoves
<1> QED BY <1>8 DEF SchemaInv, LookAtFile

LEMMA SchemaWritesStep ==
    ASSUME SchemaInv, NEW n \in Installers, TruncateFile(n) \/ WriteFile(n) \/ UnlinkFile(n)
    PROVE  SchemaInv'
<1>1. /\ job[n] \in SchemaJobs /\ CallIsLicensed(job[n])
      /\ TypesOf[job[n].of] \subseteq SchemaTypes /\ job[n].type \in TypesOf[job[n].of]
  BY BusyJob DEF TruncateFile, WriteFile, UnlinkFile, CallIsLicensed
<1>2. PICK f \in SchemaFiles : file' = [file EXCEPT ![job[n].type] = f]
  BY <1>1, SchemaFileTypes DEF RegeneratedFields, SchemaJobs, SchemaFiles, TruncateFile, WriteFile,
     UnlinkFile
<1>3. file' \in [SchemaTypes -> SchemaFiles]
  BY <1>2 DEF SchemaInv
<1>4. PICK j \in SchemaJobs : CallIsLicensed(j) /\ job' = [job EXCEPT ![n] = j]
  <2>1. CASE TruncateFile(n)
    <3> DEFINE j == [job[n] EXCEPT !.at = "write"]
    <3>1. j \in SchemaJobs
      BY <1>1 DEF SchemaJobs
    <3>2. CallIsLicensed(j)
      BY <2>1, <1>1 DEF TruncateFile, CallIsLicensed, SchemaJobs
    <3>3. job' = [job EXCEPT ![n] = j]
      BY <2>1 DEF TruncateFile, SchemaInv
    <3> QED BY <3>1, <3>2, <3>3
  <2>2. CASE WriteFile(n)
    <3> DEFINE j == [job[n] EXCEPT !.at = "next", !.wrote = @ \cup {job[n].type}]
    <3>1. j \in SchemaJobs
      BY <1>1 DEF SchemaJobs
    <3>2. CallIsLicensed(j)
      BY <1>1 DEF CallIsLicensed, SchemaJobs
    <3>3. job' = [job EXCEPT ![n] = j]
      BY <2>2 DEF WriteFile, SchemaInv
    <3> QED BY <3>1, <3>2, <3>3
  <2>3. CASE UnlinkFile(n)
    <3> DEFINE j == [job[n] EXCEPT !.at = "next"]
    <3>1. j \in SchemaJobs
      BY <1>1 DEF SchemaJobs
    <3>2. CallIsLicensed(j)
      BY <1>1 DEF CallIsLicensed, SchemaJobs
    <3>3. job' = [job EXCEPT ![n] = j]
      BY <2>3 DEF UnlinkFile, SchemaInv
    <3> QED BY <3>1, <3>2, <3>3
  <2> QED BY <2>1, <2>2, <2>3
<1>5. /\ job' \in [Installers -> {Idle} \cup SchemaJobs]
      /\ (\A m \in Installers : Busy(m) => CallIsLicensed(job[m]))'
  BY <1>4, JobMoves
<1> QED BY <1>3, <1>5 DEF SchemaInv

LEMMA SchemaOthersStep ==
    ASSUME SchemaInv,
           \/ \E n \in Installers : EndCall(n)
           \/ KillServer \/ \E t \in SchemaTypes : LoadSchema(t) \/ EditByHand(t)
    PROVE  SchemaInv'
BY JobMoves, IdleFacts, SchemaFileTypes DEF EndCall, SchemaInv, KillServer, Busy, LoadSchema,
   SchemaFiles, EditByHand

LEMMA SchemaPreserved == SchemaInv /\ [SchemaNext]_schemaVars => SchemaInv'
BY SchemaCallsStep, SchemaLooksStep, SchemaWritesStep, SchemaOthersStep DEF schemaVars, SchemaInv,
   Busy, SchemaNext

\* What the calls do to a person's file.
SparesThem ==
    \A t \in SchemaTypes :
        (file[t].by = "user" /\ file'[t].by # "user") =>
           \E n \in Installers :
               /\ Busy(n) /\ job[n].type = t
               /\ \/ job[n].saw # file[t]
                  \/ job[n].call = "uninstall" /\ (job[n].force \/ job[n].of \in file[t].says)
KeepsFields ==
    \A n \in Installers :
        (Busy(n) /\ job[n].at = "write" /\ Busy(n)' /\ job'[n].at = "next") =>
           job[n].saw.fields \subseteq file'[job[n].type].fields

LEMMA SchemaSpares == SchemaInv /\ [SchemaNext]_schemaVars => SparesThem
<1> SUFFICES ASSUME SchemaInv, [SchemaNext]_schemaVars, NEW t \in SchemaTypes,
                    file[t].by = "user", file'[t].by # "user"
             PROVE  \E n \in Installers :
                       /\ Busy(n) /\ job[n].type = t
                       /\ \/ job[n].saw # file[t]
                          \/ job[n].call = "uninstall" /\ (job[n].force \/ job[n].of \in file[t].says)
  BY DEF SparesThem
<1>1. file[t] \in SchemaFiles /\ file' # file
  BY DEF SchemaInv
<1>2. ASSUME NEW u \in SchemaTypes, EditByHand(u)
      PROVE  FALSE
  <2>1. file' = [file EXCEPT ![u] = file'[u]] /\ (file'[u].by = "user" \/ file[u].by = "tool")
    BY <1>2 DEF EditByHand, SchemaInv, ByHand
  <2>2. t \in SchemaTypes /\ file \in [SchemaTypes -> SchemaFiles]
    BY DEF SchemaInv
  <2>3. PICK g : g = file'
    OBVIOUS
  <2>4. u # t => g[t] = file[t]
    <3>1. g = [file EXCEPT ![u] = g[u]]
      BY ONLY <2>1, <2>3
    <3> QED BY ONLY <3>1, <2>2
  <2> QED BY <2>1, <2>3, <2>4
<1>3. PICK n \in Installers : TruncateFile(n) \/ WriteFile(n) \/ UnlinkFile(n)
  BY <1>1, <1>2 DEF SchemaNext, schemaVars, StartCall, LookAtFile, EndCall, KillServer, LoadSchema
<1>4. /\ Busy(n) /\ job[n].at # "next" /\ job[n] \in SchemaJobs /\ CallIsLicensed(job[n])
  BY <1>3, BusyJob DEF TruncateFile, WriteFile, UnlinkFile
<1>5. job[n].type = t
  BY <1>3 DEF TruncateFile, WriteFile, UnlinkFile, SchemaInv
<1>6. CASE job[n].call = "install"
  BY <1>4, <1>6, SchemaAssumption, <1>1, <1>5 DEF CallIsLicensed, SchemaJobs, Installable,
     HasMarker, Absent, SchemaFiles
<1>7. CASE job[n].call = "uninstall"
  BY <1>4, <1>7, <1>5 DEF CallIsLicensed, Removable
<1> QED BY <1>4, <1>6, <1>7 DEF SchemaJobs

LEMMA SchemaKeepsFields == SchemaInv /\ [SchemaNext]_schemaVars => KeepsFields
<1> SUFFICES ASSUME SchemaInv, [SchemaNext]_schemaVars, NEW n \in Installers,
                    Busy(n), job[n].at = "write", Busy(n)', job'[n].at = "next"
             PROVE  job[n].saw.fields \subseteq file'[job[n].type].fields
  BY DEF KeepsFields
<1>1. job[n].type \in SchemaTypes /\ job[n] \in SchemaJobs
  BY BusyJob DEF CallIsLicensed
<1>2. job'[n] # job[n]
  OBVIOUS
<1>3. WriteFile(n)
  <2>1. ASSUME NEW m \in Installers, NEW p \in SchemaPackNames, NEW c, NEW force, StartCall(m, c, p, force)
        PROVE  FALSE
    BY <2>1, <1>2 DEF StartCall, SchemaInv
  <2>2. ASSUME NEW m \in Installers, LookAtFile(m)
        PROVE  FALSE
    BY <2>2, <1>2 DEF LookAtFile, SchemaInv
  <2>3. ASSUME NEW m \in Installers, TruncateFile(m) \/ UnlinkFile(m) \/ EndCall(m)
        PROVE  FALSE
    BY <2>3, <1>2 DEF TruncateFile, UnlinkFile, EndCall, SchemaInv
  <2>4. ASSUME NEW m \in Installers, WriteFile(m)
        PROVE  m = n
    BY <2>4, <1>2 DEF WriteFile, SchemaInv
  <2>5. ~KillServer
    BY IdleFacts DEF KillServer, Busy
  <2>6. \A u \in SchemaTypes : ~LoadSchema(u) /\ ~EditByHand(u)
    BY <1>2 DEF LoadSchema, EditByHand
  <2> QED BY <1>2, <2>1, <2>2, <2>3, <2>4, <2>5, <2>6 DEF SchemaNext, schemaVars
<1>4. file'[job[n].type] = Generated(job[n].of, "current", RegeneratedFields(job[n].saw))
  BY <1>1, <1>3 DEF WriteFile, SchemaInv
<1> QED BY <1>4 DEF Generated, RegeneratedFields

LEMMA SchemaInvIsTyped == SchemaInv => SchemaTypeOK
BY BusyJob DEF CallIsLicensed, SchemaJobs, SchemaInv, SchemaFiles, SchemaTypeOK

LEMMA SchemaInvHolds == SchemaSpec => []SchemaInv
<1>1. SchemaInit => SchemaInv
  BY SchemaStarts
<1> QED BY <1>1, SchemaPreserved, PTL DEF SchemaSpec

\* The calls on schema packs keep their types (schemas/pack_registry.py).
THEOREM SchemaTypeCorrect == SchemaSpec => []SchemaTypeOK
BY SchemaInvHolds, SchemaInvIsTyped, PTL

\* A file of a person goes only unseen, by force, or because it names the pack.
THEOREM PeoplesFilesStay == SchemaSpec => SparesPeoplesFiles
<1>1. SchemaInv /\ [SchemaNext]_schemaVars => [SparesThem]_schemaVars
  BY SchemaSpares
<1>2. SparesPeoplesFiles <=> [][SparesThem]_schemaVars
  BY PTL DEF SparesPeoplesFiles, SparesThem
<1> QED BY <1>1, <1>2, SchemaInvHolds, PTL DEF SchemaSpec

\* A stub that is brought to the current shape asks for what it asked for.
THEOREM StubsKeepTheirFields == SchemaSpec => MigrationKeepsFields
<1>1. SchemaInv /\ [SchemaNext]_schemaVars => [KeepsFields]_schemaVars
  BY SchemaKeepsFields
<1>2. MigrationKeepsFields <=> [][KeepsFields]_schemaVars
  BY PTL DEF MigrationKeepsFields, KeepsFields
<1> QED BY <1>1, <1>2, SchemaInvHolds, PTL DEF SchemaSpec
-----------------------------------------------------------------------------
(* The repair of the owner 'None': any table, any faults, swaps and runs.  *)

\* The tool's mark stands on former legacy rows, and nobody else leaves one.
FitRows ==
    {r \in RowStates :
        /\ r.xmin > OldWriter => r.key = "null" /\ r.owner \in {"unowned", "None"}
        /\ r.xmin = OtherWriter => r.owner # "None"}

NonePhases == {"idle", "count", "take", "open", "link", "confirm", "clean", "commit",
               "settle", "refused", "lost", "rollback"}

\* What an open transaction holds carries its mark, and it holds nothing before
\* its statement and after its end.
HoldsItsMarks ==
    /\ held \subseteq VectorRows
    /\ \A v \in held : vrow[v].xmin = toolRuns
    /\ toolPc \in {"idle", "count", "take", "refused", "lost"} => held = {}
    /\ toolPc # "idle" => toolRuns > 0
    /\ fileRows \subseteq VectorRows
    /\ fileRows # {} => fileRun \in 1 .. MaxToolRuns

NoneTyped ==
    /\ vrow \in [VectorRows -> FitRows] /\ was \in [VectorRows -> FitRows]
    /\ toolPc \in NonePhases
    /\ toolRuns \in 0..MaxToolRuns /\ counted \in 0..Cardinality(VectorRows)
    /\ temp \in {"none", "ours", "other"} /\ final \in {"none", "ours", "other"}
    /\ outcome \in {"none", "open", "committed", "aborted"}

\* The report has its two parts, and a run that goes on has not closed it.
Silent == report.pub = "none" /\ report.db = "none"
ReportTyped == report = [pub |-> report.pub, db |-> report.db]

\* The name is not this run's before the link; from the confirmation to the end
\* of the commit it is, unless there was nothing to save; and a failure on the
\* way says how it left the name.
PublicationFits ==
    /\ toolPc \in {"count", "take", "open", "link"} => final # "ours"
    /\ toolPc \notin {"idle", "settle"} => Silent
    /\ toolPc = "clean" => final = "ours"
    /\ toolPc \in {"commit", "refused", "lost"} /\ covered => final = "ours" \/ counted = 0
    /\ toolPc = "settle" =>
         /\ report.db = "none" /\ report.pub # "not published"
         /\ report.pub = "none" => final # "ours"
         /\ report.pub = "published" => final = "ours"
    /\ toolPc = "refused" => outcome = "aborted"

ReportInv == ReportTyped /\ PublicationFits /\ RepairIsCovered /\ ReportIsTrue
RowsInv == NoneTyped /\ HoldsItsMarks
NoneInv == RowsInv /\ ReportInv

LEMMA LegacyCount ==
    /\ LegacyRows \subseteq VectorRows
    /\ Cardinality(LegacyRows) \in 0..Cardinality(VectorRows)
    /\ Cardinality({}) = 0 /\ Cardinality(VectorRows) \in Nat
BY NoneOwnerAssumption, FS_Subset, FS_CardinalityType, FS_EmptySet DEF LegacyRows

LEMMA UndoFits ==
    ASSUME RowsInv, Undo
    PROVE  /\ vrow' \in [VectorRows -> FitRows] /\ was' \in [VectorRows -> FitRows] /\ held' = {}
           /\ \A v \in VectorRows : vrow[v].xmin = OtherWriter => vrow'[v].xmin = OtherWriter
BY NoneOwnerAssumption DEF Undo, RowsInv, NoneTyped, HoldsItsMarks, OtherWriter

LEMMA KeepFits ==
    ASSUME RowsInv, Keep
    PROVE  /\ vrow' \in [VectorRows -> FitRows] /\ was' \in [VectorRows -> FitRows] /\ held' = {}
           /\ vrow' = vrow
BY DEF Keep, RowsInv, NoneTyped

LEMMA NoneStarts ==
    ASSUME NoneInit
    PROVE  NoneInv
<1>1. vrow \in [VectorRows -> FitRows]
  BY NoneOwnerAssumption DEF FitRows, RowStates, Owners, OldWriter, OtherWriter, NoneInit
<1>2. NoneTyped
  BY <1>1, LegacyCount, NoneOwnerAssumption DEF NoneInit, NoneTyped, NonePhases
<1>3. ReportInv
  BY DEF NoneInit, ReportInv, ReportTyped, PublicationFits, RepairIsCovered, ReportIsTrue, SayNothing
<1> QED BY <1>2, <1>3 DEF NoneInit, NoneInv, RowsInv, HoldsItsMarks

-----------------------------------------------------------------------------
(* What the run reports: no step needs the table's types.                  *)

LEMMA ReportGoesOn ==
    ASSUME ReportInv, StartRepair \/ CountLegacy \/ StartRollback \/ TakeOwnersOff \/ WriteTemp
    PROVE  ReportInv'
<1> USE DEF ReportInv, ReportTyped, PublicationFits, RepairIsCovered, ReportIsTrue, Silent, SayNothing, Fails
<1>1. CASE StartRepair
  BY <1>1 DEF StartRepair
<1>2. CASE CountLegacy
  BY <1>2 DEF CountLegacy
<1>3. CASE StartRollback
  BY <1>3 DEF StartRollback
<1>4. CASE TakeOwnersOff
  BY <1>4, LegacyCount DEF TakeOwnersOff
<1>5. CASE WriteTemp
  BY <1>5 DEF WriteTemp
<1> QED BY <1>1, <1>2, <1>3, <1>4, <1>5

LEMMA ReportPublishes ==
    ASSUME ReportInv, LinkFinal \/ ConfirmFinal \/ CleanTemp
    PROVE  ReportInv'
<1> USE DEF ReportInv, ReportTyped, PublicationFits, RepairIsCovered, ReportIsTrue, Silent, Fails, Says,
            RemovesOwn
<1>1. CASE LinkFinal
  BY <1>1 DEF LinkFinal
<1>2. CASE ConfirmFinal
  BY <1>2 DEF ConfirmFinal, IsConfirmed
<1>3. CASE CleanTemp
  BY <1>3 DEF CleanTemp
<1> QED BY <1>1, <1>2, <1>3

\* What a run may say when it closes.
LEMMA ClosingFits ==
    ASSUME ReportTyped', toolPc' = "idle",
           report'.pub = "published" => final' = "ours",
           report'.pub = "not published" => final' # "ours",
           report'.db \in {"committed", "partial"} => outcome' = "committed",
           report'.db \in {"rolled back", "not committed", "refused"} =>
              outcome' = "aborted" \/ ~covered' \/ counted' = 0,
           outcome' = "committed" /\ report'.pub # "none" /\ covered' =>
              (final' = "ours" /\ report'.pub = "published") \/ counted' = 0
    PROVE  ReportInv'
BY DEF PublicationFits, RepairIsCovered, ReportIsTrue, ReportInv

LEMMA SaidIsTyped ==
    ASSUME NEW pub, NEW db, report' = [pub |-> pub, db |-> db]
    PROVE  ReportTyped' /\ report'.pub = pub /\ report'.db = db
BY DEF ReportTyped

LEMMA ReportCloses ==
    ASSUME ReportInv,
           CommitRepair \/ Settle1 \/ SettleCommit \/ KillTool \/ EndRollback
    PROVE  ReportInv'
<1>1. CASE CommitRepair
  <2>1. UNCHANGED <<counted, final>>
    BY <1>1 DEF CommitRepair
  <2>5. covered' <=> covered
    BY <1>1, Zenon DEF CommitRepair
  <2>2. covered => final = "ours" \/ counted = 0
    BY <1>1 DEF CommitRepair, ReportInv, PublicationFits
  <2>3. CASE /\ Keep /\ outcome' = "committed" /\ toolPc' = "idle"
             /\ report' = [pub |-> IF Published THEN "published" ELSE "not published", db |-> "committed"]
    BY <2>3, SaidIsTyped, <2>1, ClosingFits, <2>2, <2>5 DEF Published
  <2>4. CASE toolPc' \in {"refused", "lost"} /\ (toolPc' = "refused" => outcome' = "aborted") /\ UNCHANGED report
    BY <1>1, <2>1, <2>2, <2>4, <2>5 DEF CommitRepair, ReportInv, ReportTyped, PublicationFits,
       RepairIsCovered, ReportIsTrue, Silent
  <2> QED BY <1>1, <2>3, <2>4 DEF CommitRepair
<1>2. CASE Settle1
  BY <1>2, SaidIsTyped, ClosingFits DEF Settle1, ReportInv, PublicationFits, Closes
<1>3. CASE SettleCommit
  <2>6. covered' <=> covered
    BY <1>3, Zenon DEF SettleCommit
  <2>1. /\ UNCHANGED <<counted, outcome>> /\ toolPc \in {"refused", "lost"}
        /\ covered => final = "ours" \/ counted = 0
        /\ toolPc = "refused" => outcome = "aborted"
    BY <1>3 DEF SettleCommit, ReportInv, PublicationFits
  <2>2. PICK rolledBack \in BOOLEAN :
         LET db == IF rolledBack THEN "rolled back" ELSE "unknown"
         IN  IF ~Published THEN UNCHANGED final /\ Closes("not published", db)
             ELSE IF rolledBack /\ DiscardsBackup
             THEN \/ final' = "none" /\ Closes("not published", db)
                  \/ UNCHANGED final /\ Closes("published", db)
             ELSE UNCHANGED final /\ Closes("published", "unknown")
    BY <1>3 DEF SettleCommit
  <2>3. CASE final # "ours"
    <3>1. PICK db \in {"rolled back", "unknown"} :
             UNCHANGED final /\ Closes("not published", db)
      BY <2>2, <2>3 DEF Published
    <3> QED BY <2>1, <2>6, <2>3, <3>1, SaidIsTyped, ClosingFits DEF Closes
  <2>4. CASE final = "ours" /\ toolPc = "refused"
    <3>1. PICK pub \in {"not published", "published"}, db \in {"rolled back", "unknown"} :
             /\ final' = (IF pub = "published" THEN "ours" ELSE "none") /\ Closes(pub, db)
      BY <2>2, <2>4 DEF Published
    <3> QED BY <2>1, <2>6, <2>4, <3>1, SaidIsTyped, ClosingFits DEF Closes
  <2>5. CASE final = "ours" /\ toolPc = "lost"
    <3>1. UNCHANGED final /\ Closes("published", "unknown")
      BY <2>2, <2>5 DEF Published, DiscardsBackup
    <3> QED BY <2>1, <2>6, <2>5, <3>1, SaidIsTyped, ClosingFits DEF Closes
  <2> QED BY <2>1, <2>3, <2>4, <2>5
<1>4. CASE KillTool
  BY <1>4, SaidIsTyped, ClosingFits DEF KillTool, SayNothing
<1>5. CASE EndRollback
  <2>1. PICK db \in {"committed", "partial", "refused"} :
           /\ Closes("none", db)
           /\ outcome' = (IF db = "refused" THEN "aborted" ELSE "committed")
    BY <1>5 DEF EndRollback
  <2> QED BY <2>1, SaidIsTyped, ClosingFits DEF Closes
<1> QED BY <1>1, <1>2, <1>3, <1>4, <1>5

LEMMA ReportStays ==
    ASSUME ReportInv,
           \/ SwapTemp \/ UNCHANGED noneVars
           \/ \E v \in VectorRows : RollRowBack(v) \/ OtherWrites(v)
    PROVE  ReportInv'
<1>1. UNCHANGED <<toolPc, counted, covered, final, outcome, report>>
  BY DEF SwapTemp, noneVars, RollRowBack, OtherWrites
<1> QED BY <1>1 DEF ReportInv, ReportTyped, PublicationFits, RepairIsCovered, ReportIsTrue, Silent

LEMMA ReportPreserved ==
    ASSUME ReportInv, [NoneNext]_noneVars
    PROVE  ReportInv'
BY ReportGoesOn, ReportPublishes, ReportCloses, ReportStays DEF NoneNext

-----------------------------------------------------------------------------
(* The table and the transaction.                                          *)

LEMMA RowsBegin ==
    ASSUME RowsInv, StartRepair \/ CountLegacy \/ StartRollback
    PROVE  RowsInv'
BY NoneOwnerAssumption, LegacyCount DEF RowsInv, NoneTyped, HoldsItsMarks, StartRepair, NonePhases,
   CountLegacy, Fails, StartRollback

LEMMA RowsAreTaken ==
    ASSUME RowsInv, TakeOwnersOff
    PROVE  RowsInv'
<1>1. CASE toolPc' = "settle" /\ UNCHANGED <<vrow, held, was>>
  BY <1>1 DEF TakeOwnersOff, RowsInv, NoneTyped, HoldsItsMarks, NonePhases
<1>2. CASE /\ vrow' = [v \in VectorRows |->
                        IF v \in LegacyRows
                        THEN [vrow[v] EXCEPT !.owner = "unowned", !.xmin = toolRuns]
                        ELSE vrow[v]]
           /\ held' = LegacyRows /\ was' = vrow
           /\ toolPc' = (IF Cardinality(LegacyRows) # counted THEN "settle"
                         ELSE IF covered /\ LegacyRows # {} THEN "open" ELSE "commit")
  <2>1. ASSUME NEW v \in LegacyRows
        PROVE  [vrow[v] EXCEPT !.owner = "unowned", !.xmin = toolRuns] \in FitRows
    <3>1. vrow[v] \in RowStates /\ vrow[v].key = "null"
      BY DEF RowsInv, NoneTyped, LegacyRows, IsLegacy, FitRows
    <3>2. toolRuns \in 1..MaxToolRuns
      <4>1. toolPc = "take"
        BY DEF TakeOwnersOff
      <4> QED BY <4>1, NoneOwnerAssumption DEF RowsInv, NoneTyped, HoldsItsMarks
    <3>3. toolRuns \in -1..MaxToolRuns /\ toolRuns > 0
      BY <3>2, NoneOwnerAssumption
    <3> QED BY <3>1, <3>3 DEF FitRows, RowStates, Owners, OldWriter, OtherWriter
  <2>2. vrow' \in [VectorRows -> FitRows]
    BY <1>2, <2>1 DEF RowsInv, NoneTyped
  <2>3. \A v \in held' : vrow'[v].xmin = toolRuns
    BY <1>2, LegacyCount DEF RowsInv, NoneTyped, FitRows, RowStates
  <2>4. toolPc' \in {"settle", "open", "commit"} /\ toolPc = "take"
    BY <1>2 DEF TakeOwnersOff
  <2>5. NoneTyped'
    BY <1>2, <2>2, <2>4 DEF TakeOwnersOff, RowsInv, NoneTyped, NonePhases
  <2>6. HoldsItsMarks'
    BY <1>2, <2>3, <2>4, LegacyCount DEF TakeOwnersOff, RowsInv, HoldsItsMarks
  <2> QED BY <2>5, <2>6 DEF RowsInv
<1> QED BY <1>1, <1>2 DEF TakeOwnersOff, Fails

LEMMA RowsPublish ==
    ASSUME RowsInv, WriteTemp \/ LinkFinal \/ ConfirmFinal \/ CleanTemp
    PROVE  RowsInv'
BY NoneOwnerAssumption DEF RowsInv, NoneTyped, HoldsItsMarks, NonePhases, Fails, RemovesOwn,
   WriteTemp, LinkFinal, ConfirmFinal, CleanTemp

\* The end of a transaction lets go of everything.
LEMMA RowsClose ==
    ASSUME RowsInv, CommitRepair \/ Settle1 \/ SettleCommit \/ KillTool \/ EndRollback
    PROVE  RowsInv'
<1>1. /\ vrow' \in [VectorRows -> FitRows] /\ was' \in [VectorRows -> FitRows] /\ held' = {}
  BY UndoFits, KeepFits DEF CommitRepair, Settle1, SettleCommit, KillTool, EndRollback, RowsInv, NoneTyped,
                            HoldsItsMarks
<1>2. /\ toolPc' \in {"idle", "refused", "lost"} /\ toolPc # "idle"
      /\ outcome' \in {"none", "open", "committed", "aborted"}
      /\ final' \in {"none", "ours", "other"}
  BY DEF CommitRepair, Settle1, SettleCommit, KillTool, EndRollback, RowsInv, NoneTyped, Closes
<1>3. UNCHANGED <<toolRuns, counted, temp, fileRows, fileRun>>
  BY DEF CommitRepair, Settle1, SettleCommit, KillTool, EndRollback
<1> QED BY <1>1, <1>2, <1>3 DEF RowsInv, NoneTyped, HoldsItsMarks, NonePhases

LEMMA RowsRollBack ==
    ASSUME RowsInv, NEW v \in VectorRows, RollRowBack(v)
    PROVE  RowsInv'
<1>1. vrow[v].xmin > OldWriter /\ vrow[v] \in FitRows
  BY NoneOwnerAssumption DEF RollRowBack, IsOfRepair, RowsInv, NoneTyped, HoldsItsMarks, OldWriter
<1>2. toolRuns \in -1..MaxToolRuns /\ toolRuns > 0 /\ toolRuns # OtherWriter
  BY NoneOwnerAssumption DEF RollRowBack, RowsInv, NoneTyped, HoldsItsMarks, OtherWriter
<1>3. [vrow[v] EXCEPT !.owner = "None", !.xmin = toolRuns] \in FitRows
  BY <1>1, <1>2 DEF FitRows, RowStates, Owners, OldWriter
<1>4. vrow' = [vrow EXCEPT ![v] = [vrow[v] EXCEPT !.owner = "None", !.xmin = toolRuns]]
  BY DEF RollRowBack, RowsInv, NoneTyped
<1>5. vrow' \in [VectorRows -> FitRows] /\ was' \in [VectorRows -> FitRows]
  BY <1>3, <1>4, <1>1 DEF RowsInv, NoneTyped, RollRowBack
<1>6. NoneTyped'
  BY <1>5 DEF RollRowBack, RowsInv, NoneTyped
<1>7. \A u \in held' : vrow'[u].xmin = toolRuns
  BY <1>1, <1>4 DEF RowsInv, NoneTyped, FitRows, RowStates, RollRowBack, HoldsItsMarks
<1> QED BY <1>6, <1>7 DEF RollRowBack, RowsInv, HoldsItsMarks

LEMMA RowsOfOthers ==
    ASSUME RowsInv, NEW v \in VectorRows, OtherWrites(v)
    PROVE  RowsInv'
BY NoneOwnerAssumption DEF OtherWrites, RowsInv, NoneTyped, FitRows, RowStates, OtherWriter, Owners,
   OldWriter, HoldsItsMarks

LEMMA RowsPreserved ==
    ASSUME RowsInv, [NoneNext]_noneVars
    PROVE  RowsInv'
<1>1. CASE SwapTemp \/ UNCHANGED noneVars
  BY <1>1 DEF SwapTemp, noneVars, RowsInv, NoneTyped, HoldsItsMarks
<1> QED BY <1>1, RowsBegin, RowsAreTaken, RowsPublish, RowsClose, RowsRollBack, RowsOfOthers DEF NoneNext

KeepsOthers ==
    \A v \in VectorRows : vrow[v].xmin = OtherWriter => vrow'[v].xmin = OtherWriter

LEMMA NoneKeepsOthers == NoneInv /\ [NoneNext]_noneVars => KeepsOthers
<1> SUFFICES ASSUME RowsInv, [NoneNext]_noneVars
             PROVE  KeepsOthers
  BY DEF NoneInv
<1>1. CASE TakeOwnersOff
  BY <1>1 DEF RowsInv, NoneTyped, FitRows, LegacyRows, IsLegacy, TakeOwnersOff, KeepsOthers
<1>2. CASE CommitRepair \/ Settle1 \/ KillTool \/ EndRollback
  BY <1>2, UndoFits, KeepFits DEF CommitRepair, Settle1, KillTool, EndRollback, KeepsOthers
<1>3. ASSUME NEW v \in VectorRows, RollRowBack(v)
      PROVE  KeepsOthers
  BY <1>3, NoneOwnerAssumption DEF RollRowBack, IsOfRepair, RowsInv, HoldsItsMarks, OtherWriter,
     KeepsOthers, NoneTyped
<1>4. ASSUME NEW v \in VectorRows, OtherWrites(v)
      PROVE  KeepsOthers
  BY <1>4 DEF OtherWrites, KeepsOthers, RowsInv, NoneTyped
<1>5. CASE \/ StartRepair \/ CountLegacy \/ WriteTemp \/ LinkFinal \/ ConfirmFinal \/ CleanTemp
           \/ SettleCommit \/ StartRollback \/ SwapTemp \/ UNCHANGED noneVars
  BY <1>5 DEF StartRepair, CountLegacy, WriteTemp, LinkFinal, ConfirmFinal, CleanTemp, SettleCommit,
              StartRollback, SwapTemp, noneVars, KeepsOthers
<1> QED BY <1>1, <1>2, <1>3, <1>4, <1>5 DEF NoneNext

LEMMA NoneInvGives == NoneInv => NoneTypeOK /\ NoneRepairIsSafe
BY DEF NoneInv, RowsInv, NoneTyped, HoldsItsMarks, NoneTypeOK, NonePhases, FitRows, ToolMarksLegacy,
   ReportInv, NoneRepairIsSafe

LEMMA NoneInvHolds == NoneSpec => []NoneInv
<1>1. NoneInit => NoneInv
  BY NoneStarts
<1>2. NoneInv /\ [NoneNext]_noneVars => NoneInv'
  BY RowsPreserved, ReportPreserved DEF NoneInv
<1> QED BY <1>1, <1>2, PTL DEF NoneSpec

\* The repair of the owner 'None' keeps its types.
THEOREM NoneTypeCorrect == NoneSpec => []NoneTypeOK
BY NoneInvHolds, NoneInvGives, PTL

\* A committed repair has its backup, its report is true, and its mark stands on
\* former legacy rows only (repair_pgvector_legacy_none_owner.py).
THEOREM NoneRepairStaysSafe == NoneSpec => []NoneRepairIsSafe
BY NoneInvHolds, NoneInvGives, PTL

\* What another writer has written is never undone.
THEOREM OthersStay == NoneSpec => OthersAreKept
<1>1. NoneInv /\ [NoneNext]_noneVars => [KeepsOthers]_noneVars
  BY NoneKeepsOthers
<1>2. OthersAreKept <=> [][KeepsOthers]_noneVars
  BY PTL DEF OthersAreKept, KeepsOthers
<1> QED BY <1>1, <1>2, NoneInvHolds, PTL DEF NoneSpec
-----------------------------------------------------------------------------
(* The repair of mismatched ids: any ids, services, kills and runs.        *)

KindsOf(i) == Parts \cup (IF i \in P4Ids \cup HeldIds THEN {"edge"} ELSE {})
SnapshotsOf(i) == [KindsOf(i) -> Values]
Verdicts == {"none", "done", "conflict", "error"}

MisTyped ==
    /\ part \in [MisIds -> [Parts -> Values]] /\ misEdge \in Values
    /\ serviceWrites \in Nat
    /\ runDir \in {"new", "torn", "published"} /\ cand \subseteq MisIds
    /\ repairPc \in {"off", "dry", "select", "approve", "guard", "look", "write", "after"}
    /\ todo \in Seq(cand \ HeldIds)
    /\ repairPc \in {"off", "dry", "select", "approve"} => todo = <<>>
    /\ repairPc \in {"look", "write", "after"} => todo # <<>>
    /\ verdict \in [MisIds -> Verdicts]

\* What was recorded of a candidate.
RecordsFit == \A i \in cand : recorded[i] \in SnapshotsOf(i)

\* The legs of an id before this one were seen at their targets; since then only
\* a service can have written there.
EarlierLegsHold(i, n) ==
    \A m \in 1 .. (n - 1) : Snapshot(i)[LegsOf(i)[m]] \in {TargetOf(i), "else"}

\* The look before a write, and the write before the look after it.
LookFits ==
    /\ repairPc = "write" =>
         LET i == Head(todo)
         IN  /\ looked \in SnapshotsOf(i) /\ ~AtTargets(i, looked)
             /\ \A k \in KindsOf(i) : \/ looked[k] = recorded[i][k]
                                      \/ IsTarget(i, k) /\ looked[k] = TargetOf(i)
             /\ EarlierLegsHold(i, NextLeg(i, looked))
    /\ repairPc = "after" =>
         \E n \in DOMAIN LegsOf(Head(todo)) :
            looked = [part |-> LegsOf(Head(todo))[n]] /\ EarlierLegsHold(Head(todo), n)

MisInv == MisTyped /\ RecordsFit /\ LookFits /\ HeldIsUntouched

LEMMA LegFacts ==
    ASSUME NEW i \in MisIds
    PROVE  /\ DOMAIN LegsOf(i) = 1 .. Len(LegsOf(i)) /\ Len(LegsOf(i)) \in {1, 3}
           /\ \A n \in DOMAIN LegsOf(i) : LegsOf(i)[n] \in KindsOf(i) /\ IsTarget(i, LegsOf(i)[n])
           /\ \A m, n \in DOMAIN LegsOf(i) : LegsOf(i)[m] = LegsOf(i)[n] => m = n
           /\ TargetOf(i) \in {"goal", "absent"}
           /\ i \in P4Ids \cup HeldIds => TargetOf(i) = "absent"
           /\ \A k \in KindsOf(i) : k \in Parts \/ k = "edge"
<1>1. /\ i \in P1Ids => i \notin P4Ids \cup HeldIds
      /\ i \in P2Ids => i \notin P1Ids /\ i \notin P4Ids \cup HeldIds
      /\ i \in P4Ids \cup HeldIds => i \notin P1Ids \cup P2Ids
  BY MismatchAssumption
<1>2. \A k \in KindsOf(i) : k \in Parts \/ k = "edge"
  BY DEF KindsOf
<1>3. Parts \subseteq KindsOf(i) /\ (i \in P4Ids \cup HeldIds => "edge" \in KindsOf(i))
  BY DEF KindsOf
<1>4. /\ TargetOf(i) \in {"goal", "absent"}
      /\ i \in P4Ids \cup HeldIds => TargetOf(i) = "absent"
  BY <1>1 DEF TargetOf
<1>5. \A n \in DOMAIN LegsOf(i) : IsTarget(i, LegsOf(i)[n])
  BY DEF IsTarget
<1>6. CASE i \in P1Ids
  BY <1>6, <1>3, <1>2, <1>4, <1>5 DEF LegsOf, Parts
<1>7. CASE i \notin P1Ids
  BY <1>1, <1>3, <1>7, <1>2, <1>4, <1>5 DEF LegsOf, MisIds, Parts
<1> QED BY <1>6, <1>7

LEMMA SnapshotFacts ==
    ASSUME MisTyped, NEW i \in MisIds
    PROVE  /\ Snapshot(i) \in SnapshotsOf(i) /\ DOMAIN Snapshot(i) = KindsOf(i)
           /\ \A k \in KindsOf(i) : Snapshot(i)[k] = IF k = "edge" THEN misEdge ELSE part[i][k]
BY DEF Snapshot, KindsOf, MisTyped, SnapshotsOf

LEMMA NextLegFacts ==
    ASSUME NEW i \in MisIds, NEW snap, ~AtTargets(i, snap)
    PROVE  /\ NextLeg(i, snap) \in DOMAIN LegsOf(i)
           /\ snap[LegsOf(i)[NextLeg(i, snap)]] # TargetOf(i)
           /\ \A m \in 1 .. (NextLeg(i, snap) - 1) : snap[LegsOf(i)[m]] = TargetOf(i)
<1> DEFINE Open(n) == snap[LegsOf(i)[n]] # TargetOf(i)
           First(n) == Open(n) /\ \A m \in 1 .. (n - 1) : ~Open(m)
<1>1. DOMAIN LegsOf(i) = 1 .. Len(LegsOf(i)) /\ Len(LegsOf(i)) \in {1, 3}
  BY LegFacts
<1>2. \E n \in DOMAIN LegsOf(i) : Open(n)
  BY DEF AtTargets
<1>3. \E n \in DOMAIN LegsOf(i) : First(n)
  <2>1. CASE Open(1)
    BY <1>1, <2>1
  <2>2. CASE ~Open(1) /\ Len(LegsOf(i)) = 3 /\ Open(2)
    <3>1. 2 \in DOMAIN LegsOf(i) /\ 1 .. (2 - 1) = {1}
      BY <1>1, <2>2
    <3> HIDE DEF Open
    <3> QED BY <2>2, <3>1
  <2>3. CASE ~Open(1) /\ Len(LegsOf(i)) = 3 /\ ~Open(2)
    <3>1. 3 \in DOMAIN LegsOf(i) /\ 1 .. (3 - 1) = {1, 2}
      BY <1>1, <2>3
    <3>2. Open(3)
      BY <1>1, <1>2, <2>3
    <3> HIDE DEF Open
    <3> QED BY <2>3, <3>1, <3>2
  <2>4. CASE ~Open(1) /\ Len(LegsOf(i)) = 1
    BY <1>1, <1>2, <2>4
  <2> QED BY <1>1, <2>1, <2>2, <2>3, <2>4
<1>4. NextLeg(i, snap) = CHOOSE n \in DOMAIN LegsOf(i) : First(n)
  BY DEF NextLeg
<1> HIDE DEF First
<1>5. NextLeg(i, snap) \in DOMAIN LegsOf(i) /\ First(NextLeg(i, snap))
  BY <1>3, <1>4
<1> QED BY <1>5 DEF First

LEMMA ListedOnce ==
    ASSUME NEW S, IsFiniteSet(S)
    PROVE  SetToSeq(S) \in Seq(S)
BY FS_CardinalityType DEF ExistsBijection, Bijection, Injection, SetToSeq

\* What neither the ids, nor their records, nor the run's reads depend on.
LEMMA ReadsStay ==
    ASSUME MisInv, UNCHANGED <<part, misEdge, cand, recorded>>
    PROVE  /\ RecordsFit' /\ HeldIsUntouched'
           /\ \A i \in MisIds : Snapshot(i)' = Snapshot(i)
           /\ repairPc' \notin {"write", "after"} => LookFits'
           /\ UNCHANGED <<repairPc, looked, todo>> => LookFits'
BY DEF Snapshot, MisInv, RecordsFit, HeldIsUntouched, LookFits, EarlierLegsHold

LEMMA MisStarts ==
    ASSUME MisInit
    PROVE  MisInv
BY DEF MisInit, MisInitial, Values, MisTyped, Verdicts, RecordsFit, LookFits, HeldIsUntouched,
   MisIds, MisInv

LEMMA RunSteps ==
    ASSUME MisInv, StartApply \/ StartDryRun \/ CheckGuard \/ KillRepair
    PROVE  MisInv'
<1>1. /\ UNCHANGED <<part, misEdge, cand, recorded, serviceWrites>>
      /\ repairPc' \in {"off", "dry", "select", "approve", "guard", "look"}
      /\ runDir' \in {"new", "torn", "published"} /\ verdict' \in [MisIds -> Verdicts]
  BY DEF StartApply, StartDryRun, CheckGuard, KillRepair, Verdicts, MisInv, MisTyped
<1>2. /\ todo' \in Seq(cand \ HeldIds)
      /\ repairPc' \in {"off", "dry", "select", "approve"} => todo' = <<>>
      /\ repairPc' = "look" => todo' # <<>>
  <2>1. CASE StartApply \/ StartDryRun
    BY <2>1 DEF StartApply, StartDryRun, MisInv, MisTyped
  <2>2. CASE CheckGuard
    <3>1. todo \in Seq(cand \ HeldIds)
      BY DEF MisInv, MisTyped
    <3>2. \/ todo # <<>> /\ repairPc' = "look" /\ todo' = todo
          \/ repairPc' = "off" /\ todo' = <<>>
      BY <2>2 DEF CheckGuard
    <3>3. <<>> \in Seq(cand \ HeldIds)
      OBVIOUS
    <3>4. CASE repairPc' = "off" /\ todo' = <<>>
      BY <3>3, <3>4
    <3>5. CASE todo # <<>> /\ repairPc' = "look" /\ todo' = todo
      BY <3>1, <3>5
    <3> QED BY <3>2, <3>4, <3>5
  <2>3. CASE KillRepair
    BY <2>3 DEF KillRepair, MisInv, MisTyped
  <2> QED BY <2>1, <2>2, <2>3
<1>3. MisTyped'
  BY <1>1, <1>2 DEF MisInv, MisTyped
<1> QED BY <1>1, <1>3, ReadsStay DEF MisInv

LEMMA AloneSteps ==
    ASSUME MisInv, ServiceStarts \/ ServiceStops \/ InputChanges
    PROVE  MisInv'
BY ReadsStay DEF ServiceStarts, ServiceStops, InputChanges, MisInv, MisTyped

LEMMA SelectStep ==
    ASSUME MisInv, SelectIds
    PROVE  MisInv'
BY SnapshotFacts DEF SelectIds, MisInv, MisTyped, StillSelected, MisIds, RecordsFit, LookFits,
   HeldIsUntouched

LEMMA ApprovalStep ==
    ASSUME MisInv, ReadApproval
    PROVE  MisInv'
<1>1. /\ UNCHANGED <<part, misEdge, serviceWrites, runDir, cand, recorded, verdict>>
      /\ repairPc' \in {"off", "guard"} /\ todo = <<>>
  BY DEF ReadApproval, MisInv, MisTyped
<1>2. todo' \in Seq(cand \ HeldIds) /\ (repairPc' = "off" => todo' = <<>>)
  <2>1. PICK approved \in SUBSET (P4Ids \cup HeldIds) :
           IF approved \subseteq Approvable
           THEN /\ todo' = SetToSeq(cand \cap P1Ids) \o SetToSeq(cand \cap P2Ids) \o SetToSeq(approved)
                /\ repairPc' = "guard"
           ELSE repairPc' = "off" /\ UNCHANGED todo
    BY DEF ReadApproval
  <2>2. CASE approved \subseteq Approvable
    <3> DEFINE wanted == cand \ HeldIds
    <3>1. /\ cand \cap P1Ids \subseteq wanted /\ cand \cap P2Ids \subseteq wanted /\ approved \subseteq wanted
          /\ wanted \subseteq MisIds
      BY <2>2, MismatchAssumption DEF Approvable, MisInv, MisTyped
    <3>2. IsFiniteSet(cand \cap P1Ids) /\ IsFiniteSet(cand \cap P2Ids) /\ IsFiniteSet(approved)
      BY <3>1, MismatchAssumption, FS_Subset
    <3>3. /\ SetToSeq(cand \cap P1Ids) \in Seq(cand \cap P1Ids)
          /\ SetToSeq(cand \cap P2Ids) \in Seq(cand \cap P2Ids)
          /\ SetToSeq(approved) \in Seq(approved)
      BY <3>2, ListedOnce
    <3> HIDE DEF wanted
    <3>4. /\ SetToSeq(cand \cap P1Ids) \in Seq(wanted) /\ SetToSeq(cand \cap P2Ids) \in Seq(wanted)
          /\ SetToSeq(approved) \in Seq(wanted)
      BY <3>1, <3>3
    <3>5. \A s, t \in Seq(wanted) : s \o t \in Seq(wanted)
      OBVIOUS
    <3>6. SetToSeq(cand \cap P1Ids) \o SetToSeq(cand \cap P2Ids) \o SetToSeq(approved) \in Seq(wanted)
      BY ONLY <3>4, <3>5
    <3>7. todo' \in Seq(wanted) /\ repairPc' = "guard"
      BY <2>1, <2>2, <3>6
    <3> QED BY <3>7 DEF wanted
  <2>3. CASE ~(approved \subseteq Approvable)
    BY <1>1, <2>1, <2>3 DEF MisInv, MisTyped
  <2> QED BY <2>2, <2>3
<1>3. MisTyped'
  BY <1>1, <1>2 DEF MisInv, MisTyped
<1> QED BY <1>1, <1>3, ReadsStay DEF MisInv

\* The candidate that the run is at.
LEMMA HeadFacts ==
    ASSUME MisInv, todo # <<>>
    PROVE  /\ Head(todo) \in cand \ HeldIds /\ Head(todo) \in MisIds
           /\ Tail(todo) \in Seq(cand \ HeldIds)
           /\ recorded[Head(todo)] \in SnapshotsOf(Head(todo))
BY DEF MisInv, MisTyped, RecordsFit

LEMMA EndsStep ==
    ASSUME MisInv, todo # <<>>, NEW how \in Verdicts, Ends(Head(todo), how),
           UNCHANGED <<part, misEdge, cand, recorded, serviceWrites, runDir>>
    PROVE  MisInv'
BY HeadFacts, ReadsStay DEF Ends, MisInv, MisTyped

\* A look that finds something to write has checked every component.
LEMMA LookStep ==
    ASSUME MisInv, Look
    PROVE  MisInv'
<1>1. /\ UNCHANGED <<part, misEdge, cand, recorded, serviceWrites, runDir>>
      /\ repairPc = "look" /\ todo # <<>>
  BY DEF Look, MisInv, MisTyped
<1> DEFINE snap == Snapshot(Head(todo))
           leg == IF AtTargets(Head(todo), snap) THEN LegsOf(Head(todo))[1]
                  ELSE LegsOf(Head(todo))[NextLeg(Head(todo), snap)]
<1>2. \/ Ends(Head(todo), "conflict") \/ Ends(Head(todo), "done")
      \/ /\ ChecksAll(Head(todo), snap, leg) /\ ~AtTargets(Head(todo), snap)
         /\ looked' = snap /\ repairPc' = "write" /\ UNCHANGED <<verdict, todo>>
  BY Zenon DEF Look
<1>3. CASE Ends(Head(todo), "conflict") \/ Ends(Head(todo), "done")
  BY <1>1, <1>3, EndsStep DEF Verdicts
<1>4. CASE /\ ChecksAll(Head(todo), snap, leg) /\ ~AtTargets(Head(todo), snap)
           /\ looked' = snap /\ repairPc' = "write" /\ UNCHANGED <<verdict, todo>>
  BY <1>1, HeadFacts, <1>4, SnapshotFacts, ReadsStay, NextLegFacts DEF MisInv, ChecksAll,
     EarlierLegsHold, LookFits, AtTargets, MisTyped
<1> QED BY <1>2, <1>3, <1>4

\* What a write does: its leg of its id reaches the target, or nothing happens.
LEMMA WriteFacts ==
    ASSUME MisInv, repairPc = "write", NEW i, i = Head(todo), NEW n, n = NextLeg(i, looked),
           IF ~TakesEffect(i, LegsOf(i)[n]) THEN UNCHANGED <<part, misEdge>>
           ELSE IF LegsOf(i)[n] = "edge" THEN misEdge' = "absent" /\ UNCHANGED part
           ELSE part' = [part EXCEPT ![i][LegsOf(i)[n]] = TargetOf(i)] /\ UNCHANGED misEdge
    PROVE  /\ i \in cand \ HeldIds /\ i \in MisIds /\ n \in DOMAIN LegsOf(i)
           /\ part' \in [MisIds -> [Parts -> Values]] /\ misEdge' \in Values
           /\ \A j \in MisIds, k \in Parts :
                 part'[j][k] # part[j][k] => /\ j = i /\ k = LegsOf(i)[n] /\ TakesEffect(i, k)
                                             /\ part'[j][k] = TargetOf(i)
           /\ \A k \in KindsOf(i) : k # LegsOf(i)[n] => Snapshot(i)'[k] = Snapshot(i)[k]
<1>1. i \in cand \ HeldIds /\ i \in MisIds /\ ~AtTargets(i, looked)
  BY HeadFacts DEF MisInv, MisTyped, LookFits
<1>2. n \in DOMAIN LegsOf(i) /\ LegsOf(i)[n] \in KindsOf(i)
  BY <1>1, NextLegFacts, LegFacts
<1> DEFINE leg == LegsOf(i)[n]
<1>3. leg \in Parts \/ leg = "edge"
  BY <1>1, <1>2, LegFacts
<1>4. "edge" \notin Parts /\ TargetOf(i) \in Values /\ "absent" \in Values
  BY <1>1, LegFacts DEF Parts, Values
<1>5. part \in [MisIds -> [Parts -> Values]] /\ misEdge \in Values
  BY DEF MisInv, MisTyped
<1> HIDE DEF leg
<1>6. \/ UNCHANGED <<part, misEdge>>
      \/ leg = "edge" /\ misEdge' = "absent" /\ UNCHANGED part
      \/ /\ leg \in Parts /\ TakesEffect(i, leg)
         /\ part' = [part EXCEPT ![i][leg] = TargetOf(i)] /\ UNCHANGED misEdge
  BY <1>3, Zenon DEF leg
<1>7. /\ part' \in [MisIds -> [Parts -> Values]] /\ misEdge' \in Values
      /\ \A j \in MisIds, k \in Parts :
            part'[j][k] # part[j][k] => /\ j = i /\ k = leg /\ TakesEffect(i, k)
                                        /\ part'[j][k] = TargetOf(i)
      /\ misEdge' # misEdge => leg = "edge"
  BY <1>4, <1>5, <1>1, <1>6
<1>8. ASSUME NEW k \in KindsOf(i), k # leg
      PROVE  Snapshot(i)'[k] = Snapshot(i)[k]
  BY <1>1, LegFacts, <1>7, <1>8 DEF Snapshot, KindsOf
<1> QED BY <1>1, <1>2, <1>7, <1>8 DEF leg

LEMMA WriteStep ==
    ASSUME MisInv, WriteLeg
    PROVE  MisInv'
<1>1. PICK i : i = Head(todo)
  OBVIOUS
<1>2. PICK n : n = NextLeg(i, looked)
  OBVIOUS
<1>3. /\ UNCHANGED <<cand, recorded, serviceWrites, runDir>> /\ repairPc = "write" /\ todo # <<>>
  BY DEF WriteLeg, MisInv, MisTyped
<1>4. \/ Ends(i, "error") /\ UNCHANGED <<part, misEdge>>
      \/ /\ IF ~TakesEffect(i, LegsOf(i)[n]) THEN UNCHANGED <<part, misEdge>>
            ELSE IF LegsOf(i)[n] = "edge" THEN misEdge' = "absent" /\ UNCHANGED part
            ELSE part' = [part EXCEPT ![i][LegsOf(i)[n]] = TargetOf(i)] /\ UNCHANGED misEdge
         /\ repairPc' = "after" /\ looked' = [part |-> LegsOf(i)[n]] /\ UNCHANGED <<verdict, todo>>
  BY <1>1, <1>2 DEF WriteLeg
<1>5. CASE Ends(i, "error") /\ UNCHANGED <<part, misEdge>>
  BY <1>1, <1>3, <1>5, EndsStep DEF Verdicts
<1>6. CASE /\ IF ~TakesEffect(i, LegsOf(i)[n]) THEN UNCHANGED <<part, misEdge>>
              ELSE IF LegsOf(i)[n] = "edge" THEN misEdge' = "absent" /\ UNCHANGED part
              ELSE part' = [part EXCEPT ![i][LegsOf(i)[n]] = TargetOf(i)] /\ UNCHANGED misEdge
           /\ repairPc' = "after" /\ looked' = [part |-> LegsOf(i)[n]] /\ UNCHANGED <<verdict, todo>>
  <2>1. /\ i \in cand \ HeldIds /\ i \in MisIds /\ n \in DOMAIN LegsOf(i)
        /\ part' \in [MisIds -> [Parts -> Values]] /\ misEdge' \in Values
        /\ \A j \in MisIds, k \in Parts : part'[j][k] # part[j][k] => j = i
        /\ \A k \in KindsOf(i) : k # LegsOf(i)[n] => Snapshot(i)'[k] = Snapshot(i)[k]
    BY <1>1, <1>2, <1>3, <1>6, WriteFacts
  <2>2. MisTyped'
    BY <1>3, <1>6, <2>1 DEF MisInv, MisTyped
  <2>3. RecordsFit'
    BY <1>3 DEF MisInv, RecordsFit
  <2>4. HeldIsUntouched'
    BY <2>1 DEF MisInv, HeldIsUntouched, MisIds
  <2>5. EarlierLegsHold(i, n)
    BY <1>1, <1>2, <1>3 DEF MisInv, LookFits
  <2>6. EarlierLegsHold(i, n)'
    BY <2>1, LegFacts, <2>5 DEF EarlierLegsHold
  <2>7. LookFits'
    BY <1>1, <1>6, <2>1, <2>6 DEF LookFits
  <2> QED BY <2>2, <2>3, <2>4, <2>7 DEF MisInv
<1> QED BY <1>4, <1>5, <1>6

LEMMA LookAfterStep ==
    ASSUME MisInv, LookAfter
    PROVE  MisInv'
BY EndsStep, ReadsStay DEF LookAfter, MisInv, MisTyped, Verdicts

\* A service leaves nothing that was there before.
LEMMA ServiceStep ==
    ASSUME MisInv, ServiceWrites
    PROVE  MisInv'
<1>1. /\ serviceWrites' = serviceWrites + 1
      /\ UNCHANGED <<runDir, cand, recorded, repairPc, todo, looked, verdict>>
  BY DEF ServiceWrites
<1>2. /\ part' \in [MisIds -> [Parts -> Values]] /\ misEdge' \in Values
      /\ \A j \in MisIds, k \in Parts : part'[j][k] = part[j][k] \/ part'[j][k] = "else"
      /\ misEdge' = misEdge \/ misEdge' = "else"
  <2>1. CASE misEdge' = "else" /\ UNCHANGED part
    BY <2>1 DEF MisInv, MisTyped, Values
  <2>2. ASSUME NEW i \in MisIds, NEW k \in Parts, part' = [part EXCEPT ![i][k] = "else"],
               UNCHANGED misEdge
        PROVE  /\ part' \in [MisIds -> [Parts -> Values]] /\ misEdge' \in Values
               /\ \A j \in MisIds, m \in Parts : part'[j][m] = part[j][m] \/ part'[j][m] = "else"
    BY <2>2 DEF MisInv, MisTyped, Values
  <2> QED BY <2>1, <2>2 DEF ServiceWrites
<1>3. MisTyped'
  BY <1>1, <1>2 DEF MisInv, MisTyped
<1>4. RecordsFit'
  BY <1>1 DEF MisInv, RecordsFit
<1>5. HeldIsUntouched'
  BY <1>2 DEF MisInv, HeldIsUntouched, MisIds
<1>6. ASSUME NEW i \in MisIds, NEW k \in KindsOf(i)
      PROVE  Snapshot(i)'[k] = Snapshot(i)[k] \/ Snapshot(i)'[k] = "else"
  BY <1>2 DEF Snapshot, KindsOf
<1>7. ASSUME NEW i \in MisIds, NEW n \in DOMAIN LegsOf(i), EarlierLegsHold(i, n)
      PROVE  EarlierLegsHold(i, n)'
  BY LegFacts, <1>6, <1>7 DEF EarlierLegsHold
<1>8. LookFits'
  <2>1. repairPc \in {"write", "after"} => Head(todo) \in MisIds
    BY HeadFacts DEF MisInv, MisTyped
  <2>2. ASSUME repairPc = "write"
        PROVE  /\ looked \in SnapshotsOf(Head(todo)) /\ ~AtTargets(Head(todo), looked)
               /\ NextLeg(Head(todo), looked) \in DOMAIN LegsOf(Head(todo))
    BY <2>1, <2>2, NextLegFacts DEF MisInv, LookFits
  <2>3. repairPc = "write" => EarlierLegsHold(Head(todo), NextLeg(Head(todo), looked))'
    BY <2>1, <2>2, <1>7, <1>1 DEF MisInv, LookFits, NextLeg, EarlierLegsHold
  <2>4. repairPc = "after" => \E n \in DOMAIN LegsOf(Head(todo)) :
           looked = [part |-> LegsOf(Head(todo))[n]] /\ EarlierLegsHold(Head(todo), n)'
    BY <2>1, <1>7, <1>1 DEF MisInv, LookFits, EarlierLegsHold
  <2> QED BY <1>1, <2>2, <2>3, <2>4 DEF MisInv, LookFits, AtTargets
<1> QED BY <1>3, <1>4, <1>5, <1>8 DEF MisInv

LEMMA MisInvHolds == MisSpec => []MisInv
<1>1. MisInit => MisInv
  BY MisStarts
<1>2. MisInv /\ [MisNext]_misVars => MisInv'
  <2> SUFFICES ASSUME MisInv, [MisNext]_misVars
               PROVE  MisInv'
    OBVIOUS
  <2>1. CASE UNCHANGED misVars
    BY <2>1, ReadsStay DEF misVars, MisInv, MisTyped
  <2> QED BY <2>1, RunSteps, AloneSteps, SelectStep, ApprovalStep, LookStep, WriteStep, LookAfterStep,
             ServiceStep DEF MisNext
<1> QED BY <1>1, <1>2, PTL DEF MisSpec

MisBooleans == service \in BOOLEAN /\ inputSame \in BOOLEAN
LEMMA MisBooleansHold == MisSpec => []MisBooleans
<1>1. MisInit => MisBooleans
  BY DEF MisInit, MisBooleans
<1>2. MisBooleans /\ [MisNext]_misVars => MisBooleans'
  <2> SUFFICES ASSUME MisBooleans, [MisNext]_misVars
               PROVE  MisBooleans'
    OBVIOUS
  <2>1. StartApply \/ StartDryRun => MisBooleans'
    BY Zenon DEF MisBooleans, StartApply, StartDryRun
  <2>2. SelectIds => MisBooleans'
    BY Zenon DEF MisBooleans, SelectIds
  <2>3. ReadApproval => MisBooleans'
    BY Zenon DEF MisBooleans, ReadApproval
  <2>4. CheckGuard \/ KillRepair \/ InputChanges => MisBooleans'
    BY Zenon DEF MisBooleans, CheckGuard, KillRepair, InputChanges
  <2>5. Look => MisBooleans'
    BY Zenon DEF MisBooleans, Look
  <2>6. WriteLeg => MisBooleans'
    BY Zenon DEF MisBooleans, WriteLeg
  <2>7. LookAfter => MisBooleans'
    BY Zenon DEF MisBooleans, LookAfter
  <2>8. ServiceStarts \/ ServiceStops \/ ServiceWrites => MisBooleans'
    BY Zenon DEF MisBooleans, ServiceStarts, ServiceStops, ServiceWrites
  <2>9. UNCHANGED misVars => MisBooleans'
    BY Zenon DEF MisBooleans, misVars
  <2> QED BY <2>1, <2>2, <2>3, <2>4, <2>5, <2>6, <2>7, <2>8, <2>9, Zenon DEF MisNext
<1> QED BY <1>1, <1>2, PTL DEF MisSpec

LEMMA MisInvGives == MisInv /\ MisBooleans => MisTypeOK
BY DEF MisBooleans, MisInv, MisTyped, Verdicts, MisTypeOK

-----------------------------------------------------------------------------
(* What a step of the repair does.                                         *)

DoneRepairs ==
    \A i \in MisIds :
       verdict[i] # "done" /\ verdict'[i] = "done" =>
          \A k \in DOMAIN Snapshot(i) :
              \/ IsTarget(i, k) /\ Snapshot(i)[k] = TargetOf(i)
              \/ /\ Snapshot(i)[k] = recorded[i][k]
                 /\ ~IsTarget(i, k) \/ recorded[i][k] = "else"
UnseenOnly ==
    \A i \in MisIds, k \in Parts :
       part[i][k] = "else" /\ part'[i][k] # "else" =>
          /\ i \in cand
          /\ \/ recorded[i][k] = "else"
             \/ /\ looked[k] # "else"
                /\ k # "graph" /\ (k = "reg" => i \in P2Ids)

\* An id whose legs are all at their target needs nothing more.
LEMMA LookDone ==
    ASSUME MisInv, Look, Ends(Head(todo), "done"), verdict[Head(todo)] # "done"
    PROVE  \A k \in DOMAIN Snapshot(Head(todo)) :
              \/ IsTarget(Head(todo), k) /\ Snapshot(Head(todo))[k] = TargetOf(Head(todo))
              \/ Snapshot(Head(todo))[k] = recorded[Head(todo)][k] /\ ~IsTarget(Head(todo), k)
<1> DEFINE i == Head(todo)
           snap == Snapshot(i)
           leg == IF AtTargets(i, snap) THEN LegsOf(i)[1] ELSE LegsOf(i)[NextLeg(i, snap)]
<1>1. i \in MisIds
  BY HeadFacts DEF MisInv, MisTyped, Look
<1>2. verdict'[i] = "done"
  BY <1>1 DEF Ends, MisInv, MisTyped
<1>3. Ends(i, "conflict") => verdict'[i] = "conflict"
  BY <1>1 DEF Ends, MisInv, MisTyped
<1>4. ChecksAll(i, snap, leg) /\ AtTargets(i, snap)
  BY <1>2, <1>3 DEF Look
<1>5. \A k \in DOMAIN snap : IsTarget(i, k) => snap[k] = TargetOf(i)
  BY <1>4 DEF AtTargets, IsTarget
<1> QED BY <1>4, <1>5 DEF ChecksAll

\* After the last leg the earlier ones are at their target or a service's.
LEMMA AfterDone ==
    ASSUME MisInv, LookAfter, Ends(Head(todo), "done"), verdict[Head(todo)] # "done"
    PROVE  \A k \in DOMAIN Snapshot(Head(todo)) :
              \/ IsTarget(Head(todo), k) /\ Snapshot(Head(todo))[k] = TargetOf(Head(todo))
              \/ /\ Snapshot(Head(todo))[k] = recorded[Head(todo)][k]
                 /\ ~IsTarget(Head(todo), k) \/ recorded[Head(todo)][k] = "else"
<1> DEFINE i == Head(todo)
           snap == Snapshot(i)
<1>1. i \in MisIds /\ repairPc = "after"
  BY HeadFacts DEF MisInv, MisTyped, LookAfter
<1>2. verdict'[i] = "done" /\ (Ends(i, "error") => verdict'[i] = "error")
  BY <1>1 DEF Ends, MisInv, MisTyped
<1>3. /\ snap[looked.part] = TargetOf(i) /\ ChecksAll(i, snap, looked.part)
      /\ looked.part = LegsOf(i)[Len(LegsOf(i))]
  BY <1>2 DEF LookAfter
<1>4. PICK n \in DOMAIN LegsOf(i) : looked = [part |-> LegsOf(i)[n]] /\ EarlierLegsHold(i, n)
  BY <1>1 DEF MisInv, LookFits
<1>5. n = Len(LegsOf(i)) /\ DOMAIN LegsOf(i) = 1 .. n /\ n \in {1, 3}
  <2>1. looked.part = LegsOf(i)[n]
    BY <1>4
  <2>2. Len(LegsOf(i)) \in DOMAIN LegsOf(i)
    BY <1>1, LegFacts
  <2> QED BY <1>1, <1>3, <1>4, <2>1, <2>2, LegFacts
<1>6. ASSUME NEW k \in DOMAIN snap, IsTarget(i, k), snap[k] # TargetOf(i)
      PROVE  snap[k] = recorded[i][k] /\ recorded[i][k] = "else"
  BY <1>6, <1>3, <1>5, <1>4 DEF IsTarget, EarlierLegsHold, ChecksAll
<1> QED BY <1>3, <1>6 DEF ChecksAll

LEMMA MisDones == MisInv /\ [MisNext]_misVars => DoneRepairs
<1> SUFFICES ASSUME MisInv, [MisNext]_misVars,
                    NEW i \in MisIds, verdict[i] # "done", verdict'[i] = "done"
             PROVE  \A k \in DOMAIN Snapshot(i) :
                       \/ IsTarget(i, k) /\ Snapshot(i)[k] = TargetOf(i)
                       \/ /\ Snapshot(i)[k] = recorded[i][k]
                          /\ ~IsTarget(i, k) \/ recorded[i][k] = "else"
  BY DEF DoneRepairs
<1>1. ASSUME NEW how \in Verdicts, Ends(Head(todo), how)
      PROVE  Head(todo) = i /\ how = "done"
  BY <1>1 DEF Ends, MisInv, MisTyped
<1>2. \/ Look /\ Ends(Head(todo), "done")
      \/ LookAfter /\ Ends(Head(todo), "done")
  <2>1. CASE StartApply \/ StartDryRun
    BY <2>1 DEF StartApply, StartDryRun
  <2>2. CASE Look
    BY <2>2, <1>1 DEF Look, Verdicts
  <2>3. CASE LookAfter
    BY <2>3, <1>1 DEF LookAfter, Verdicts
  <2>4. CASE WriteLeg
    BY <2>4, <1>1 DEF WriteLeg, Verdicts
  <2>5. CASE SelectIds \/ ReadApproval \/ CheckGuard \/ KillRepair \/ UNCHANGED misVars
    BY <2>5 DEF SelectIds, ReadApproval, CheckGuard, KillRepair, misVars
  <2>6. CASE ServiceStarts \/ ServiceStops \/ ServiceWrites \/ InputChanges
    BY <2>6 DEF ServiceStarts, ServiceStops, ServiceWrites, InputChanges
  <2> QED BY <2>1, <2>2, <2>3, <2>4, <2>5, <2>6 DEF MisNext
<1>3. Head(todo) = i
  BY <1>1, <1>2 DEF Verdicts
<1> QED BY <1>2, <1>3, LookDone, AfterDone

LEMMA MisUnseen == MisInv /\ [MisNext]_misVars => UnseenOnly
<1> SUFFICES ASSUME MisInv, [MisNext]_misVars, NEW i \in MisIds, NEW k \in Parts,
                    part[i][k] = "else", part'[i][k] # "else"
             PROVE  /\ i \in cand
                    /\ \/ recorded[i][k] = "else"
                       \/ /\ looked[k] # "else"
                          /\ k # "graph" /\ (k = "reg" => i \in P2Ids)
  BY DEF UnseenOnly
<1>1. WriteLeg
  <2>1. CASE ServiceWrites
    BY <2>1 DEF ServiceWrites, MisInv, MisTyped
  <2>2. CASE StartApply \/ StartDryRun \/ SelectIds \/ ReadApproval \/ CheckGuard \/ KillRepair
    BY <2>2 DEF StartApply, StartDryRun, SelectIds, ReadApproval, CheckGuard, KillRepair
  <2>3. CASE Look \/ LookAfter
    BY <2>3 DEF Look, LookAfter
  <2>4. CASE ServiceStarts \/ ServiceStops \/ InputChanges \/ UNCHANGED misVars
    BY <2>4 DEF ServiceStarts, ServiceStops, InputChanges, misVars
  <2> QED BY <2>1, <2>2, <2>3, <2>4 DEF MisNext
<1>2. PICK h : h = Head(todo)
  OBVIOUS
<1>3. PICK n : n = NextLeg(h, looked)
  OBVIOUS
<1>4. /\ repairPc = "write" /\ StillFits(h, LegsOf(h)[n])
      /\ IF ~TakesEffect(h, LegsOf(h)[n]) THEN UNCHANGED <<part, misEdge>>
         ELSE IF LegsOf(h)[n] = "edge" THEN misEdge' = "absent" /\ UNCHANGED part
         ELSE part' = [part EXCEPT ![h][LegsOf(h)[n]] = TargetOf(h)] /\ UNCHANGED misEdge
  BY <1>1, <1>2, <1>3 DEF WriteLeg
<1>5. /\ i = h /\ k = LegsOf(h)[n] /\ TakesEffect(i, k) /\ i \in cand /\ n \in DOMAIN LegsOf(i)
  BY <1>2, <1>3, <1>4, WriteFacts
<1>6. k \in KindsOf(i) /\ TargetOf(i) # "else"
  BY <1>5, LegFacts
<1>7. looked[k] = recorded[i][k] \/ looked[k] = TargetOf(i)
  BY <1>2, <1>4, <1>5, <1>6 DEF MisInv, LookFits
<1>8. k = "graph" => recorded[i][k] = "else"
  BY <1>4, <1>5 DEF StillFits
<1>9. k = "reg" /\ i \notin P2Ids => recorded[i][k] = "else"
  BY <1>5 DEF TakesEffect
<1> QED BY <1>5, <1>6, <1>7, <1>8, <1>9

\* The repair keeps its types (repair_store_mismatch_499.py).
THEOREM MisTypeCorrect == MisSpec => []MisTypeOK
BY MisInvHolds, MisBooleansHold, MisInvGives, PTL

\* An id nobody approved is never written (repair_store_mismatch_499.py).
THEOREM HeldStay == MisSpec => []HeldIsUntouched
<1>1. MisInv => HeldIsUntouched
  BY DEF MisInv
<1> QED BY <1>1, MisInvHolds, PTL

\* Done means repaired, and what a service wrote is overwritten only unseen.
THEOREM MismatchesAreRepaired == MisSpec => DoneIsRepaired /\ OverwritesOnlyUnseen
<1>1. MisInv /\ [MisNext]_misVars => [DoneRepairs]_misVars /\ [UnseenOnly]_misVars
  BY MisDones, MisUnseen
<1>2. DoneIsRepaired <=> [][DoneRepairs]_misVars
  BY PTL DEF DoneIsRepaired, DoneRepairs
<1>3. OverwritesOnlyUnseen <=> [][UnseenOnly]_misVars
  BY PTL DEF OverwritesOnlyUnseen, UnseenOnly
<1> QED BY <1>1, <1>2, <1>3, MisInvHolds, PTL DEF MisSpec

\* Every set of positions has a least one.
LEMMA LeastPosition ==
    ASSUME NEW T, T \subseteq Nat, T # {}
    PROVE  \E x \in T : \A y \in T : ~(y < x)
<1> DEFINE R == OpToRel(<, Nat)
<1>1. IsWellFoundedOn(R, Nat)
  BY NatLessThanWellFounded
<1>2. \E x \in T : \A y \in T : ~(<<y, x>> \in R)
  <2> HIDE DEF R
  <2> QED BY <1>1, WFMin
<1> QED BY <1>2 DEF OpToRel
-----------------------------------------------------------------------------
(* The copy of a pack.                                                     *)

ForkReadsVectors == Seq([of : ForkContents \cup {Anchor, Stray}, dim : Nat,
                         grade : {"fine", "mistagged", "invalid"}])

\* The phases before the first write, from the reservation's attempt on, and
\* from each kind of row on that the phase before it has finished.
BeforeWrites == {"rows", "vectors", "reserve", "check", "anchor"}
FromVerify == {"verify", "ready"}
FromImport == {"import"} \cup FromVerify
FromSources == {"sources"} \cup FromImport
FromEdges == {"edges"} \cup FromSources
FromNodes == {"nodes"} \cup FromEdges
FromReserve == {"reserve", "check", "anchor"} \cup FromNodes

\* The plan and the copy are the records that the call made of them.
ForkShapes ==
    /\ plan = [nodes |-> plan.nodes, edges |-> plan.edges, sources |-> plan.sources,
               texts |-> plan.texts, batch |-> plan.batch]
    /\ forkTarget = [anchor |-> forkTarget.anchor, nodes |-> forkTarget.nodes,
                     edges |-> forkTarget.edges, sources |-> forkTarget.sources,
                     vectors |-> forkTarget.vectors]
    /\ forkTarget.anchor \in BOOLEAN

\* What the preflight let through hangs together, and no content of it is
\* spelled like the source pack.
ForkPlanOK ==
    /\ plan.nodes \subseteq ForkNodes /\ plan.edges \subseteq ForkEdgeEnds
    /\ plan.sources \subseteq ForkSources
    /\ \A e \in plan.edges : {e[1], e[2]} \subseteq plan.nodes \cup {Anchor}
    /\ spelled = "source" => Odd \notin Copied
    /\ exported \in ForkReadsVectors
    /\ forkPc \in FromReserve => plan.batch = KeepFirst(exported)

\* Every row of the copy is a planned one, written as the call writes it or
\* with the reference left alone, and rows that need others come after them.
ForkCopiesOK ==
    /\ \A x \in forkTarget.nodes : x.of \in plan.nodes /\ x \in {Written(x.of), Garbled(x.of)}
    /\ \A x \in forkTarget.edges : x.of \in plan.edges /\ x \in {Written(x.of), Garbled(x.of)}
    /\ \A x \in forkTarget.sources : x.of \in plan.sources /\ x = Written(x.of)
    /\ DOMAIN forkTarget.vectors \subseteq KeepFirst(exported)
    /\ \A i \in DOMAIN forkTarget.vectors : forkTarget.vectors[i] = Written(exported[i].of)
    /\ forkTarget.edges # {} => forkTarget.anchor = TRUE /\ Undone("nodes") = {}
    /\ DOMAIN forkTarget.vectors # {} => Undone("nodes") = {} /\ Undone("sources") = {}

\* Each phase finds the ones before it finished.
ForkPhaseOK ==
    /\ forkPc \in BeforeWrites => forkTarget = EmptyTarget
    /\ forkPc \in FromNodes => forkTarget.anchor = TRUE
    /\ forkPc \in FromEdges => Undone("nodes") = {}
    /\ forkPc \in FromSources => Undone("edges") = {}
    /\ forkPc \in FromImport => Undone("sources") = {}
    /\ forkPc \in FromVerify => DOMAIN forkTarget.vectors = KeepFirst(exported)
    /\ forkPc = "ready" => Leaked = {}
    /\ forkNoted # NothingNoted => forkPc = "sources" /\ Undone("sources") # {}

\* A copy that a ready row may stand for (ReadyIsWhole).
CopyIsWhole ==
    LET places == {forkTarget.vectors[i].of : i \in DOMAIN forkTarget.vectors}
    IN  /\ forkTarget.anchor
        /\ Undone("nodes") = {} /\ Undone("edges") = {} /\ Undone("sources") = {}
        /\ \A i \in Usable(exported) :
              exported[i].dim = BatchDim(exported) => exported[i].of \in places
        /\ HasCounterpart(forkMeans) => \A x \in TargetRows : x.ref = Meant(forkMeans)
        /\ \A x \in forkTarget.sources : x.text = 0

\* A call answers once, and only a whole copy becomes ready.
ForkVerdictOK ==
    /\ forkMeans \in References /\ spelled \in {"plain", "source", "target"}
    /\ forkPc \in ForkPcs /\ forkRow \in {"none", "creating", "partial", "ready"}
    /\ reply.status \in {"none", "ok", "partial", "rejected"} /\ reply.confirmed \in BOOLEAN
    /\ forkRow = "ready" => forkPc \in {"demote", "done"} /\ CopyIsWhole
    /\ forkPc \in {"rows", "vectors", "reserve"} => forkRow = "none"
    /\ forkPc # "done" => reply = NoReply
    /\ AnswerIsTrue

\* The inductive invariant of the copy.
ForkInv == ForkShapes /\ ForkPlanOK /\ ForkCopiesOK /\ ForkPhaseOK /\ ForkVerdictOK

\* The steps that only decide leave the copy and what it is compared with alone.
LEMMA SameCopyFacts ==
    ASSUME UNCHANGED <<forkMeans, spelled, plan, exported, forkTarget>>
    PROVE  /\ \A f : Undone(f)' = Undone(f)
           /\ KeepFirst(exported)' = KeepFirst(exported)
           /\ Leaked' = Leaked
           /\ ForkShapes => ForkShapes'
           /\ ForkCopiesOK => ForkCopiesOK'
           /\ CopyIsWhole => CopyIsWhole'
           /\ Copied' = Copied
<1>1. \A f : Undone(f)' = Undone(f)
  BY DEF Undone
<1>2. KeepFirst(exported)' = KeepFirst(exported)
  BY DEF KeepFirst, Usable, BatchDim, Classified, Copied
<1>3. Leaked' = Leaked
  BY DEF Leaked, TargetRows, Mapped, Copied, SourceTag, Spelling
<1>4. ForkShapes => ForkShapes'
  BY DEF ForkShapes
<1>5. \A id : Written(id)' = Written(id) /\ Garbled(id)' = Garbled(id)
  BY DEF Written, Garbled, Remapped, Spelling, SourceTag, Mapped, Copied
<1>6. ForkCopiesOK => ForkCopiesOK'
  <2>1. \A i : (Written(exported[i].of))' = Written(exported[i].of)
    BY DEF Written, Garbled, Remapped, Spelling, SourceTag, Mapped, Copied
  <2> QED BY <1>1, <1>2, <1>5, <2>1 DEF ForkCopiesOK
<1>7. CopyIsWhole => CopyIsWhole'
  <2>1. /\ Usable(exported)' = Usable(exported) /\ BatchDim(exported)' = BatchDim(exported)
    BY DEF Usable, BatchDim, Classified, Copied
  <2>2. HasCounterpart(forkMeans)' <=> HasCounterpart(forkMeans)
    BY DEF HasCounterpart, Mapped, Copied
  <2>3. Meant(forkMeans)' = Meant(forkMeans)
    BY DEF Meant, Mapped, Copied
  <2>4. TargetRows' = TargetRows
    BY DEF TargetRows
  <2> QED BY <1>1, <2>1, <2>2, <2>3, <2>4, Zenon DEF CopyIsWhole
<1>8. Copied' = Copied
  BY DEF Copied
<1> QED BY <1>1, <1>2, <1>3, <1>4, <1>6, <1>7, <1>8

\* What a write says of a row.
LEMMA RowsWritten ==
    ASSUME NEW id
    PROVE  /\ Written(id).of = id /\ Written(id).text = 0
           /\ Written(id).ref = Remapped(Spelling(forkMeans))
           /\ Garbled(id).of = id /\ Garbled(id).text = 0
           /\ Garbled(id).ref = Spelling(forkMeans)
BY DEF Written, Garbled

\* What was copied of nothing is in order.
LEMMA NothingCopied ==
    forkTarget' = EmptyTarget => ForkCopiesOK'
BY DEF EmptyTarget, ForkCopiesOK

LEMMA EmptyShape ==
    forkTarget' = EmptyTarget =>
        /\ forkTarget' = [anchor |-> forkTarget.anchor, nodes |-> forkTarget.nodes,
                          edges |-> forkTarget.edges, sources |-> forkTarget.sources,
                          vectors |-> forkTarget.vectors]'
        /\ forkTarget.anchor' \in BOOLEAN
BY DEF EmptyTarget

\* A batch's positions are positions of usable vectors at one dimension, and
\* each usable vector at that dimension has its content's first one in it.
LEMMA KeepFirstKeeps ==
    ASSUME exported \in ForkReadsVectors
    PROVE  /\ KeepFirst(exported) \subseteq Usable(exported)
           /\ \A i, j \in KeepFirst(exported) : i # j => exported[i].of # exported[j].of
           /\ \A i \in Usable(exported) : exported[i].dim = BatchDim(exported) =>
                 \E j \in KeepFirst(exported) : exported[j].of = exported[i].of
<1> DEFINE good == {i \in Usable(exported) : exported[i].dim = BatchDim(exported)}
<1>1. Usable(exported) \subseteq Nat
  BY DEF Usable, ForkReadsVectors
<1>2. KeepFirst(exported) = {i \in good : \A j \in good : j < i => exported[j].of # exported[i].of}
  BY DEF KeepFirst
<1>3. KeepFirst(exported) \subseteq Usable(exported)
  BY <1>2
<1>4. ASSUME NEW i \in KeepFirst(exported), NEW j \in KeepFirst(exported), i # j
      PROVE  exported[i].of # exported[j].of
  BY <1>1, <1>3, <1>4, <1>2
<1>5. ASSUME NEW i \in Usable(exported), exported[i].dim = BatchDim(exported)
      PROVE  \E j \in KeepFirst(exported) : exported[j].of = exported[i].of
  <2> DEFINE twins == {j \in good : exported[j].of = exported[i].of}
  <2>1. twins \subseteq Nat /\ twins # {}
    BY <1>1, <1>5
  <2>2. PICK j \in twins : \A k \in twins : ~(k < j)
    <3> HIDE DEF twins
    <3> QED BY <2>1, LeastPosition
  <2>3. j \in KeepFirst(exported)
    BY <1>2, <2>2
  <2> QED BY <2>2, <2>3
<1> QED BY <1>3, <1>4, <1>5

\* The rows of a vector batch are of copied nodes or sources.
LEMMA UsableIsCopied ==
    ASSUME NEW i \in Usable(exported) PROVE i \in DOMAIN exported /\ exported[i].of \in Copied
BY DEF Usable, Classified

\* No row of the copy hangs.
LEMMA CopiesDoNotDangle ==
    ForkShapes /\ ForkPlanOK /\ ForkCopiesOK => NothingDangles
<1> SUFFICES ASSUME ForkShapes, ForkPlanOK, ForkCopiesOK PROVE NothingDangles
  OBVIOUS
<1> DEFINE nodes == {x.of : x \in forkTarget.nodes}
           sources == {x.of : x \in forkTarget.sources}
<1>1. ASSUME NEW x \in forkTarget.edges, NEW end \in {x.of[1], x.of[2]}
      PROVE  IF end = Anchor THEN forkTarget.anchor ELSE end \in nodes
  BY <1>1 DEF ForkCopiesOK, ForkPlanOK, Undone
<1>2. ASSUME NEW i \in DOMAIN forkTarget.vectors, NEW j \in DOMAIN forkTarget.vectors
      PROVE  /\ forkTarget.vectors[i].of \in nodes \cup sources
             /\ i # j => forkTarget.vectors[i].of # forkTarget.vectors[j].of
  BY <1>2, RowsWritten, KeepFirstKeeps, UsableIsCopied DEF ForkCopiesOK, ForkPlanOK, Copied, Undone
<1> HIDE DEF nodes, sources
<1> QED BY <1>1, <1>2, Zenon DEF NothingDangles, nodes, sources

\* A copy that passed every phase and its verification is whole: a reference
\* that has a counterpart says it, whether the write mapped it or left it alone.
LEMMA VerifiedCopyIsWhole ==
    ForkInv /\ forkPc = "ready" => CopyIsWhole
<1> SUFFICES ASSUME ForkInv, forkPc = "ready" PROVE CopyIsWhole
  OBVIOUS
<1> USE DEF ForkInv
<1>1. /\ forkTarget.anchor = TRUE
      /\ Undone("nodes") = {} /\ Undone("edges") = {} /\ Undone("sources") = {}
      /\ DOMAIN forkTarget.vectors = KeepFirst(exported)
      /\ Leaked = {}
  BY DEF ForkPhaseOK, FromNodes, FromEdges, FromSources, FromImport, FromVerify
<1>2. ASSUME NEW i \in Usable(exported), exported[i].dim = BatchDim(exported)
      PROVE  exported[i].of \in {forkTarget.vectors[k].of : k \in DOMAIN forkTarget.vectors}
  BY <1>2, KeepFirstKeeps, <1>1, RowsWritten DEF ForkPlanOK, ForkCopiesOK
<1>3. ASSUME HasCounterpart(forkMeans), NEW x \in TargetRows PROVE x.ref = Meant(forkMeans)
  <2>1. x.ref = Remapped(Spelling(forkMeans)) \/ x.ref = Spelling(forkMeans)
    BY RowsWritten, <1>3 DEF ForkCopiesOK, TargetRows
  <2>2. x.ref \notin Mapped /\ x.ref # SourceTag
    BY <1>1, <1>3 DEF Leaked
  <2>3. forkMeans \in References /\ (spelled = "source" => Odd \notin Copied)
    BY DEF ForkPlanOK, ForkVerdictOK
  <2>4. CASE forkMeans \in Mapped
    BY <2>4, ForkAssumption, <2>1, <2>2 DEF Mapped, Copied, ForkPlanOK, ForkContents, Spelling,
       Remapped, Meant
  <2>5. CASE forkMeans \notin Mapped /\ forkMeans = "tag"
    BY <2>5, <2>3, ForkAssumption, <2>1, <2>2 DEF SourceTag, Spelling, Mapped, Remapped, Meant
  <2>6. CASE forkMeans \notin Mapped /\ forkMeans # "tag"
    BY <1>3, <2>6, ForkAssumption, <2>1 DEF HasCounterpart, Spelling, SourceTag, Remapped, Meant
  <2> QED BY <2>4, <2>5, <2>6
<1>4. \A x \in forkTarget.sources : x.text = 0
  BY DEF ForkCopiesOK, Written
<1> QED BY <1>1, <1>2, <1>3, <1>4, Zenon DEF CopyIsWhole

\* A write adds rows of the plan, each after the ones it needs.
LEMMA MoreCopies ==
    ASSUME ForkCopiesOK, UNCHANGED <<forkMeans, spelled, plan, exported>>,
           forkTarget.anchor = TRUE => forkTarget.anchor' = TRUE,
           forkTarget.nodes \subseteq forkTarget.nodes',
           forkTarget.edges \subseteq forkTarget.edges',
           forkTarget.sources \subseteq forkTarget.sources',
           \A x \in forkTarget.nodes' \ forkTarget.nodes :
              x.of \in plan.nodes /\ x \in {Written(x.of), Garbled(x.of)},
           \A x \in forkTarget.edges' \ forkTarget.edges :
              x.of \in plan.edges /\ x \in {Written(x.of), Garbled(x.of)},
           \A x \in forkTarget.sources' \ forkTarget.sources :
              x.of \in plan.sources /\ x = Written(x.of),
           \/ forkTarget.edges' = forkTarget.edges
           \/ forkTarget.anchor' = TRUE /\ Undone("nodes") = {},
           \/ forkTarget.vectors' = forkTarget.vectors
           \/ /\ Undone("nodes") = {} /\ Undone("sources") = {}
              /\ DOMAIN forkTarget.vectors' \subseteq KeepFirst(exported)
              /\ \A i \in DOMAIN forkTarget.vectors' :
                    forkTarget.vectors'[i] = Written(exported[i].of)
    PROVE  /\ ForkCopiesOK'
           /\ Undone("nodes")' \subseteq Undone("nodes")
           /\ Undone("edges")' \subseteq Undone("edges")
           /\ Undone("sources")' \subseteq Undone("sources")
           /\ KeepFirst(exported)' = KeepFirst(exported)
<1>1. KeepFirst(exported)' = KeepFirst(exported)
  <2>1. exported' = exported /\ Copied' = Copied
    BY DEF Copied
  <2>2. Usable(exported)' = Usable(exported)
    BY ONLY <2>1 DEF Usable, Classified
  <2>3. BatchDim(exported)' = BatchDim(exported)
    BY ONLY <2>1, <2>2 DEF BatchDim
  <2> QED BY ONLY <2>1, <2>2, <2>3 DEF KeepFirst
<1>2. \A id : Written(id)' = Written(id) /\ Garbled(id)' = Garbled(id)
  BY DEF Written, Garbled, Remapped, Spelling, SourceTag, Mapped, Copied
<1>3. \A i : (Written(exported[i].of))' = Written(exported[i].of)
  BY DEF Written, Garbled, Remapped, Spelling, SourceTag, Mapped, Copied
<1>4. /\ Undone("nodes")' \subseteq Undone("nodes")
      /\ Undone("edges")' \subseteq Undone("edges")
      /\ Undone("sources")' \subseteq Undone("sources")
  BY DEF Undone
<1>5. /\ (\A x \in forkTarget.nodes : x.of \in plan.nodes /\ x \in {Written(x.of), Garbled(x.of)})'
      /\ (\A x \in forkTarget.edges : x.of \in plan.edges /\ x \in {Written(x.of), Garbled(x.of)})'
      /\ (\A x \in forkTarget.sources : x.of \in plan.sources /\ x = Written(x.of))'
  BY <1>2 DEF ForkCopiesOK
<1>6. /\ (DOMAIN forkTarget.vectors \subseteq KeepFirst(exported))'
      /\ (\A i \in DOMAIN forkTarget.vectors : forkTarget.vectors[i] = Written(exported[i].of))'
  BY <1>1, <1>3 DEF ForkCopiesOK
<1>7. /\ (forkTarget.edges # {} => forkTarget.anchor = TRUE /\ Undone("nodes") = {})'
      /\ (DOMAIN forkTarget.vectors # {} => Undone("nodes") = {} /\ Undone("sources") = {})'
  BY <1>4 DEF ForkCopiesOK
<1>8. ForkCopiesOK'
  BY ONLY <1>5, <1>6, <1>7 DEF ForkCopiesOK
<1> QED BY <1>1, <1>4, <1>8

-----------------------------------------------------------------------------
(* The steps before the first write.                                       *)

LEMMA ForkInit_Inv == ForkInit => ForkInv
<1> SUFFICES ASSUME ForkInit PROVE ForkInv
  OBVIOUS
<1> USE DEF ForkInit
<1>1. ForkShapes
  BY DEF ForkShapes, NoPlan, EmptyTarget
<1>2. ForkPlanOK
  BY DEF ForkPlanOK, NoPlan, ForkReadsVectors, Copied, FromReserve, FromNodes, FromEdges,
         FromSources, FromImport, FromVerify
<1>3. ForkCopiesOK
  BY DEF ForkCopiesOK, EmptyTarget
<1>4. ForkPhaseOK
  BY DEF ForkPhaseOK, FromNodes, FromEdges, FromSources, FromImport, FromVerify
<1>5. ForkVerdictOK
  BY DEF ForkVerdictOK, AnswerIsTrue, NoReply, ForkPcs
<1> QED BY <1>1, <1>2, <1>3, <1>4, <1>5 DEF ForkInv

\* A refusal before the first write, with or without the reservation's row.
LEMMA RefusedBefore ==
    ASSUME ForkInv, UNCHANGED <<forkMeans, spelled, forkTarget, forkNoted>>,
           forkPc \in BeforeWrites, forkPc' = "done",
           plan' = plan, exported' \in ForkReadsVectors,
           reply'.status = "rejected", reply'.confirmed \in BOOLEAN,
           forkRow' \in {"none", "creating", "partial"},
           reply'.confirmed = TRUE => forkRow' = "none"
    PROVE  ForkInv'
<1> USE DEF ForkInv
<1>1. forkTarget' = EmptyTarget /\ forkNoted' = NothingNoted
  BY DEF ForkPhaseOK, BeforeWrites
<1>2. ForkShapes'
  BY DEF ForkShapes
<1>3. ForkPlanOK'
  BY DEF ForkPlanOK, Copied, FromReserve, FromNodes, FromEdges, FromSources, FromImport, FromVerify
<1>4. ForkCopiesOK'
  BY <1>1, NothingCopied
<1>5. ForkPhaseOK'
  BY <1>1 DEF ForkPhaseOK, BeforeWrites, FromNodes, FromEdges, FromSources, FromImport, FromVerify
<1>6. AnswerIsTrue'
  BY <1>1 DEF AnswerIsTrue
<1>7. ForkVerdictOK'
  BY <1>6 DEF ForkVerdictOK, ForkPcs
<1> QED BY <1>2, <1>3, <1>4, <1>5, <1>7

LEMMA RefuseStep == ForkInv /\ Refuse => ForkInv'
<1> SUFFICES ASSUME ForkInv, Refuse PROVE ForkInv'
  OBVIOUS
<1>1. /\ forkPc \in BeforeWrites /\ forkPc' = "done" /\ forkRow' = "none"
      /\ reply' = [status |-> "rejected", observed |-> "none", confirmed |-> TRUE]
      /\ UNCHANGED <<forkMeans, spelled, plan, exported, forkTarget, forkNoted>>
  BY DEF Refuse, Rejected, ForkAnswer, BeforeWrites, ForkInv, ForkVerdictOK
<1>2. exported' \in ForkReadsVectors
  BY <1>1 DEF ForkInv, ForkPlanOK
<1>3. reply'.status = "rejected" /\ reply'.confirmed \in BOOLEAN
  BY <1>1
<1> HIDE DEF Refuse
<1> QED BY ONLY ForkInv, <1>1, <1>2, <1>3, RefusedBefore

LEMMA ReadRowsStep == ForkInv /\ ReadRows => ForkInv'
<1> SUFFICES ASSUME ForkInv, ReadRows PROVE ForkInv'
  OBVIOUS
<1>0. /\ forkPc = "rows" /\ forkPc \in BeforeWrites /\ forkRow = "none"
      /\ UNCHANGED <<forkMeans, spelled, exported, forkTarget, forkRow, live, forkNoted>>
  BY DEF ReadRows, BeforeWrites, ForkInv, ForkVerdictOK
<1>1. CASE Rejected /\ UNCHANGED plan
  BY <1>1, <1>0, RefusedBefore DEF Rejected, ForkAnswer, ForkInv, ForkPlanOK
<1>2. ASSUME NEW r \in RowReads,
             ~NamesakeOfPack(NodeSurvivors(r) \cup SourceSurvivors(r)),
             plan' = [NoPlan EXCEPT !.nodes = NodeSurvivors(r), !.edges = EdgeSurvivors(r),
                                    !.sources = SourceSurvivors(r),
                                    !.texts = [s \in SourceSurvivors(r) |-> live[s].text]],
             forkPc' = "vectors", UNCHANGED reply
      PROVE  ForkInv'
  <2> USE DEF ForkInv
  <2>1. forkTarget' = EmptyTarget /\ forkNoted' = NothingNoted
    BY <1>0 DEF ForkPhaseOK
  <2>2. /\ plan'.nodes = NodeSurvivors(r) /\ plan'.edges = EdgeSurvivors(r)
        /\ plan'.sources = SourceSurvivors(r)
    BY <1>2 DEF NoPlan
  <2>3. ForkShapes'
    BY <2>1, <1>2, EmptyShape DEF ForkShapes, NoPlan
  <2>4. /\ NodeSurvivors(r) \subseteq ForkNodes /\ SourceSurvivors(r) \subseteq ForkSources
        /\ EdgeSurvivors(r) \subseteq ForkEdgeEnds
        /\ \A e \in EdgeSurvivors(r) : {e[1], e[2]} \subseteq NodeSurvivors(r) \cup {Anchor}
    BY <1>2 DEF RowReads, NodeSurvivors, SourceSurvivors, EdgeSurvivors, Fine
  <2>5. ForkPlanOK'
    <3>1. (spelled = "source" => Odd \notin Copied)'
      BY <1>0, <1>2, <2>2 DEF NamesakeOfPack, Copied
    <3>2. exported' \in ForkReadsVectors
      BY <1>0 DEF ForkPlanOK
    <3>3. forkPc' \notin FromReserve
      BY <1>2 DEF FromReserve, FromNodes, FromEdges, FromSources, FromImport, FromVerify
    <3> QED BY <2>2, <2>4, <3>1, <3>2, <3>3 DEF ForkPlanOK
  <2>6. ForkCopiesOK'
    BY <2>1, NothingCopied
  <2>7. ForkPhaseOK'
    BY <1>2, <2>1 DEF ForkPhaseOK, FromNodes, FromEdges, FromSources, FromImport, FromVerify
  <2>8. ForkVerdictOK'
    BY <1>0, <1>2 DEF ForkVerdictOK, AnswerIsTrue, ForkPcs, NoReply
  <2> QED BY <2>3, <2>5, <2>6, <2>7, <2>8
<1> QED BY <1>1, <1>2 DEF ReadRows

LEMMA ReadVectorsStep == ForkInv /\ ReadVectors => ForkInv'
<1> SUFFICES ASSUME ForkInv, ReadVectors PROVE ForkInv'
  OBVIOUS
<1>0. /\ forkPc = "vectors" /\ forkPc \in BeforeWrites /\ forkRow = "none"
      /\ UNCHANGED <<forkMeans, spelled, forkTarget, forkRow, live, forkNoted>>
  BY DEF ReadVectors, BeforeWrites, ForkInv, ForkVerdictOK
<1>1. exported' \in ForkReadsVectors
  BY ForkAssumption DEF ReadVectors, ForkReadsVectors
<1>2. CASE Rejected /\ UNCHANGED plan
  BY <1>2, <1>0, <1>1, RefusedBefore DEF Rejected, ForkAnswer
<1>3. ASSUME plan' = [plan EXCEPT !.batch = KeepFirst(exported')],
             forkPc' = "reserve", UNCHANGED reply
      PROVE  ForkInv'
  <2> USE DEF ForkInv
  <2>1. forkTarget' = EmptyTarget /\ forkNoted' = NothingNoted
    BY <1>0 DEF ForkPhaseOK
  <2>2. /\ plan'.nodes = plan.nodes /\ plan'.edges = plan.edges
        /\ plan'.sources = plan.sources /\ plan'.batch = KeepFirst(exported')
    BY <1>3 DEF ForkShapes
  <2>3. ForkShapes'
    BY <2>1, <1>3, EmptyShape DEF ForkShapes
  <2>4. Copied' = Copied
    BY <2>2 DEF Copied
  <2>5. KeepFirst(exported)' = KeepFirst(exported')
    BY <2>4 DEF KeepFirst, Usable, BatchDim, Classified
  <2>6. ForkPlanOK'
    BY <1>0, <1>1, <2>2, <2>4, <2>5 DEF ForkPlanOK
  <2>7. ForkCopiesOK'
    BY <2>1, NothingCopied
  <2>8. ForkPhaseOK'
    BY <1>3, <2>1 DEF ForkPhaseOK, FromNodes, FromEdges, FromSources, FromImport, FromVerify
  <2>9. ForkVerdictOK'
    BY <1>0, <1>3 DEF ForkVerdictOK, AnswerIsTrue, ForkPcs, NoReply
  <2> QED BY <2>3, <2>6, <2>7, <2>8, <2>9
<1>4. \E vs \in VectorReads : exported' = vs /\
         \/ Rejected /\ UNCHANGED plan
         \/ plan' = [plan EXCEPT !.batch = KeepFirst(vs)] /\ forkPc' = "reserve" /\ UNCHANGED reply
  BY DEF ReadVectors
<1>5. CASE \E vs \in VectorReads : exported' = vs /\ plan' = [plan EXCEPT !.batch = KeepFirst(vs)]
                                  /\ forkPc' = "reserve" /\ UNCHANGED reply
  BY <1>3, <1>5
<1> QED BY <1>2, <1>4, <1>5

\* The copy and its plan stay as they are while a call decides.
LEMMA DecidingKeeps ==
    ASSUME ForkInv, UNCHANGED <<forkMeans, spelled, plan, exported, forkTarget>>,
           forkPc' \in FromReserve => forkPc \in FromReserve
    PROVE  ForkShapes' /\ ForkPlanOK' /\ ForkCopiesOK'
BY SameCopyFacts DEF ForkInv, ForkPlanOK

LEMMA ReserveStep == ForkInv /\ Reserve => ForkInv'
<1> SUFFICES ASSUME ForkInv, Reserve PROVE ForkInv'
  OBVIOUS
<1>0. /\ forkPc = "reserve" /\ forkPc \in BeforeWrites
      /\ UNCHANGED <<forkMeans, spelled, plan, exported, forkTarget, live, forkNoted>>
      /\ exported' \in ForkReadsVectors
  BY DEF Reserve, BeforeWrites, ForkInv, ForkPlanOK
<1>1. CASE forkRow' = "creating" /\ forkPc' = "check" /\ UNCHANGED reply
  <2>1. forkTarget' = EmptyTarget /\ forkNoted' = NothingNoted
    BY <1>0 DEF ForkInv, ForkPhaseOK
  <2>2. ForkShapes' /\ ForkPlanOK' /\ ForkCopiesOK'
    BY <1>0, <1>1, DecidingKeeps DEF FromReserve
  <2>3. ForkPhaseOK'
    BY <1>1, <2>1 DEF ForkPhaseOK, FromNodes, FromEdges, FromSources, FromImport, FromVerify
  <2>4. ForkVerdictOK'
    BY <1>0, <1>1 DEF ForkInv, ForkVerdictOK, AnswerIsTrue, ForkPcs, NoReply
  <2> QED BY <2>2, <2>3, <2>4 DEF ForkInv
<1>2. CASE forkRow' \in {"none", "creating"} /\ ForkAnswer("rejected", "registration", FALSE)
  BY <1>2, <1>0, RefusedBefore DEF ForkAnswer
<1> QED BY <1>1, <1>2 DEF Reserve

LEMMA CheckTargetStep == ForkInv /\ CheckTarget => ForkInv'
<1> SUFFICES ASSUME ForkInv, CheckTarget PROVE ForkInv'
  OBVIOUS
<1>0. /\ forkPc = "check" /\ forkPc \in BeforeWrites
      /\ UNCHANGED <<forkMeans, spelled, plan, exported, forkTarget, live, forkNoted>>
      /\ exported' \in ForkReadsVectors
      /\ forkRow \in {"none", "creating", "partial"}
  BY DEF CheckTarget, BeforeWrites, ForkInv, ForkPlanOK, ForkVerdictOK
<1>1. CASE forkPc' = "anchor" /\ UNCHANGED <<forkRow, reply>>
  <2>1. forkTarget' = EmptyTarget /\ forkNoted' = NothingNoted
    BY <1>0 DEF ForkInv, ForkPhaseOK, BeforeWrites
  <2>2. ForkShapes' /\ ForkPlanOK' /\ ForkCopiesOK'
    BY <1>0, <1>1, DecidingKeeps DEF FromReserve
  <2>3. ForkPhaseOK'
    BY <1>1, <2>1 DEF ForkPhaseOK, FromNodes, FromEdges, FromSources, FromImport, FromVerify
  <2>4. ForkVerdictOK'
    BY <1>0, <1>1 DEF ForkInv, ForkVerdictOK, AnswerIsTrue, ForkPcs, NoReply
  <2> QED BY <2>2, <2>3, <2>4 DEF ForkInv
<1>2. CASE Compensate
  <2>1. /\ forkPc' = "done" /\ reply'.status = "rejected" /\ reply'.confirmed \in BOOLEAN
        /\ forkRow' \in {"none", "creating", "partial"}
        /\ reply'.confirmed = TRUE => forkRow' = "none"
    <3>1. CASE forkRow = "creating" /\ forkRow' = "none" /\ Rejected
      BY <3>1 DEF Rejected, ForkAnswer
    <3>2. CASE forkRow' = forkRow /\ ForkAnswer("rejected", "inspect", FALSE)
      BY <3>2, <1>0 DEF ForkAnswer
    <3> QED BY <1>2, <3>1, <3>2 DEF Compensate
  <2> QED BY ONLY ForkInv, <1>0, <2>1, RefusedBefore
<1> QED BY <1>1, <1>2 DEF CheckTarget

-----------------------------------------------------------------------------
(* The writes.                                                             *)

LEMMA PutAnchorStep == ForkInv /\ PutAnchor => ForkInv'
<1> SUFFICES ASSUME ForkInv, PutAnchor PROVE ForkInv'
  OBVIOUS
<1> USE DEF ForkInv
<1>0. /\ forkPc = "anchor" /\ forkTarget = EmptyTarget /\ forkNoted' = NothingNoted
      /\ UNCHANGED <<forkMeans, spelled, plan, exported, forkRow, reply, live, forkNoted>>
  BY DEF PutAnchor, ForkPhaseOK, BeforeWrites
<1>1. PICK landed \in BOOLEAN :
         /\ forkTarget' = [forkTarget EXCEPT !.anchor = landed]
         /\ (forkPc' = "nodes" /\ landed = TRUE) \/ forkPc' = "demote"
  BY DEF PutAnchor
<1>2. /\ forkTarget.anchor' = landed /\ forkTarget.nodes' = {} /\ forkTarget.edges' = {}
      /\ forkTarget.sources' = {} /\ DOMAIN forkTarget.vectors' = {}
  BY <1>0, <1>1 DEF EmptyTarget
<1>3. ForkShapes'
  BY <1>0, <1>1 DEF ForkShapes
<1>4. ForkPlanOK'
  <2>1. Copied' = Copied /\ KeepFirst(exported)' = KeepFirst(exported)
    BY <1>0 DEF KeepFirst, Usable, BatchDim, Classified, Copied
  <2>2. forkPc \in FromReserve
    BY <1>0 DEF FromReserve
  <2> QED BY <1>0, <2>1, <2>2 DEF ForkPlanOK
<1>5. ForkCopiesOK'
  BY <1>2 DEF ForkCopiesOK
<1>6. ForkPhaseOK'
  BY <1>0, <1>1, <1>2 DEF ForkPhaseOK, BeforeWrites, FromNodes, FromEdges, FromSources,
                          FromImport, FromVerify
<1>7. forkRow # "ready"
  BY <1>0 DEF ForkVerdictOK
<1>8. ForkVerdictOK'
  BY <1>0, <1>1, <1>7 DEF ForkVerdictOK, AnswerIsTrue, ForkPcs, NoReply
<1> QED BY <1>3, <1>4, <1>5, <1>6, <1>8

\* What every write after the anchor's leaves in order: the plan, and a call
\* without an answer or a ready row.
LEMMA WritingKeeps ==
    ASSUME ForkInv, UNCHANGED <<forkMeans, spelled, plan, exported, forkRow, reply>>,
           forkPc \in FromNodes \ {"ready"}, forkPc' \in FromNodes \cup {"demote"}
    PROVE  ForkPlanOK' /\ ForkVerdictOK'
<1> USE DEF ForkInv
<1>1. Copied' = Copied /\ KeepFirst(exported)' = KeepFirst(exported)
  BY DEF KeepFirst, Usable, BatchDim, Classified, Copied
<1>2. ForkPlanOK'
  BY <1>1 DEF ForkPlanOK, FromReserve
<1>3. /\ forkPc \notin {"rows", "vectors", "reserve", "demote", "done"}
      /\ forkPc' \in ForkPcs /\ forkPc' \notin {"rows", "vectors", "reserve", "done"}
  BY DEF FromNodes, FromEdges, FromSources, FromImport, FromVerify, ForkPcs
<1>4. forkRow # "ready" /\ reply = NoReply
  BY <1>3 DEF ForkVerdictOK
<1>5. AnswerIsTrue'
  BY <1>4 DEF AnswerIsTrue, NoReply
<1>6. ForkVerdictOK'
  BY <1>3, <1>4, <1>5 DEF ForkVerdictOK
<1> QED BY <1>2, <1>6

\* One write: nothing, or one row under a planned id.
LEMMA PutsOne ==
    ASSUME ForkShapes, UNCHANGED plan, NEW field \in {"nodes", "edges", "sources"}, NEW id, NEW next,
           Puts(field, id, next)
    PROVE  /\ forkPc' \in {next, "demote"}
           /\ ForkShapes'
           /\ forkTarget.anchor' = forkTarget.anchor /\ forkTarget.vectors' = forkTarget.vectors
           /\ \A f \in {"nodes", "edges", "sources"} :
                 \/ forkTarget[f]' = forkTarget[f]
                 \/ f = field /\ \E x \in {Written(id), Garbled(id)} :
                                    forkTarget[f]' = forkTarget[f] \cup {x}
           /\ forkPc' # "demote" => \E x \in {Written(id), Garbled(id)} :
                                       forkTarget[field]' = forkTarget[field] \cup {x}
BY DEF ForkShapes, Puts

LEMMA PutNodesStep == ForkInv /\ PutNodes => ForkInv'
<1> SUFFICES ASSUME ForkInv, PutNodes PROVE ForkInv'
  OBVIOUS
<1>0. /\ forkPc = "nodes" /\ forkNoted' = NothingNoted
      /\ UNCHANGED <<forkMeans, spelled, plan, exported, forkRow, reply, live, forkNoted>>
  BY DEF PutNodes, ForkInv, ForkPhaseOK
<1>1. CASE Undone("nodes") = {} /\ forkPc' = "edges" /\ UNCHANGED forkTarget
  BY <1>0, <1>1, SameCopyFacts, WritingKeeps DEF ForkInv, FromNodes, FromEdges, ForkPhaseOK,
     BeforeWrites, FromSources, FromImport, FromVerify
<1>2. ASSUME NEW n \in Undone("nodes"), Puts("nodes", n, "nodes") PROVE ForkInv'
  <2>1. /\ forkPc' \in {"nodes", "demote"} /\ ForkShapes'
        /\ forkTarget.anchor' = forkTarget.anchor /\ forkTarget.vectors' = forkTarget.vectors
        /\ forkTarget.edges' = forkTarget.edges /\ forkTarget.sources' = forkTarget.sources
        /\ \/ forkTarget.nodes' = forkTarget.nodes
           \/ \E x \in {Written(n), Garbled(n)} : forkTarget.nodes' = forkTarget.nodes \cup {x}
    BY <1>0, <1>2, PutsOne DEF ForkInv
  <2>2. n \in plan.nodes
    BY <1>2 DEF Undone
  <2>3. forkTarget.nodes \subseteq forkTarget.nodes'
    BY <2>1
  <2>4. \A x \in forkTarget.nodes' \ forkTarget.nodes :
           x.of \in plan.nodes /\ x \in {Written(x.of), Garbled(x.of)}
    BY <2>1, <2>2, RowsWritten
  <2>5. ForkCopiesOK'
    BY <1>0, <2>1, <2>3, <2>4, MoreCopies DEF ForkInv
  <2>6. ForkPlanOK' /\ ForkVerdictOK'
    BY <1>0, <2>1, WritingKeeps DEF FromNodes
  <2>7. ForkPhaseOK'
    BY <1>0, <2>1 DEF ForkInv, ForkPhaseOK, BeforeWrites, FromNodes, FromEdges, FromSources,
                      FromImport, FromVerify
  <2> QED BY <2>1, <2>5, <2>6, <2>7 DEF ForkInv
<1> QED BY <1>1, <1>2 DEF PutNodes

LEMMA PutEdgesStep == ForkInv /\ PutEdges => ForkInv'
<1> SUFFICES ASSUME ForkInv, PutEdges PROVE ForkInv'
  OBVIOUS
<1>0. /\ forkPc = "edges" /\ forkNoted' = NothingNoted
      /\ forkTarget.anchor = TRUE /\ Undone("nodes") = {}
      /\ UNCHANGED <<forkMeans, spelled, plan, exported, forkRow, reply, live, forkNoted>>
  BY DEF PutEdges, ForkInv, ForkPhaseOK, FromNodes, FromEdges
<1>1. CASE Undone("edges") = {} /\ forkPc' = "sources" /\ UNCHANGED forkTarget
  BY <1>0, <1>1, SameCopyFacts, WritingKeeps DEF ForkInv, FromNodes, FromEdges, FromSources,
     ForkPhaseOK, BeforeWrites, FromImport, FromVerify
<1>2. ASSUME NEW e \in Undone("edges"), Puts("edges", e, "edges") PROVE ForkInv'
  <2>1. /\ forkPc' \in {"edges", "demote"} /\ ForkShapes'
        /\ forkTarget.anchor' = forkTarget.anchor /\ forkTarget.vectors' = forkTarget.vectors
        /\ forkTarget.nodes' = forkTarget.nodes /\ forkTarget.sources' = forkTarget.sources
        /\ \/ forkTarget.edges' = forkTarget.edges
           \/ \E x \in {Written(e), Garbled(e)} : forkTarget.edges' = forkTarget.edges \cup {x}
    BY <1>0, <1>2, PutsOne DEF ForkInv
  <2>2. e \in plan.edges
    BY <1>2 DEF Undone
  <2>3. forkTarget.edges \subseteq forkTarget.edges'
    BY <2>1
  <2>4. \A x \in forkTarget.edges' \ forkTarget.edges :
           x.of \in plan.edges /\ x \in {Written(x.of), Garbled(x.of)}
    BY <2>1, <2>2, RowsWritten
  <2>5. ForkCopiesOK' /\ Undone("nodes")' \subseteq Undone("nodes")
    BY <1>0, <2>1, <2>3, <2>4, MoreCopies DEF ForkInv
  <2>6. ForkPlanOK' /\ ForkVerdictOK'
    BY <1>0, <2>1, WritingKeeps DEF FromNodes, FromEdges
  <2>7. ForkPhaseOK'
    BY <1>0, <2>1, <2>5 DEF ForkInv, ForkPhaseOK, BeforeWrites, FromNodes, FromEdges, FromSources,
                            FromImport, FromVerify
  <2> QED BY <2>1, <2>5, <2>6, <2>7 DEF ForkInv
<1> QED BY <1>1, <1>2 DEF PutEdges

LEMMA NoteStateStep == ForkInv /\ NoteState => ForkInv'
BY SameCopyFacts, WritingKeeps DEF NoteState, ForkInv, FromNodes, FromEdges, FromSources,
   ForkPhaseOK, BeforeWrites, FromImport, FromVerify

LEMMA PutSourceStep == ForkInv /\ PutSource => ForkInv'
<1> SUFFICES ASSUME ForkInv, PutSource PROVE ForkInv'
  OBVIOUS
<1>0. /\ forkPc = "sources" /\ Undone("sources") # {} /\ forkNoted' = NothingNoted
      /\ UNCHANGED <<forkMeans, spelled, plan, exported, forkRow, reply, live>>
  BY DEF PutSource, ForkInv, ForkPhaseOK
<1>1. NextSource \in Undone("sources")
  BY <1>0 DEF NextSource
<1>2. CASE UNCHANGED forkTarget /\ forkPc' = "demote"
  BY <1>0, <1>2, SameCopyFacts, WritingKeeps DEF ForkInv, FromNodes, FromEdges, FromSources,
     ForkPhaseOK, BeforeWrites, FromImport, FromVerify
<1>3. ASSUME forkPc' \in {"sources", "demote"},
             forkTarget' = [forkTarget EXCEPT !.sources = @ \cup {Written(NextSource)}]
      PROVE  ForkInv'
  <2>1. /\ ForkShapes'
        /\ forkTarget.anchor' = forkTarget.anchor /\ forkTarget.vectors' = forkTarget.vectors
        /\ forkTarget.nodes' = forkTarget.nodes /\ forkTarget.edges' = forkTarget.edges
        /\ forkTarget.sources' = forkTarget.sources \cup {Written(NextSource)}
    BY <1>0, <1>3 DEF ForkInv, ForkShapes
  <2>2. NextSource \in plan.sources
    BY <1>1 DEF Undone
  <2>3. forkTarget.sources \subseteq forkTarget.sources'
    BY <2>1
  <2>4. \A x \in forkTarget.sources' \ forkTarget.sources :
           x.of \in plan.sources /\ x = Written(x.of)
    BY <2>1, <2>2, RowsWritten
  <2>5. /\ ForkCopiesOK' /\ Undone("nodes")' \subseteq Undone("nodes")
        /\ Undone("edges")' \subseteq Undone("edges")
    BY <1>0, <2>1, <2>3, <2>4, MoreCopies DEF ForkInv
  <2>6. ForkPlanOK' /\ ForkVerdictOK'
    BY <1>0, <1>3, WritingKeeps DEF FromNodes, FromEdges, FromSources
  <2>7. ForkPhaseOK'
    BY <1>0, <1>3, <2>1, <2>5 DEF ForkInv, ForkPhaseOK, BeforeWrites, FromNodes, FromEdges,
                                  FromSources, FromImport, FromVerify
  <2> QED BY <2>1, <2>5, <2>6, <2>7 DEF ForkInv
<1>4. \/ UNCHANGED forkTarget /\ forkPc' = "demote"
      \/ /\ forkPc' \in {"sources", "demote"}
         /\ forkTarget' = [forkTarget EXCEPT !.sources = @ \cup {Written(NextSource)}]
  BY <1>0 DEF ForkVerified, Written, PutSource
<1> QED BY <1>2, <1>3, <1>4

LEMMA SourcesCopiedStep == ForkInv /\ SourcesCopied => ForkInv'
BY SameCopyFacts, WritingKeeps DEF SourcesCopied, ForkInv, FromNodes, FromEdges, FromSources,
   FromImport, ForkPhaseOK, BeforeWrites, FromVerify

LEMMA ImportStep == ForkInv /\ Import => ForkInv'
<1> SUFFICES ASSUME ForkInv, Import PROVE ForkInv'
  OBVIOUS
<1> DEFINE Landed(n) == [i \in {j \in plan.batch : j <= n} |-> Written(exported[i].of)]
<1>0. /\ forkPc = "import" /\ plan.batch = KeepFirst(exported)
      /\ forkNoted' = NothingNoted /\ exported \in ForkReadsVectors
      /\ Undone("nodes") = {} /\ Undone("edges") = {} /\ Undone("sources") = {}
      /\ forkTarget.anchor = TRUE
      /\ UNCHANGED <<forkMeans, spelled, plan, exported, forkRow, reply, live, forkNoted>>
  BY DEF Import, ForkInv, ForkPhaseOK, ForkPlanOK, FromReserve, FromNodes, FromEdges,
         FromSources, FromImport
<1>1. PICK n \in 0..Len(exported) :
         /\ forkTarget' = [forkTarget EXCEPT !.vectors = Landed(n)]
         /\ forkPc' \in {"verify", "demote"}
         /\ forkPc' = "verify" => n = Len(exported)
  <2>1. Len(exported) \in 0..Len(exported)
    BY <1>0 DEF ForkReadsVectors
  <2> QED BY <2>1, Zenon DEF Import
<1>2. /\ ForkShapes'
      /\ forkTarget.anchor' = forkTarget.anchor /\ forkTarget.nodes' = forkTarget.nodes
      /\ forkTarget.edges' = forkTarget.edges /\ forkTarget.sources' = forkTarget.sources
      /\ forkTarget.vectors' = Landed(n)
  BY <1>0, <1>1 DEF ForkInv, ForkShapes
<1>3. /\ DOMAIN forkTarget.vectors' \subseteq KeepFirst(exported)
      /\ \A i \in DOMAIN forkTarget.vectors' : forkTarget.vectors'[i] = Written(exported[i].of)
  BY <1>0, <1>2
<1>4. forkPc' = "verify" => DOMAIN forkTarget.vectors' = KeepFirst(exported)
  BY <1>1, <1>0, KeepFirstKeeps, UsableIsCopied, <1>2 DEF ForkReadsVectors
<1>5. /\ ForkCopiesOK' /\ KeepFirst(exported)' = KeepFirst(exported)
      /\ Undone("nodes")' \subseteq Undone("nodes") /\ Undone("edges")' \subseteq Undone("edges")
      /\ Undone("sources")' \subseteq Undone("sources")
  <2> HIDE DEF Landed
  <2> QED BY <1>0, <1>2, <1>3, MoreCopies DEF ForkInv
<1>6. ForkPlanOK' /\ ForkVerdictOK'
  BY <1>0, <1>1, WritingKeeps DEF FromNodes, FromEdges, FromSources, FromImport, FromVerify
<1>7. ForkPhaseOK'
  <2> HIDE DEF Landed
  <2> QED BY <1>0, <1>1, <1>2, <1>4, <1>5 DEF ForkInv, ForkPhaseOK, BeforeWrites, FromNodes,
             FromEdges, FromSources, FromImport, FromVerify
<1> QED BY <1>2, <1>5, <1>6, <1>7 DEF ForkInv

LEMMA VerifyCopyStep == ForkInv /\ VerifyCopy => ForkInv'
BY SameCopyFacts, WritingKeeps DEF VerifyCopy, ForkInv, FromNodes, FromEdges, FromSources,
   FromImport, FromVerify, ForkPhaseOK, BeforeWrites

-----------------------------------------------------------------------------
(* The verdict, and the others.                                            *)

LEMMA DecidedPhase ==
    ASSUME ForkInv, UNCHANGED <<forkMeans, spelled, plan, exported, forkTarget, forkNoted>>,
           forkPc \in {"ready", "demote"}, forkPc' \in {"demote", "done"}
    PROVE  ForkPhaseOK'
BY DEF ForkInv, ForkPhaseOK, BeforeWrites, FromNodes, FromEdges, FromSources, FromImport, FromVerify

LEMMA MarkReadyStep == ForkInv /\ MarkReadyCopy => ForkInv'
<1> SUFFICES ASSUME ForkInv, MarkReadyCopy PROVE ForkInv'
  OBVIOUS
<1>0. /\ forkPc = "ready" /\ forkPc' \in {"demote", "done"} /\ reply = NoReply
      /\ UNCHANGED <<forkMeans, spelled, plan, exported, forkTarget, live, forkNoted>>
  BY DEF MarkReadyCopy, ForkAnswer, ForkInv, ForkVerdictOK
<1>1. ForkShapes' /\ ForkPlanOK' /\ ForkCopiesOK'
  BY <1>0, DecidingKeeps DEF FromReserve, FromNodes, FromEdges, FromSources, FromImport, FromVerify
<1>2. ForkPhaseOK'
  BY <1>0, DecidedPhase
<1>3. CopyIsWhole'
  BY <1>0, VerifiedCopyIsWhole, SameCopyFacts
<1>4. forkRow' \in {"none", "creating", "partial", "ready"}
  BY DEF MarkReadyCopy, Moves, ForkInv, ForkVerdictOK
<1>5. \/ /\ forkRow' = "ready" /\ forkPc' = "done"
         /\ reply' = [status |-> "ok", observed |-> "ready", confirmed |-> TRUE]
      \/ forkPc' = "demote" /\ reply' = NoReply
  BY <1>0 DEF MarkReadyCopy, Moves, ForkAnswer
<1>6. AnswerIsTrue' /\ reply.status' \in {"none", "ok", "partial", "rejected"}
      /\ reply.confirmed' \in BOOLEAN
  <2>1. CASE /\ forkRow' = "ready" /\ forkPc' = "done"
             /\ reply' = [status |-> "ok", observed |-> "ready", confirmed |-> TRUE]
    BY <2>1 DEF AnswerIsTrue
  <2>2. CASE reply' = NoReply
    BY <2>2 DEF NoReply, AnswerIsTrue
  <2> QED BY <1>5, <2>1, <2>2
<1>7. ForkVerdictOK'
  BY <1>0, <1>3, <1>4, <1>5, <1>6 DEF ForkInv, ForkVerdictOK, ForkPcs
<1> QED BY <1>1, <1>2, <1>7 DEF ForkInv

LEMMA DemoteStep == ForkInv /\ DemoteCopy => ForkInv'
<1> SUFFICES ASSUME ForkInv, DemoteCopy PROVE ForkInv'
  OBVIOUS
<1>0. /\ forkPc = "demote" /\ forkPc' = "done"
      /\ UNCHANGED <<forkMeans, spelled, plan, exported, forkTarget, live, forkNoted>>
  BY DEF DemoteCopy, ForkAnswer
<1>1. ForkShapes' /\ ForkPlanOK' /\ ForkCopiesOK' /\ (CopyIsWhole => CopyIsWhole')
  BY <1>0, DecidingKeeps, SameCopyFacts DEF FromReserve, FromNodes, FromEdges, FromSources, FromImport,
     FromVerify
<1>2. ForkPhaseOK'
  BY <1>0, DecidedPhase
<1>3. /\ forkRow' \in {"none", "creating", "partial", "ready"}
      /\ forkRow' = "ready" => CopyIsWhole'
  BY <1>1 DEF DemoteCopy, Moves, ForkInv, ForkVerdictOK
<1>4. /\ reply'.status = "partial" /\ reply'.confirmed \in BOOLEAN
      /\ reply'.confirmed = TRUE => forkRow' = "partial"
  <2>1. CASE forkRow' = "partial" /\ ForkAnswer("partial", "partial", TRUE)
    BY <2>1 DEF ForkAnswer
  <2>2. CASE ForkAnswer("partial", "unknown", FALSE)
    BY <2>2 DEF ForkAnswer
  <2>3. CASE ForkAnswer("partial", forkRow', forkRow' = "partial")
    <3> DEFINE sure == forkRow' = "partial"
    <3>1. reply'.status = "partial" /\ reply'.confirmed = sure
      BY <2>3 DEF ForkAnswer
    <3>2. sure \in BOOLEAN /\ (sure = TRUE => forkRow' = "partial")
      BY Zenon
    <3> HIDE DEF sure
    <3> QED BY <3>1, <3>2
  <2>4. \/ forkRow' = "partial" /\ ForkAnswer("partial", "partial", TRUE)
        \/ ForkAnswer("partial", "unknown", FALSE)
        \/ ForkAnswer("partial", forkRow', forkRow' = "partial")
    BY DEF DemoteCopy, Moves
  <2> QED BY <2>1, <2>2, <2>3, <2>4
<1>5. AnswerIsTrue'
  BY <1>4 DEF AnswerIsTrue
<1>6. ForkVerdictOK'
  BY <1>0, <1>3, <1>4, <1>5 DEF ForkInv, ForkVerdictOK, ForkPcs
<1> QED BY <1>1, <1>2, <1>6 DEF ForkInv

LEMMA RewriteStep == ForkInv /\ RewriteText => ForkInv'
<1> SUFFICES ASSUME ForkInv, RewriteText PROVE ForkInv'
  OBVIOUS
<1>0. UNCHANGED <<forkMeans, spelled, forkPc, plan, exported, forkTarget, forkRow, reply, forkNoted>>
  BY DEF RewriteText
<1>1. /\ ForkShapes' /\ ForkPlanOK' /\ ForkCopiesOK' /\ (CopyIsWhole => CopyIsWhole')
      /\ Undone("nodes")' = Undone("nodes") /\ Undone("edges")' = Undone("edges")
      /\ Undone("sources")' = Undone("sources")
      /\ KeepFirst(exported)' = KeepFirst(exported) /\ Leaked' = Leaked
  BY <1>0, DecidingKeeps, SameCopyFacts
<1>2. ForkPhaseOK'
  BY <1>0, <1>1 DEF ForkInv, ForkPhaseOK
<1>3. ForkVerdictOK'
  BY <1>0, <1>1 DEF ForkInv, ForkVerdictOK, AnswerIsTrue
<1> QED BY <1>1, <1>2, <1>3 DEF ForkInv

LEMMA RepairDemotesStep == ForkInv /\ RepairDemotes => ForkInv'
<1> SUFFICES ASSUME ForkInv, RepairDemotes PROVE ForkInv'
  OBVIOUS
<1>0. /\ forkRow = "creating" /\ forkRow' = "partial"
      /\ UNCHANGED <<forkMeans, spelled, forkPc, plan, exported, forkTarget, reply, live, forkNoted>>
  BY DEF RepairDemotes
<1>1. /\ ForkShapes' /\ ForkPlanOK' /\ ForkCopiesOK'
      /\ Undone("nodes")' = Undone("nodes") /\ Undone("edges")' = Undone("edges")
      /\ Undone("sources")' = Undone("sources")
      /\ KeepFirst(exported)' = KeepFirst(exported) /\ Leaked' = Leaked
  BY <1>0, DecidingKeeps, SameCopyFacts
<1>2. ForkPhaseOK'
  BY <1>0, <1>1 DEF ForkInv, ForkPhaseOK
<1>3. ForkVerdictOK'
  BY <1>0, <1>1 DEF ForkInv, ForkVerdictOK, AnswerIsTrue
<1> QED BY <1>1, <1>2, <1>3 DEF ForkInv

LEMMA ForkNext_Inv == ForkInv /\ [ForkNext]_forkVars => ForkInv'
<1> SUFFICES ASSUME ForkInv, [ForkNext]_forkVars PROVE ForkInv'
  OBVIOUS
<1>1. CASE ForkNext
  BY <1>1, RefuseStep, ReadRowsStep, ReadVectorsStep, ReserveStep, CheckTargetStep, PutAnchorStep,
     PutNodesStep, PutEdgesStep, NoteStateStep, PutSourceStep, SourcesCopiedStep, ImportStep,
     VerifyCopyStep, MarkReadyStep, DemoteStep, RewriteStep, RepairDemotesStep DEF ForkNext
<1>2. CASE UNCHANGED forkVars
  <2>0. UNCHANGED <<forkMeans, spelled, forkPc, plan, exported, forkTarget, forkRow, reply, forkNoted>>
    BY <1>2 DEF forkVars
  <2>1. /\ ForkShapes' /\ ForkPlanOK' /\ ForkCopiesOK' /\ (CopyIsWhole => CopyIsWhole')
        /\ Undone("nodes")' = Undone("nodes") /\ Undone("edges")' = Undone("edges")
        /\ Undone("sources")' = Undone("sources")
        /\ KeepFirst(exported)' = KeepFirst(exported) /\ Leaked' = Leaked
    BY <2>0, DecidingKeeps, SameCopyFacts
  <2>2. ForkPhaseOK'
    BY <2>0, <2>1 DEF ForkInv, ForkPhaseOK
  <2>3. ForkVerdictOK'
    BY <2>0, <2>1 DEF ForkInv, ForkVerdictOK, AnswerIsTrue
  <2> QED BY <2>1, <2>2, <2>3 DEF ForkInv
<1> QED BY <1>1, <1>2

\* A fork's phases, rows and answers keep their types.
THEOREM ForkTypeCorrect == ForkSpec => []ForkTypeOK
<1>1. ForkInv => ForkTypeOK
  BY DEF ForkInv, ForkCopiesOK, ForkShapes, ForkPlanOK, ForkVerdictOK, ForkTypeOK
<1> QED BY <1>1, ForkInit_Inv, ForkNext_Inv, PTL DEF ForkSpec

\* A fork (pack/fork.py) leaves nothing hanging, makes only whole copies ready
\* and answers what is true of the stores, whichever rows its reads return,
\* whatever its writes report and however the source changes meanwhile.
THEOREM ForksAreHonest == ForkSpec => []ForkIsHonest
<1>1. ForkInv => ForkIsHonest
  BY CopiesDoNotDangle DEF ForkInv, ForkVerdictOK, CopyIsWhole, ReadyIsWhole, ForkIsHonest
<1> QED BY <1>1, ForkInit_Inv, ForkNext_Inv, PTL DEF ForkSpec
-----------------------------------------------------------------------------
(* The reconciliation: any ids, spaces, types, runs and other writers.     *)

NodesOf == [HealIds -> GraphRows \cup {<<>>}]
DocsOf == [HealIds -> [RecSpaces -> DocRows \cup {<<>>}]]

RecTyped ==
    /\ inGraph \in NodesOf /\ inDocs \in DocsOf
    /\ recSchema \in {"target", "legacy", "fresh"}
    /\ recPc \in {"idle", "graph", "docs", "judge", "apply", "heal", "reported"}
    /\ toHeal \subseteq [way : {"backfill", "promotion"}, id : HealIds]
    /\ recWrites \in 0..MaxRecWrites /\ recRuns \in 0..MaxRecRuns

\* From the diagnosis on every state of the stores is noted.
IsNoted == recPc \in {"apply", "heal", "reported"} => Stores \in sinceDiag

\* A document to be promoted was seen.
PlansFit ==
    recPc \in {"apply", "heal"} =>
        \A t \in toHeal : t.way = "promotion" => \E s \in RecSpaces : sawDocs[t.id][s] # <<>>

\* The row about to be copied was there after the diagnosis, and is what it saw.
BackfillFits(i, r) ==
    /\ r \in GraphRows /\ sawGraph[i].space = r.space /\ sawGraph[i].type = r.type
    /\ \E st \in sinceDiag : st[1][i] = r
PromotionFits(i, r) ==
    /\ r \in GraphRows /\ sawDocs[i][r.space] # <<>>
    /\ \E st \in sinceDiag :
         LET d == st[2][i][r.space]
         IN  d # <<>> /\ d.type = r.type /\ d.body = r.body
RereadFits ==
    reread # <<>> =>
        /\ recPc = "heal" /\ reread.id \in HealIds
        /\ reread.way \in {"backfill", "promotion"}
        /\ reread.way = "backfill" => BackfillFits(reread.id, reread.row)
        /\ reread.way = "promotion" => PromotionFits(reread.id, reread.row)

RecInv == RecTyped /\ IsNoted /\ PlansFit /\ RereadFits

LEMMA RowsAreThere ==
    /\ \A r \in GraphRows : r # <<>>
    /\ \A d \in DocRows : d # <<>>
    /\ \A r \in GraphRows : DocOf(r) \in DocRows
BY DEF GraphRows, DocRows, DocOf

LEMMA RecStarts ==
    ASSUME ReconcileInit
    PROVE  RecInv
BY ReconcileAssumption DEF ReconcileInit, NodesOf, DocsOf, RecInv, RecTyped, IsNoted, PlansFit,
   RereadFits

\* The diagnosis and the ends of a run leave the stores alone.
LEMMA RecReads ==
    ASSUME RecInv, StartDiagnosis \/ StreamGraph \/ StreamDocs \/ FinishRun \/ EndProcess
    PROVE  RecInv'
BY ReconcileAssumption DEF RecInv, RecTyped, IsNoted, PlansFit, RereadFits, Stores, StartDiagnosis,
   StreamGraph, StreamDocs, FinishRun, EndProcess

LEMMA PromotionSaw ==
    ASSUME NEW i, NEW g, Heals(g, Reviewed(i)) = "promotion"
    PROVE  \E s \in RecSpaces : sawDocs[i][s] # <<>>
BY DEF Heals, SpacesOf, Reviewed

LEMMA RecJudges ==
    ASSUME RecInv, JudgeHealable
    PROVE  RecInv'
BY PromotionSaw DEF JudgeHealable, RecInv, RereadFits, RecTyped, IsNoted, PlansFit, Stores

LEMMA RecApplies ==
    ASSUME RecInv, Apply
    PROVE  RecInv'
BY DEF Apply, RecInv, RereadFits, RecTyped, IsNoted, PlansFit, Stores

LEMMA RecReadsAgain ==
    ASSUME RecInv, ReadAgain
    PROVE  RecInv'
<1>1. /\ recPc = "heal" /\ reread = <<>>
      /\ UNCHANGED <<inGraph, inDocs, recSchema, recPc, recRuns, sawGraph, sawDocs, sinceDiag, recWrites>>
  BY DEF ReadAgain
<1>2. PICK t \in NextRows :
         \/ /\ t.way = "backfill" /\ SameNode(t.id)
            /\ reread' = [way |-> t.way, id |-> t.id, row |-> inGraph[t.id]] /\ UNCHANGED toHeal
         \/ /\ t.way = "promotion" /\ SameDocument(t.id)
            /\ reread' = [way |-> t.way, id |-> t.id, row |-> Promoted(t.id)] /\ UNCHANGED toHeal
         \/ /\ toHeal' = toHeal \ {t} /\ UNCHANGED reread
  BY DEF ReadAgain
<1>3. t \in toHeal /\ t.id \in HealIds /\ t.way \in {"backfill", "promotion"}
  BY DEF NextRows, RecInv, RecTyped
<1>4. Stores \in sinceDiag /\ Stores[1] = inGraph /\ Stores[2] = inDocs
  BY <1>1 DEF RecInv, IsNoted, Stores
<1>5. RecTyped' /\ IsNoted' /\ PlansFit'
  BY <1>2, <1>1 DEF RecInv, RecTyped, IsNoted, PlansFit, Stores
<1>6. CASE toHeal' = toHeal \ {t} /\ UNCHANGED reread
  BY <1>1, <1>6, <1>5 DEF RereadFits, RecInv
<1>7. CASE /\ t.way = "backfill" /\ SameNode(t.id)
           /\ reread' = [way |-> t.way, id |-> t.id, row |-> inGraph[t.id]]
  BY <1>3, <1>7, <1>1, <1>4, <1>5 DEF SameNode, RecInv, RecTyped, NodesOf, BackfillFits, RereadFits
<1>8. CASE /\ t.way = "promotion" /\ SameDocument(t.id)
           /\ reread' = [way |-> t.way, id |-> t.id, row |-> Promoted(t.id)]
  <2> DEFINE s == OnlySpace(t.id)
             d == inDocs[t.id][s]
  <2>1. \E u \in RecSpaces : sawDocs[t.id][u] # <<>>
    BY <1>1, <1>3, <1>8 DEF RecInv, PlansFit
  <2>2. s \in RecSpaces /\ sawDocs[t.id][s] # <<>>
    BY <2>1 DEF OnlySpace
  <2>3. d # <<>> /\ d \in DocRows
    BY <1>8, <2>2, <1>3 DEF SameDocument, SpacesOf, RecInv, RecTyped, DocsOf
  <2>4. /\ Promoted(t.id) \in GraphRows
        /\ Promoted(t.id).space = s /\ Promoted(t.id).type = d.type /\ Promoted(t.id).body = d.body
    BY <2>2, <2>3 DEF Promoted, GraphRows, DocRows
  <2>5. PromotionFits(t.id, Promoted(t.id))
    BY <2>2, <2>3, <2>4, <1>4 DEF PromotionFits
  <2>6. reread'.way = "promotion" /\ reread'.id = t.id /\ reread'.row = Promoted(t.id)
    BY <1>8
  <2>7. PromotionFits(reread'.id, reread'.row)
    BY <2>5, <2>6
  <2>8. RereadFits'
    <3>1. PromotionFits(reread.id, reread.row)'
      BY <2>7, <1>1 DEF PromotionFits
    <3>2. recPc' = "heal" /\ t.id \in HealIds
      BY <1>1, <1>3
    <3>3. reread'.way # "backfill" /\ reread'.way \in {"backfill", "promotion"} /\ reread'.id \in HealIds
      BY ONLY <2>6, <3>2
    <3> QED BY ONLY <3>1, <3>2, <3>3, Zenon DEF RereadFits
  <2> QED BY <1>5, <2>8 DEF RecInv
<1> QED BY <1>2, <1>6, <1>7, <1>8

\* A copied row is as the one read again, and nothing that was there changes.
LEMMA CopyFacts ==
    ASSUME RecInv, CopyRow
    PROVE  /\ inGraph' \in NodesOf /\ inDocs' \in DocsOf
           /\ \A i \in HealIds : inGraph'[i] # inGraph[i] =>
                 /\ inGraph[i] = <<>> /\ i = reread.id /\ reread.way = "promotion"
                 /\ inGraph'[i] = reread.row
           /\ \A i \in HealIds, s \in RecSpaces : inDocs'[i][s] # inDocs[i][s] =>
                 /\ inDocs[i][s] = <<>> /\ i = reread.id /\ reread.way = "backfill"
                 /\ s = reread.row.space /\ inDocs'[i][s] = DocOf(reread.row)
<1>1. /\ reread.id \in HealIds /\ reread.way \in {"backfill", "promotion"} /\ reread.row \in GraphRows
  BY DEF CopyRow, RecInv, RereadFits, BackfillFits, PromotionFits
<1>2. CASE /\ reread.way = "backfill" /\ UNCHANGED inGraph
           /\ inDocs' = [inDocs EXCEPT ![reread.id] = CreatedIfAbsent(@, reread.row)]
  BY <1>1, RowsAreThere, <1>2 DEF RecInv, RecTyped, DocsOf, CreatedIfAbsent
<1>3. CASE /\ reread.way = "promotion" /\ UNCHANGED inDocs
           /\ inGraph' = [inGraph EXCEPT ![reread.id] = Inserted(@, reread.row)]
  BY <1>1, <1>3 DEF Inserted, RecInv, RecTyped, NodesOf
<1> QED BY <1>2, <1>3 DEF CopyRow

LEMMA RecCopies ==
    ASSUME RecInv, CopyRow
    PROVE  RecInv'
BY CopyFacts DEF CopyRow, RecInv, RecTyped, IsNoted, Notes, Stores, PlansFit, RereadFits

LEMMA OthersFacts ==
    ASSUME RecInv,
           \E i \in HealIds : OtherWritesGraph(i) \/ \E s \in RecSpaces : OtherWritesDoc(i, s)
    PROVE  /\ inGraph' \in NodesOf /\ inDocs' \in DocsOf
           /\ recWrites' = recWrites + 1 /\ recWrites' \in 1..MaxRecWrites
           /\ recSchema' \in {"target", "legacy", "fresh"} /\ Notes
           /\ UNCHANGED <<recPc, recRuns, promotes, sawGraph, sawDocs, toHeal, reread>>
BY ReconcileAssumption DEF OtherWritesGraph, OtherWritesDoc, RecInv, RecTyped, NodesOf, DocsOf

LEMMA RecOthers ==
    ASSUME RecInv,
           \E i \in HealIds : OtherWritesGraph(i) \/ \E s \in RecSpaces : OtherWritesDoc(i, s)
    PROVE  RecInv'
<1>1. RecTyped'
  BY OthersFacts, ReconcileAssumption DEF RecInv, RecTyped
<1>2. IsNoted'
  BY OthersFacts DEF RecInv, IsNoted, Notes, Stores
<1>3. sinceDiag \subseteq sinceDiag'
  BY OthersFacts DEF Notes
<1>4. RereadFits'
  BY <1>3, OthersFacts DEF RecInv, RereadFits, BackfillFits, PromotionFits
<1>5. PlansFit'
  BY OthersFacts DEF RecInv, PlansFit
<1> QED BY <1>1, <1>2, <1>4, <1>5 DEF RecInv

LEMMA RecPreserved ==
    ASSUME RecInv, [ReconcileNext]_recVars
    PROVE  RecInv'
<1>1. CASE UNCHANGED recVars
  BY <1>1 DEF recVars, RecInv, RecTyped, IsNoted, PlansFit, RereadFits, BackfillFits, PromotionFits, Stores
<1> QED BY <1>1, RecReads, RecJudges, RecApplies, RecReadsAgain, RecCopies, RecOthers DEF ReconcileNext

-----------------------------------------------------------------------------
(* What the tool adds.                                                     *)

OnlyAdds ==
    recWrites' = recWrites =>
        \A i \in HealIds :
           /\ inGraph[i] # <<>> => inGraph'[i] = inGraph[i]
           /\ \A s \in RecSpaces : inDocs[i][s] # <<>> => inDocs'[i][s] = inDocs[i][s]
OnlyWhatIsThere ==
    recWrites' = recWrites =>
        \A i \in HealIds :
           /\ inGraph'[i] # inGraph[i] =>
                /\ sawDocs[i][inGraph'[i].space] # <<>>
                /\ \E st \in sinceDiag :
                     LET d == st[2][i][inGraph'[i].space]
                     IN  d # <<>> /\ d.type = inGraph'[i].type /\ d.body = inGraph'[i].body
           /\ \A s \in RecSpaces : inDocs'[i][s] # inDocs[i][s] =>
                /\ sawGraph[i].space = s /\ sawGraph[i].type = inDocs'[i][s].type
                /\ \E st \in sinceDiag : st[1][i] # <<>> /\ st[1][i].body = inDocs'[i][s].body
                                         /\ st[1][i].space = s

\* Only a copy changes the stores without counting as another's write.
LEMMA OnlyCopies ==
    ASSUME RecInv, [ReconcileNext]_recVars, recWrites' = recWrites
    PROVE  CopyRow \/ (inGraph' = inGraph /\ inDocs' = inDocs)
<1>1. ~\E i \in HealIds : OtherWritesGraph(i) \/ \E s \in RecSpaces : OtherWritesDoc(i, s)
  BY ReconcileAssumption DEF RecInv, RecTyped, OtherWritesGraph, OtherWritesDoc
<1> QED BY <1>1 DEF ReconcileNext, recVars, StartDiagnosis, StreamGraph, StreamDocs, JudgeHealable, Apply,
                   ReadAgain, FinishRun, EndProcess

LEMMA RecAdds == RecInv /\ [ReconcileNext]_recVars => OnlyAdds /\ OnlyWhatIsThere
<1> SUFFICES ASSUME RecInv, [ReconcileNext]_recVars, recWrites' = recWrites
             PROVE  OnlyAdds /\ OnlyWhatIsThere
  BY DEF OnlyAdds, OnlyWhatIsThere
<1>1. CASE inGraph' = inGraph /\ inDocs' = inDocs
  BY <1>1 DEF OnlyAdds, OnlyWhatIsThere
<1>2. CASE CopyRow
  <2>1. OnlyAdds
    BY <1>2, CopyFacts DEF OnlyAdds
  <2>2. ASSUME NEW i \in HealIds, inGraph'[i] # inGraph[i]
        PROVE  PromotionFits(i, inGraph'[i])
    BY <1>2, <2>2, CopyFacts DEF CopyRow, RecInv, RereadFits
  <2>3. ASSUME NEW i \in HealIds, NEW s \in RecSpaces, inDocs'[i][s] # inDocs[i][s]
        PROVE  /\ sawGraph[i].space = s /\ sawGraph[i].type = inDocs'[i][s].type
               /\ \E st \in sinceDiag : st[1][i] # <<>> /\ st[1][i].body = inDocs'[i][s].body
                                        /\ st[1][i].space = s
    BY <1>2, <2>3, CopyFacts, RowsAreThere DEF CopyRow, RecInv, RereadFits, DocOf, BackfillFits
  <2>4. OnlyWhatIsThere
    BY <2>2, <2>3 DEF OnlyWhatIsThere, PromotionFits
  <2> QED BY <2>1, <2>4
<1> QED BY <1>1, <1>2, OnlyCopies

-----------------------------------------------------------------------------
(* A run that nobody disturbs.                                             *)

Ways == {"backfill", "promotion"}
Owed(i) == Heals(inGraph[i], inDocs[i])
InPlan(w, i) == [way |-> w, id |-> i] \in toHeal

\* While no other process has written, the stores are what the run has seen of
\* every id that it still has to heal.
SeesAll ==
    recWrites = 0 =>
      /\ recPc \in {"docs", "judge"} => sawGraph = inGraph
      /\ recPc = "judge" => sawDocs = inDocs
      /\ recPc \in {"apply", "heal"} =>
           \A t \in toHeal : /\ sawGraph[t.id] = inGraph[t.id] /\ sawDocs[t.id] = inDocs[t.id]
                             /\ t.way = Owed(t.id)
      /\ recPc = "apply" => \A i \in HealIds : Owed(i) \in Ways => InPlan(Owed(i), i)
      /\ recPc \in {"heal", "reported"} /\ promotes =>
           \A i \in HealIds : Owed(i) \in Ways => InPlan(Owed(i), i)
      /\ recPc = "reported" => toHeal = {}
      /\ recPc = "heal" /\ reread # <<>> =>
           /\ InPlan(reread.way, reread.id)
           /\ reread.row = IF reread.way = "backfill" THEN inGraph[reread.id] ELSE Promoted(reread.id)

\* The verdict on a node depends on what is there, its types, and what can be
\* copied; reading the documents once more changes none of it.
LEMMA ReviewedIsSame ==
    ASSUME NEW i \in HealIds, sawDocs = inDocs, inDocs \in DocsOf
    PROVE  Heals(inGraph[i], Reviewed(i)) = Owed(i)
<1> DEFINE r == Reviewed(i)
           docs == inDocs[i]
<1>1. ASSUME NEW s \in RecSpaces
      PROVE  /\ (r[s] = <<>>) <=> (docs[s] = <<>>)
             /\ docs[s] # <<>> => r[s].type = docs[s].type /\ (r[s].usable <=> docs[s].usable)
  BY DEF Reviewed, DocsOf, DocRows
<1>2. SpacesOf(r) = SpacesOf(docs)
  BY <1>1 DEF SpacesOf
<1>3. (\E s \in SpacesOf(docs) : SpacesOf(docs) = {s} /\ r[s].usable)
      <=> (\E s \in SpacesOf(docs) : SpacesOf(docs) = {s} /\ docs[s].usable)
  BY <1>1 DEF SpacesOf
<1>4. (\E s \in SpacesOf(docs) : s # inGraph[i].space \/ r[s].type # inGraph[i].type)
      <=> (\E s \in SpacesOf(docs) : s # inGraph[i].space \/ docs[s].type # inGraph[i].type)
  BY <1>1 DEF SpacesOf
<1> HIDE DEF r, docs
<1>5. Heals(inGraph[i], r) = Heals(inGraph[i], docs)
  BY <1>2, <1>3, <1>4 DEF Heals
<1> QED BY <1>5 DEF Owed, r, docs

\* What a node owes says what may be copied.
LEMMA OwedIsFit ==
    ASSUME NEW i \in HealIds
    PROVE  /\ Owed(i) = "backfill" => inGraph[i] # <<>> /\ SpacesOf(inDocs[i]) = {}
                                       /\ inGraph[i].usable /\ inGraph[i].space # NoSpace
           /\ Owed(i) = "promotion" => inGraph[i] = <<>>
                /\ \E s \in RecSpaces : SpacesOf(inDocs[i]) = {s} /\ inDocs[i][s].usable
           /\ inGraph[i] # <<>> /\ SpacesOf(inDocs[i]) # {} => Owed(i) \notin Ways
BY DEF Owed, Heals, SpacesOf, Ways

\* A node that both stores have is owed no copy.
LEMMA NothingOwed ==
    ASSUME NEW g, NEW docs, g # <<>>, SpacesOf(docs) # {}
    PROVE  Heals(g, docs) \notin Ways
BY DEF Heals, Ways

LEMMA SeesReads ==
    ASSUME RecInv, SeesAll,
           StartDiagnosis \/ StreamGraph \/ StreamDocs \/ FinishRun \/ EndProcess
    PROVE  SeesAll'
BY DEF SeesAll, Owed, InPlan, StartDiagnosis, StreamGraph, StreamDocs, FinishRun, EndProcess

LEMMA SeesJudges ==
    ASSUME RecInv, SeesAll, JudgeHealable
    PROVE  SeesAll'
BY ReviewedIsSame DEF SeesAll, JudgeHealable, Ways, RecInv, RecTyped, Owed, InPlan

LEMMA SeesApplies ==
    ASSUME RecInv, SeesAll, Apply
    PROVE  SeesAll'
BY DEF SeesAll, Apply, RecInv, RereadFits, Owed, RecTyped, InPlan

\* A node that the run still has to heal is as it was seen, so it is not skipped.
LEMMA SeesReadsAgain ==
    ASSUME RecInv, SeesAll, ReadAgain
    PROVE  SeesAll'
<1> SUFFICES ASSUME recWrites = 0
             PROVE  SeesAll'
  BY DEF SeesAll, ReadAgain
<1>1. /\ recPc = "heal" /\ reread = <<>>
      /\ UNCHANGED <<inGraph, inDocs, recPc, sawGraph, sawDocs>>
  BY DEF ReadAgain
<1>2. promotes' <=> promotes
  BY Zenon DEF ReadAgain
<1>3. PICK t \in toHeal :
         \/ /\ t.way = "backfill" /\ SameNode(t.id)
            /\ reread' = [way |-> t.way, id |-> t.id, row |-> inGraph[t.id]] /\ UNCHANGED toHeal
         \/ /\ t.way = "promotion" /\ SameDocument(t.id)
            /\ reread' = [way |-> t.way, id |-> t.id, row |-> Promoted(t.id)] /\ UNCHANGED toHeal
         \/ IF t.way = "backfill" THEN ~SameNode(t.id) ELSE ~SameDocument(t.id)
  BY DEF ReadAgain, NextRows
<1>4. /\ t.id \in HealIds /\ t.way \in Ways /\ t = [way |-> t.way, id |-> t.id]
      /\ sawGraph[t.id] = inGraph[t.id] /\ sawDocs[t.id] = inDocs[t.id] /\ t.way = Owed(t.id)
  BY <1>1 DEF SeesAll, RecInv, RecTyped, Ways
<1>5. t.way = "backfill" => SameNode(t.id)
  BY <1>4, OwedIsFit DEF SameNode
<1>6. t.way = "promotion" => SameDocument(t.id)
  <2> SUFFICES ASSUME t.way = "promotion"
               PROVE  SameDocument(t.id)
    OBVIOUS
  <2>1. PICK s \in RecSpaces : SpacesOf(inDocs[t.id]) = {s} /\ inDocs[t.id][s].usable
    BY <1>4, OwedIsFit
  <2>2. OnlySpace(t.id) \in RecSpaces /\ sawDocs[t.id][OnlySpace(t.id)] # <<>>
    BY <2>1, <1>4 DEF SpacesOf, OnlySpace
  <2>3. OnlySpace(t.id) = s
    BY <2>1, <2>2, <1>4 DEF SpacesOf
  <2> QED BY <2>1, <2>3 DEF SameDocument
<1>7. /\ UNCHANGED toHeal /\ reread'.way = t.way /\ reread'.id = t.id
      /\ reread'.row = IF t.way = "backfill" THEN inGraph[t.id] ELSE Promoted(t.id)
  BY <1>3, <1>4, <1>5, <1>6 DEF Ways
<1>8. /\ \A i \in HealIds : Owed(i)' = Owed(i)
      /\ Promoted(t.id)' = Promoted(t.id)
  BY <1>1 DEF Owed, Promoted, OnlySpace
<1>9. InPlan(reread.way, reread.id)'
  BY <1>4, <1>7 DEF InPlan
<1>10. reread'.row = IF reread'.way = "backfill" THEN inGraph'[reread'.id] ELSE Promoted(reread.id)'
  BY <1>1, <1>7 DEF Promoted, OnlySpace
<1>11. \A u \in toHeal' : u.id \in HealIds
  BY <1>7 DEF RecInv, RecTyped
<1>12. promotes' => \A i \in HealIds : Owed(i)' \in Ways => InPlan(Owed(i), i)'
  BY <1>1, <1>2, <1>7, <1>8 DEF SeesAll, InPlan
<1> QED BY <1>1, <1>7, <1>8, <1>9, <1>10, <1>11, <1>12 DEF SeesAll

LEMMA SeesCopies ==
    ASSUME RecInv, SeesAll, CopyRow
    PROVE  SeesAll'
<1> SUFFICES ASSUME recWrites = 0
             PROVE  SeesAll'
  BY DEF SeesAll, CopyRow
<1>1. /\ recPc = "heal" /\ reread # <<>> /\ reread' = <<>>
      /\ toHeal' = {t \in toHeal : t.way # reread.way \/ t.id # reread.id}
      /\ UNCHANGED <<recPc, sawGraph, sawDocs>>
  BY DEF CopyRow
<1>2. promotes' <=> promotes
  BY Zenon DEF CopyRow
<1>0. PICK h \in HealIds : h = reread.id
  BY <1>1 DEF RecInv, RereadFits
<1>3. /\ h \in HealIds /\ reread.way \in Ways /\ reread.way = Owed(h)
      /\ sawDocs[h] = inDocs[h]
      /\ reread.row = IF reread.way = "backfill" THEN inGraph[h] ELSE Promoted(h)
      /\ reread.row \in GraphRows
  BY <1>0, <1>1 DEF SeesAll, InPlan, RecInv, RereadFits, Ways, BackfillFits, PromotionFits
<1>4. \A i \in HealIds : i # h => inGraph'[i] = inGraph[i] /\ inDocs'[i] = inDocs[i]
  BY CopyFacts, <1>0, <1>3 DEF CopyRow, RecInv, RecTyped, NodesOf, DocsOf
<1>5. Owed(h)' \notin Ways
  <2>1. CASE reread.way = "backfill"
    <3>1. inGraph[h] \in GraphRows /\ SpacesOf(inDocs[h]) = {} /\ inGraph[h].space # NoSpace
      BY <1>3, <2>1, OwedIsFit
    <3>2. inGraph[h].space \in RecSpaces /\ inDocs[h][inGraph[h].space] = <<>>
      BY <3>1 DEF GraphRows, SpacesOf
    <3>3. inDocs' = [inDocs EXCEPT ![h] = CreatedIfAbsent(@, reread.row)] /\ inGraph' = inGraph
      BY <2>1, <1>0 DEF CopyRow
    <3>4. inDocs'[h] = [inDocs[h] EXCEPT ![inGraph[h].space] = DocOf(inGraph[h])]
      BY <1>3, <2>1, <3>2, <3>3 DEF CreatedIfAbsent, RecInv, RecTyped, DocsOf
    <3>5. inDocs'[h][inGraph[h].space] = DocOf(inGraph[h])
      BY <1>3, <3>2, <3>4 DEF RecInv, RecTyped, DocsOf
    <3>6. SpacesOf(inDocs'[h]) # {} /\ inGraph'[h] # <<>>
      BY <3>1, <3>2, <3>3, <3>5, RowsAreThere DEF SpacesOf
    <3>7. Heals(inGraph'[h], inDocs'[h]) \notin Ways
      BY <3>6, NothingOwed
    <3> QED BY <3>7 DEF Owed
  <2>2. CASE reread.way = "promotion"
    BY <1>3, <2>2, OwedIsFit, <1>0, RowsAreThere, NothingOwed DEF CopyRow, Inserted, RecInv,
       RecTyped, NodesOf, Owed
  <2> QED BY <1>3, <2>1, <2>2 DEF Ways
<1>6. \A i \in HealIds : i # h => Owed(i)' = Owed(i)
  BY <1>4 DEF Owed
<1>7. ASSUME NEW t \in toHeal'
      PROVE  t \in toHeal /\ t.id \in HealIds /\ t.id # h
  BY <1>1, <1>7, <1>0, <1>3 DEF SeesAll, RecInv, RecTyped
<1>8. ASSUME NEW i \in HealIds, Owed(i)' \in Ways, InPlan(Owed(i), i)
      PROVE  InPlan(Owed(i), i)'
  BY <1>5, <1>6, <1>8, <1>0, <1>1 DEF InPlan
<1>9. promotes' => \A i \in HealIds : Owed(i)' \in Ways => InPlan(Owed(i), i)'
  BY <1>1, <1>2, <1>5, <1>6, <1>8 DEF SeesAll
<1>10. \A t \in toHeal' : /\ sawGraph'[t.id] = inGraph'[t.id] /\ sawDocs'[t.id] = inDocs'[t.id]
                          /\ t.way = Owed(t.id)'
  BY <1>1, <1>4, <1>6, <1>7 DEF SeesAll
<1> QED BY <1>1, <1>9, <1>10 DEF SeesAll

LEMMA SeesPreserved ==
    ASSUME RecInv, SeesAll, [ReconcileNext]_recVars
    PROVE  SeesAll'
<1>1. CASE UNCHANGED recVars
  BY <1>1 DEF recVars, SeesAll, Owed, InPlan, Promoted, OnlySpace
<1>2. ASSUME \E i \in HealIds : OtherWritesGraph(i) \/ \E s \in RecSpaces : OtherWritesDoc(i, s)
      PROVE  SeesAll'
  BY <1>2, OthersFacts DEF SeesAll
<1>3. CASE StartDiagnosis \/ StreamGraph \/ StreamDocs \/ FinishRun \/ EndProcess
  BY <1>3, SeesReads
<1>4. CASE JudgeHealable \/ Apply \/ ReadAgain \/ CopyRow
  BY <1>4, SeesJudges, SeesApplies, SeesReadsAgain, SeesCopies
<1> QED BY <1>1, <1>2, <1>3, <1>4, Zenon DEF ReconcileNext

ReconcileInv == RecInv /\ SeesAll /\ promotes \in BOOLEAN

LEMMA RecInvHolds == ReconcileSpec => []ReconcileInv
<1>1. ReconcileInit => ReconcileInv
  BY RecStarts DEF ReconcileInit, SeesAll, ReconcileInv
<1>2. ReconcileInv /\ [ReconcileNext]_recVars => ReconcileInv'
  <2>1. promotes \in BOOLEAN /\ [ReconcileNext]_recVars => promotes' \in BOOLEAN
    <3>1. StartDiagnosis => promotes' \in BOOLEAN
      BY Zenon DEF StartDiagnosis
    <3>2. StreamGraph \/ StreamDocs => promotes' = promotes
      BY Zenon DEF StreamGraph, StreamDocs
    <3>6. JudgeHealable => promotes' = promotes
      BY DEF JudgeHealable
    <3>7. Apply => promotes' = promotes
      BY Zenon DEF Apply
    <3>4. ReadAgain \/ CopyRow \/ FinishRun => promotes' = promotes
      BY Zenon DEF ReadAgain, CopyRow, FinishRun
    <3>5. EndProcess \/ UNCHANGED recVars => promotes' = promotes
      BY Zenon DEF EndProcess, recVars
    <3>3. ASSUME NEW i \in HealIds, OtherWritesGraph(i) \/ \E s \in RecSpaces : OtherWritesDoc(i, s)
          PROVE  promotes' = promotes
      BY <3>3, Zenon DEF OtherWritesGraph, OtherWritesDoc
    <3> QED BY <3>1, <3>2, <3>3, <3>4, <3>5, <3>6, <3>7, Zenon DEF ReconcileNext
  <2> QED BY <2>1, RecPreserved, SeesPreserved DEF ReconcileInv
<1> QED BY <1>1, <1>2, PTL DEF ReconcileSpec

LEMMA RecInvGives == ReconcileInv => ReconcileTypeOK /\ HealsAll
<1> SUFFICES ASSUME ReconcileInv
             PROVE  ReconcileTypeOK /\ HealsAll
  OBVIOUS
<1>1. ReconcileTypeOK
  BY DEF ReconcileInv, RecInv, RecTyped, ReconcileTypeOK, NodesOf, DocsOf
<1>2. ASSUME recPc = "reported", promotes, recWrites = 0, NEW i \in HealIds
      PROVE  Heals(inGraph[i], inDocs[i]) \notin Ways
  BY <1>2 DEF ReconcileInv, SeesAll, Owed, InPlan
<1> QED BY <1>1, <1>2 DEF HealsAll, Ways

\* The reconciliation keeps its types.
THEOREM ReconcileTypeCorrect == ReconcileSpec => []ReconcileTypeOK
BY RecInvHolds, RecInvGives, PTL

\* A run that nobody disturbs leaves nothing to heal (reconcile_doc_graph_nodes.py).
THEOREM UndisturbedRunsHealAll == ReconcileSpec => []HealsAll
BY RecInvHolds, RecInvGives, PTL

\* The tool only adds, and only what is there.
THEOREM ReconcilingAdds == ReconcileSpec => AddsOnly /\ AddsWhatIsThere
<1>1. ReconcileInv /\ [ReconcileNext]_recVars => [OnlyAdds]_recVars /\ [OnlyWhatIsThere]_recVars
  BY RecAdds DEF ReconcileInv
<1>2. AddsOnly <=> [][OnlyAdds]_recVars
  BY PTL DEF AddsOnly, OnlyAdds
<1>3. AddsWhatIsThere <=> [][OnlyWhatIsThere]_recVars
  BY PTL DEF AddsWhatIsThere, OnlyWhatIsThere
<1> QED BY <1>1, <1>2, <1>3, RecInvHolds, PTL DEF ReconcileSpec
-----------------------------------------------------------------------------
(* Backups: any files, writers, runs and losses of power.                  *)

Pages == [1 .. 2 -> Nat]
Copies == [BFiles -> Pages]

\* What the files hold: whole unless a journal tells how to make it whole.
FilesHold ==
    /\ liveDb \in Copies /\ rotten \subseteq Sqlite /\ fileWriter \subseteq Honest
    /\ hot \subseteq Sqlite \ Wal /\ hot \subseteq Honest
    /\ \A f \in BFiles : liveDb[f][1] >= 1 /\ liveDb[f][2] >= 1
                         /\ (f \notin hot => liveDb[f][1] = liveDb[f][2])

\* The lock is the backup's exactly while it captures.
LockHolds ==
    /\ locked \in {"nobody", "writer", "backup"}
    /\ bk.at = "capture" <=> locked = "backup"
    /\ fileWriter # {} => locked = "writer"

RunTyped ==
    /\ bk = [at |-> bk.at, todo |-> bk.todo, busy |-> bk.busy, pinned |-> bk.pinned, pin |-> bk.pin,
             copy |-> bk.copy, from |-> bk.from, result |-> bk.result]
    /\ bk.at \in {"none", "capture", "finish", "checked", "flushed", "published", "over"}
    /\ bk.todo \subseteq BFiles /\ bk.busy \subseteq bk.todo /\ bk.pinned \subseteq Wal
    /\ bk.pin \in Copies /\ bk.copy \in Copies /\ bk.from \in Copies
    /\ bk.result \in {"none", "success", "published", "refused", "failed"}
    /\ bk.at # "over" => bk.result = "none"
    /\ bk.at # "capture" => bk.todo = {}
    /\ bk.at \notin {"capture", "finish"} => bk.pinned = {}
    /\ bk.at \in {"checked", "flushed", "published"} => rotten = {}

\* A copy is of the moment the lock was taken, or later for the unlocked files.
Aligned(f, c, start) ==
    /\ c[1] = c[2] /\ c[1] >= 1 /\ (f \in Honest => c = start) /\ c[1] >= start[1]

AsOfStart ==
    bk.at = "capture" =>
      /\ \A f \in BFiles : /\ f \in Honest => Recovered(f) = bk.from[f]
                           /\ Recovered(f)[1] >= bk.from[f][1]
      /\ \A f \in bk.busy \cap Sqlite : f \notin hot

CopiesAlign ==
    /\ \A f \in bk.pinned : Aligned(f, bk.pin[f], bk.from[f])
    /\ bk.at \in {"capture", "finish", "checked", "flushed", "published"} =>
         \A f \in Sqlite \ (bk.todo \cup bk.pinned) : Aligned(f, bk.copy[f], bk.from[f])

IsSet(s) ==
    /\ s = [id |-> s.id, copy |-> s.copy, manifest |-> s.manifest, from |-> s.from,
            flushed |-> s.flushed, durable |-> s.durable, harmed |-> s.harmed]
    /\ s.id \in Nat /\ s.id <= backups /\ rotten = {} /\ s.flushed = TRUE
    /\ \A f \in Sqlite : Aligned(f, s.manifest[f], s.from[f])
    /\ s.harmed \in BOOLEAN /\ (s.harmed = FALSE => s.copy = s.manifest)
    /\ losses = 0 => s.harmed = FALSE

\* Nothing has been published by the last run.
Unpublished ==
    bk.at \in {"capture", "finish", "checked", "flushed"} \/ bk.result \in {"refused", "failed"}

SetsHold ==
    /\ backups \in Nat /\ losses \in Nat
    /\ \A s \in sets : IsSet(s)
    /\ Unpublished => \A s \in sets : s.id # backups
    /\ bk.at = "published" => \E s \in sets : s.id = backups
    /\ bk.result = "success" => \E s \in sets : s.id = backups /\ s.durable = TRUE

BackupInv == FilesHold /\ LockHolds /\ RunTyped /\ AsOfStart /\ CopiesAlign /\ SetsHold

LEMMA EmptyCopies == Empty \in Pages /\ NoCopy \in Copies /\ NoBackup.pinned = {}
BY DEF Empty, NoCopy, Pages, Copies, NoBackup

LEMMA RecoveredFacts ==
    ASSUME FilesHold, NEW f \in BFiles
    PROVE  /\ Recovered(f) \in Pages /\ Recovered(f)[1] = Recovered(f)[2]
           /\ Recovered(f)[1] \in Nat /\ Recovered(f)[1] >= 1
           /\ f \notin hot => Recovered(f) = liveDb[f]
BY DEF FilesHold, Copies, Pages, Recovered

\* A transaction adds a commit to what its file, once recovered, holds.
LEMMA CommitFacts ==
    ASSUME FilesHold, NEW f \in BFiles, CommitWrite(f)
    PROVE  /\ liveDb' \in Copies /\ hot' = hot \ {f}
           /\ liveDb'[f][1] = Recovered(f)[1] + 1 /\ liveDb'[f][2] = Recovered(f)[2] + 1
           /\ Recovered(f)' = liveDb'[f]
           /\ \A g \in BFiles : g # f => liveDb'[g] = liveDb[g] /\ Recovered(g)' = Recovered(g)
<1> DEFINE page == [k \in 1 .. 2 |-> Recovered(f)[k] + 1]
<1>1. liveDb' = [liveDb EXCEPT ![f] = page] /\ hot' = hot \ {f}
  BY DEF CommitWrite
<1>2. Recovered(f) \in Pages
  BY RecoveredFacts
<1>3. page \in Pages /\ page[1] = Recovered(f)[1] + 1 /\ page[2] = Recovered(f)[2] + 1
  BY <1>2 DEF Pages
<1> HIDE DEF page
<1>4. liveDb' \in Copies /\ liveDb'[f] = page
  BY <1>1, <1>3 DEF FilesHold, Copies
<1>5. \A g \in BFiles : g # f => liveDb'[g] = liveDb[g]
  BY <1>1 DEF FilesHold, Copies
<1>6. Recovered(f)' = liveDb'[f]
  BY <1>1 DEF Recovered
<1>7. \A g \in BFiles : g # f => Recovered(g)' = Recovered(g)
  BY <1>1, <1>5 DEF Recovered
<1> QED BY <1>1, <1>3, <1>4, <1>5, <1>6, <1>7

LEMMA FilesAfterCommit ==
    ASSUME FilesHold, NEW f \in BFiles, CommitWrite(f),
           rotten' = rotten, fileWriter' \subseteq Honest
    PROVE  FilesHold'
BY RecoveredFacts, CommitFacts DEF FilesHold

\* The service does not touch the run nor the sets.
LEMMA RunStays ==
    ASSUME BackupInv, UNCHANGED <<bk, sets, backups, losses, rotten>>
    PROVE  RunTyped' /\ CopiesAlign' /\ SetsHold'
BY DEF BackupInv, RunTyped, CopiesAlign, Aligned, IsSet, SetsHold, Unpublished

LEMMA ServiceSteps ==
    ASSUME BackupInv,
           StartOperation \/ \E f \in BFiles : WriteDataFile(f) \/ WriterDies(f) \/ WriteUnlocked(f)
    PROVE  BackupInv'
<1>1. CASE StartOperation
  BY <1>1, RunStays DEF StartOperation, BackupInv, FilesHold, LockHolds, AsOfStart
<1>2. ASSUME NEW f \in BFiles, WriteDataFile(f)
      PROVE  BackupInv'
  BY <1>2, RunStays, FilesAfterCommit DEF WriteDataFile, boundVars, BackupInv, FilesHold, LockHolds,
     AsOfStart
<1>3. ASSUME NEW f \in BFiles, WriterDies(f)
      PROVE  BackupInv'
  <2>1. RunTyped' /\ CopiesAlign' /\ SetsHold'
    BY <1>3, RunStays DEF WriterDies, boundVars
  <2>2. FilesHold'
    <3>1. CASE UNCHANGED <<liveDb, hot>>
      BY <1>3, <3>1 DEF WriterDies, BackupInv, FilesHold
    <3>2. CASE ~UNCHANGED <<liveDb, hot>>
      <4>1. /\ f \in Sqlite \ (Wal \cup hot) /\ hot' = hot \cup {f} /\ f \in Honest
            /\ liveDb' = [liveDb EXCEPT ![f][1] = @ + 1]
            /\ rotten' = rotten /\ fileWriter' = {}
        BY <1>3, <3>2 DEF WriterDies, BackupInv, FilesHold
      <4> DEFINE page == [liveDb[f] EXCEPT ![1] = @ + 1]
      <4>2. liveDb[f] \in [1 .. 2 -> Nat]
        BY DEF BackupInv, FilesHold, Copies, Pages
      <4>3. page \in Pages /\ page[1] = liveDb[f][1] + 1 /\ page[2] = liveDb[f][2]
        BY <4>2 DEF Pages
      <4>8. liveDb' = [liveDb EXCEPT ![f] = page]
        BY <4>1 DEF BackupInv, FilesHold, Copies
      <4> HIDE DEF page
      <4>4. liveDb' \in Copies /\ liveDb'[f] = page
        BY <4>8, <4>3 DEF BackupInv, FilesHold, Copies
      <4>5. liveDb'[f][1] = liveDb[f][1] + 1 /\ liveDb'[f][2] = liveDb[f][2]
        BY <4>3, <4>4
      <4>6. \A g \in BFiles : g # f => liveDb'[g] = liveDb[g]
        BY <4>1 DEF BackupInv, FilesHold, Copies
      <4>7. \A g \in BFiles : /\ liveDb'[g][1] >= 1 /\ liveDb'[g][2] >= 1
                              /\ g \notin hot' => liveDb'[g][1] = liveDb'[g][2]
        BY <4>1, <4>2, <4>5, <4>6 DEF BackupInv, FilesHold
      <4> QED BY <4>1, <4>4, <4>7 DEF BackupInv, FilesHold
    <3> QED BY <3>1, <3>2
  <2>3. bk.at # "capture"
    BY <1>3 DEF WriterDies, BackupInv, LockHolds
  <2>4. LockHolds'
    BY <1>3, <2>3 DEF WriterDies, BackupInv, LockHolds
  <2>5. AsOfStart'
    BY <1>3, <2>3 DEF WriterDies, AsOfStart
  <2> QED BY <2>1, <2>2, <2>4, <2>5 DEF BackupInv
<1>4. ASSUME NEW f \in BFiles, WriteUnlocked(f)
      PROVE  BackupInv'
  <2>1. RunTyped' /\ CopiesAlign' /\ SetsHold'
    BY <1>4, RunStays DEF WriteUnlocked
  <2>2. FilesHold' /\ FilesHold /\ CommitWrite(f) /\ f \notin Honest
    BY <1>4, FilesAfterCommit DEF WriteUnlocked, BackupInv, FilesHold, Honest
  <2>3. LockHolds'
    BY <1>4 DEF WriteUnlocked, BackupInv, LockHolds
  <2>4. ASSUME bk'.at = "capture", NEW g \in BFiles
        PROVE  /\ g \in Honest => Recovered(g)' = bk'.from[g]
               /\ Recovered(g)'[1] >= bk'.from[g][1]
    <3>1. bk' = bk /\ bk.at = "capture"
      BY <1>4, <2>4 DEF WriteUnlocked
    <3>2. CASE g # f
      BY <2>2, <3>1, <3>2, CommitFacts DEF BackupInv, AsOfStart
    <3>3. CASE g = f
      BY <2>2, <3>1, CommitFacts, RecoveredFacts, <3>3 DEF BackupInv, AsOfStart, RunTyped, Copies,
         Pages
    <3> QED BY <3>2, <3>3
  <2>5. bk' = bk /\ hot' \subseteq hot
    BY <1>4, <2>2, CommitFacts DEF WriteUnlocked
  <2>6. AsOfStart'
    BY <2>4, <2>5 DEF BackupInv, AsOfStart
  <2> QED BY <2>1, <2>2, <2>3, <2>6 DEF BackupInv
<1> QED BY <1>1, <1>2, <1>3, <1>4

\* Nothing is in a page but its two halves.
LEMMA SamePages ==
    ASSUME NEW c \in Pages, NEW d \in Pages, c[1] = d[1], c[2] = d[2]
    PROVE  c = d
BY DEF Pages

LEMMA FilesStay ==
    ASSUME FilesHold, UNCHANGED storeVars
    PROVE  FilesHold' /\ \A f \in BFiles : Recovered(f)' = Recovered(f)
BY DEF FilesHold, storeVars, Recovered

\* The sets are as they were, and so is what the last run says of them.
LEMMA SetsStay ==
    ASSUME BackupInv, UNCHANGED <<sets, backups, losses, rotten>>,
           Unpublished' => Unpublished, bk'.at # "published", bk'.result # "success"
    PROVE  SetsHold'
BY DEF IsSet, BackupInv, SetsHold

LEMMA TakeLockStep ==
    ASSUME BackupInv, TakeLock
    PROVE  BackupInv'
<1> DEFINE start == [f \in BFiles |-> Recovered(f)]
<1>1. bk' = [at |-> "capture", todo |-> BFiles, busy |-> {}, pinned |-> {}, pin |-> NoCopy,
             copy |-> NoCopy, from |-> start, result |-> "none"]
  BY DEF TakeLock, NoBackup
<1>2. FilesHold' /\ \A f \in BFiles : Recovered(f)' = Recovered(f)
  BY FilesStay DEF TakeLock, BackupInv
<1>3. start \in Copies /\ \A f \in BFiles : start[f] = Recovered(f)
  BY RecoveredFacts DEF Copies, BackupInv
<1> HIDE DEF start
<1>4. /\ bk'.at = "capture" /\ bk'.todo = BFiles /\ bk'.busy = {} /\ bk'.pinned = {}
      /\ bk'.from = start /\ bk'.result = "none"
  BY <1>1
<1>5. RunTyped'
  BY <1>1, <1>3, EmptyCopies DEF RunTyped
<1>6. LockHolds'
  BY <1>4 DEF TakeLock, BackupInv, LockHolds, storeVars
<1>7. AsOfStart'
  BY <1>2, <1>3, RecoveredFacts, <1>4 DEF BackupInv, AsOfStart
<1>8. CopiesAlign'
  BY <1>4 DEF CopiesAlign, Sqlite
<1>9. SetsHold'
  BY <1>4 DEF TakeLock, storeVars, boundVars, BackupInv, SetsHold, IsSet
<1> QED BY <1>2, <1>5, <1>6, <1>7, <1>8, <1>9 DEF BackupInv

\* A file in WAL mode holds a commit; its snapshot is of the moment of the lock.
LEMMA PinFileStep ==
    ASSUME BackupInv, NEW f \in BFiles, PinFile(f)
    PROVE  BackupInv'
<1>1. /\ bk.at = "capture" /\ bk.busy = {} /\ f \in bk.todo /\ f \in Wal
      /\ UNCHANGED storeVars /\ UNCHANGED <<locked, sets, backups>> /\ UNCHANGED boundVars
  BY DEF PinFile
<1>2. bk' = [at |-> bk.at, todo |-> bk.todo \ {f}, busy |-> bk.busy, pinned |-> bk.pinned \cup {f},
             pin |-> [bk.pin EXCEPT ![f] = liveDb[f]], copy |-> bk.copy, from |-> bk.from,
             result |-> bk.result]
  BY DEF PinFile, BackupInv, RunTyped
<1>3. FilesHold' /\ \A g \in BFiles : Recovered(g)' = Recovered(g)
  BY <1>1, FilesStay DEF BackupInv
<1>4. liveDb[f] \in Pages /\ liveDb[f] = Recovered(f)
  BY <1>1, RecoveredFacts DEF BackupInv, FilesHold, Copies
<1>5. /\ bk'.at = bk.at /\ bk'.todo = bk.todo \ {f} /\ bk'.busy = {} /\ bk'.pinned = bk.pinned \cup {f}
      /\ bk'.pin = [bk.pin EXCEPT ![f] = liveDb[f]] /\ bk'.copy = bk.copy /\ bk'.from = bk.from
      /\ bk'.result = bk.result
  BY <1>1, <1>2
<1>6. bk'.pin \in Copies /\ bk'.pin[f] = liveDb[f] /\ \A g \in BFiles : g # f => bk'.pin[g] = bk.pin[g]
  BY <1>4, <1>5 DEF BackupInv, RunTyped, Copies
<1>7. RunTyped'
  BY <1>2, <1>1, <1>5, <1>6 DEF BackupInv, RunTyped
<1>8. LockHolds'
  BY <1>1, <1>5 DEF BackupInv, LockHolds, storeVars
<1>9. AsOfStart'
  BY <1>1, <1>3, <1>5 DEF BackupInv, AsOfStart
<1>10. Aligned(f, liveDb[f], bk.from[f])
  BY <1>1, <1>4, RecoveredFacts DEF BackupInv, AsOfStart, Aligned
<1>11. CopiesAlign'
  BY <1>5, BackupAssumption, <1>6, <1>10, <1>1 DEF BackupInv, RunTyped, CopiesAlign, Aligned
<1>12. SetsHold'
  BY <1>1, <1>5, SetsStay DEF storeVars, boundVars, Unpublished, BackupInv, RunTyped
<1> QED BY <1>3, <1>7, <1>8, <1>9, <1>11, <1>12 DEF BackupInv

\* A journal is rolled back before the copy begins.
LEMMA StartCopyStep ==
    ASSUME BackupInv, NEW f \in BFiles, StartCopy(f)
    PROVE  BackupInv'
<1>1. /\ bk.at = "capture" /\ bk.busy = {} /\ f \in bk.todo /\ f \notin Wal
      /\ liveDb' = [liveDb EXCEPT ![f] = IF f \in Sqlite THEN Opened(f) ELSE @]
      /\ hot' = hot \ {f}
      /\ UNCHANGED <<rotten, fileWriter, locked, sets, backups, ops, unlockedWrites, losses>>
  BY DEF StartCopy, boundVars
<1> DEFINE half == [Empty EXCEPT ![1] = liveDb'[f][1]]
<1>2. bk' = [at |-> bk.at, todo |-> bk.todo, busy |-> {f}, pinned |-> bk.pinned, pin |-> bk.pin,
             copy |-> [bk.copy EXCEPT ![f] = half], from |-> bk.from, result |-> bk.result]
  BY DEF StartCopy, BackupInv, RunTyped
<1>3. Recovered(f) \in Pages /\ FilesHold
  BY RecoveredFacts DEF BackupInv
<1>4. liveDb'[f] = Recovered(f) /\ liveDb' \in Copies
  BY <1>1, <1>3 DEF FilesHold, Copies, Opened, Recovered
<1>5. \A g \in BFiles : g # f => liveDb'[g] = liveDb[g] /\ Recovered(g)' = Recovered(g)
  BY <1>1, <1>3 DEF FilesHold, Copies, Recovered
<1>6. Recovered(f)' = Recovered(f)
  BY <1>1, <1>4 DEF Recovered
<1>7. FilesHold'
  BY <1>1, <1>3, <1>4, <1>5, RecoveredFacts DEF FilesHold
<1>8. half \in Pages
  BY <1>3, <1>4 DEF Pages, Empty
<1> HIDE DEF half
<1>9. /\ bk'.at = bk.at /\ bk'.todo = bk.todo /\ bk'.busy = {f} /\ bk'.pinned = bk.pinned
      /\ bk'.pin = bk.pin /\ bk'.copy = [bk.copy EXCEPT ![f] = half] /\ bk'.from = bk.from
      /\ bk'.result = bk.result
  BY <1>2
<1>10. bk'.copy \in Copies /\ \A g \in BFiles : g # f => bk'.copy[g] = bk.copy[g]
  BY <1>8, <1>9 DEF BackupInv, RunTyped, Copies
<1>11. RunTyped'
  BY <1>2, <1>1, <1>9, <1>10 DEF BackupInv, RunTyped
<1>12. LockHolds'
  BY <1>1, <1>9 DEF BackupInv, LockHolds
<1>13. AsOfStart'
  BY <1>1, <1>5, <1>6, <1>9 DEF BackupInv, AsOfStart
<1>14. CopiesAlign'
  BY <1>9, <1>1, <1>10 DEF BackupInv, CopiesAlign, Sqlite, Aligned
<1>15. SetsHold'
  BY <1>1, <1>9, SetsStay DEF Unpublished, BackupInv, RunTyped
<1> QED BY <1>7, <1>11, <1>12, <1>13, <1>14, <1>15 DEF BackupInv

\* The second half is of the commit that the first is of, or the copy starts again.
LEMMA CopyOnStep ==
    ASSUME BackupInv, NEW f \in BFiles, CopyOn(f)
    PROVE  BackupInv'
<1> DEFINE again == f \in Sqlite /\ liveDb[f][1] # bk.copy[f][1]
           page == IF again THEN [Empty EXCEPT ![1] = liveDb[f][1]]
                   ELSE [bk.copy[f] EXCEPT ![2] = liveDb[f][2]]
           waiting == IF again THEN bk.todo ELSE bk.todo \ {f}
           busy == IF again THEN bk.busy ELSE {}
<1>1. /\ f \in bk.busy /\ bk.at = "capture"
      /\ UNCHANGED storeVars /\ UNCHANGED <<locked, sets, backups>> /\ UNCHANGED boundVars
  BY DEF CopyOn, BackupInv, RunTyped
<1>2. bk' = [at |-> bk.at, todo |-> waiting, busy |-> busy, pinned |-> bk.pinned, pin |-> bk.pin,
             copy |-> [bk.copy EXCEPT ![f] = page], from |-> bk.from, result |-> bk.result]
  BY DEF BackupInv, RunTyped, CopyOn, Copies
<1>3. FilesHold' /\ (\A g \in BFiles : Recovered(g)' = Recovered(g)) /\ FilesHold
  BY <1>1, FilesStay DEF BackupInv
<1>4. /\ liveDb[f] \in Pages /\ bk.copy[f] \in Pages
      /\ f \in Sqlite => liveDb[f] = Recovered(f) /\ liveDb[f][1] = liveDb[f][2]
  BY <1>1, <1>3, RecoveredFacts DEF BackupInv, FilesHold, RunTyped, Copies, AsOfStart
<1>5. page \in Pages
  BY <1>4 DEF Pages, Empty
<1>6. f \in Sqlite /\ ~again => page = Recovered(f)
  BY <1>4, <1>5, SamePages DEF Pages
<1>7. waiting \subseteq bk.todo /\ busy \subseteq bk.busy /\ busy \subseteq waiting
      /\ (f \notin waiting => ~again)
  BY <1>1 DEF BackupInv, RunTyped
<1>8. bk.todo \ waiting \subseteq {f}
  OBVIOUS
<1> HIDE DEF again, page, waiting, busy
<1>9. /\ bk'.at = bk.at /\ bk'.todo = waiting /\ bk'.busy = busy /\ bk'.pinned = bk.pinned
      /\ bk'.pin = bk.pin /\ bk'.copy = [bk.copy EXCEPT ![f] = page] /\ bk'.from = bk.from
      /\ bk'.result = bk.result
  BY <1>2
<1>10. bk'.copy \in Copies /\ bk'.copy[f] = page /\ \A g \in BFiles : g # f => bk'.copy[g] = bk.copy[g]
  BY <1>5, <1>9 DEF BackupInv, RunTyped, Copies
<1>11. RunTyped'
  BY <1>2, <1>1, <1>7, <1>9, <1>10 DEF BackupInv, RunTyped
<1>12. LockHolds'
  BY <1>1, <1>9 DEF BackupInv, LockHolds, storeVars
<1>13. AsOfStart'
  BY <1>1, <1>3, <1>7, <1>9 DEF BackupInv, AsOfStart, storeVars
<1>14. f \in Sqlite /\ f \notin waiting => Aligned(f, page, bk.from[f])
  BY <1>1, <1>3, <1>6, <1>7, RecoveredFacts DEF BackupInv, AsOfStart, Aligned
<1>15. CopiesAlign'
  BY <1>9, <1>10, <1>14, <1>8, <1>1 DEF BackupInv, CopiesAlign, Sqlite, Aligned
<1>16. SetsHold'
  BY <1>1, <1>9, SetsStay DEF storeVars, boundVars, Unpublished, BackupInv, RunTyped
<1> QED BY <1>3, <1>11, <1>12, <1>13, <1>15, <1>16 DEF BackupInv

\* Steps that leave the stores, the lock and the copies of the run alone.
LEMMA RunMovesOn ==
    ASSUME BackupInv, UNCHANGED storeVars, NEW at, bk' = [bk EXCEPT !.at = at]
    PROVE  /\ FilesHold'
           /\ bk'.at = at /\ bk'.todo = bk.todo /\ bk'.busy = bk.busy /\ bk'.pinned = bk.pinned
           /\ bk'.pin = bk.pin /\ bk'.copy = bk.copy /\ bk'.from = bk.from /\ bk'.result = bk.result
           /\ bk' = [at |-> bk'.at, todo |-> bk'.todo, busy |-> bk'.busy, pinned |-> bk'.pinned,
                     pin |-> bk'.pin, copy |-> bk'.copy, from |-> bk'.from, result |-> bk'.result]
BY FilesStay DEF BackupInv, RunTyped

LEMMA ReleaseLockStep ==
    ASSUME BackupInv, ReleaseLock
    PROVE  BackupInv'
BY FilesStay, SetsStay DEF ReleaseLock, BackupInv, RunTyped, LockHolds, storeVars, AsOfStart,
   CopiesAlign, Aligned, boundVars, Unpublished

LEMMA CopySnapshotStep ==
    ASSUME BackupInv, NEW f \in BFiles, CopySnapshot(f)
    PROVE  BackupInv'
<1>1. /\ bk.at = "finish" /\ f \in bk.pinned
      /\ UNCHANGED storeVars /\ UNCHANGED <<locked, sets, backups>> /\ UNCHANGED boundVars
  BY DEF CopySnapshot
<1>2. bk' = [at |-> bk.at, todo |-> bk.todo, busy |-> bk.busy, pinned |-> bk.pinned \ {f}, pin |-> bk.pin,
             copy |-> [bk.copy EXCEPT ![f] = bk.pin[f]], from |-> bk.from, result |-> bk.result]
  BY DEF CopySnapshot, SnapshotOf, BackupInv, RunTyped
<1>3. bk.pin[f] \in Pages
  BY DEF BackupInv, RunTyped, Copies
<1>4. /\ bk'.at = bk.at /\ bk'.todo = bk.todo /\ bk'.busy = bk.busy /\ bk'.pinned = bk.pinned \ {f}
      /\ bk'.pin = bk.pin /\ bk'.copy = [bk.copy EXCEPT ![f] = bk.pin[f]] /\ bk'.from = bk.from
      /\ bk'.result = bk.result
  BY <1>2
<1>5. /\ bk'.copy \in Copies /\ bk'.copy[f] = bk.pin[f]
      /\ \A g \in BFiles : g # f => bk'.copy[g] = bk.copy[g]
  BY <1>3, <1>4 DEF BackupInv, RunTyped, Copies
<1>6. FilesHold'
  BY <1>1, FilesStay DEF BackupInv
<1>7. RunTyped'
  BY <1>2, <1>1, <1>4, <1>5 DEF BackupInv, RunTyped
<1>8. LockHolds'
  BY <1>1, <1>4 DEF BackupInv, LockHolds, storeVars
<1>9. AsOfStart'
  BY <1>1, <1>4 DEF AsOfStart
<1>10. CopiesAlign'
  BY <1>4, <1>1, <1>5 DEF BackupInv, CopiesAlign, Sqlite, Aligned
<1>11. SetsHold'
  BY <1>1, <1>4, SetsStay DEF storeVars, boundVars, Unpublished, BackupInv, RunTyped
<1> QED BY <1>6, <1>7, <1>8, <1>9, <1>10, <1>11 DEF BackupInv

\* A run that ends keeps no snapshot and no lock.
LEMMA RunEnds ==
    ASSUME BackupInv, UNCHANGED storeVars,
           bk' = [NoBackup EXCEPT !.at = "over", !.result = bk'.result],
           bk'.result \in {"success", "published", "refused", "failed"},
           locked' = IF bk.at = "capture" THEN "nobody" ELSE locked
    PROVE  /\ FilesHold' /\ RunTyped' /\ LockHolds' /\ AsOfStart' /\ CopiesAlign'
           /\ bk'.at = "over"
BY EmptyCopies, FilesStay DEF NoBackup, RunTyped, BackupInv, LockHolds, storeVars, AsOfStart,
   CopiesAlign

LEMMA CheckStep ==
    ASSUME BackupInv, Check
    PROVE  BackupInv'
<1>1. /\ bk.at = "finish" /\ bk.pinned = {}
      /\ UNCHANGED storeVars /\ UNCHANGED <<locked, sets, backups>> /\ UNCHANGED boundVars
  BY DEF Check
<1>2. CASE \A f \in Sqlite : Sound(f)
  <2>1. bk' = [bk EXCEPT !.at = "checked"]
    BY <1>2 DEF Check
  <2>2. rotten' = {} /\ rotten = {}
    BY <1>1, <1>2 DEF Sound, BackupInv, FilesHold, storeVars
  <2>3. RunTyped' /\ FilesHold'
    BY <1>1, <2>1, <2>2, RunMovesOn DEF BackupInv, RunTyped
  <2>4. LockHolds'
    BY <1>1, <2>1, RunMovesOn DEF BackupInv, LockHolds, storeVars
  <2>5. AsOfStart' /\ CopiesAlign'
    BY <1>1, <2>1, RunMovesOn DEF BackupInv, AsOfStart, CopiesAlign, Aligned
  <2>6. bk'.at = "checked" /\ bk'.result = bk.result
    BY <1>1, <2>1, RunMovesOn
  <2>7. SetsHold'
    BY <1>1, <2>6, SetsStay DEF storeVars, boundVars, Unpublished, BackupInv, RunTyped
  <2> QED BY <2>3, <2>4, <2>5, <2>7 DEF BackupInv
<1>3. CASE ~\A f \in Sqlite : Sound(f)
  BY <1>3, <1>1, RunEnds, SetsStay DEF Check, NoBackup, storeVars, boundVars, Unpublished, BackupInv
<1> QED BY <1>2, <1>3

LEMMA FlushTreeStep ==
    ASSUME BackupInv, FlushTree
    PROVE  BackupInv'
BY RunMovesOn, SetsStay DEF FlushTree, BackupInv, RunTyped, storeVars, LockHolds, AsOfStart,
   CopiesAlign, Aligned, boundVars, Unpublished

LEMMA GiveUpStep ==
    ASSUME BackupInv, GiveUp
    PROVE  BackupInv'
BY RunEnds, SetsStay DEF GiveUp, NoBackup, storeVars, boundVars, Unpublished, BackupInv

\* One rename: what has a name is flushed, checked and aligned.
LEMMA PublishSetStep ==
    ASSUME BackupInv, PublishSet
    PROVE  BackupInv'
<1>0. PICK new : new = [id |-> backups, copy |-> bk.copy, manifest |-> bk.copy, from |-> bk.from,
                        flushed |-> bk.at = "flushed", durable |-> FALSE, harmed |-> FALSE]
  OBVIOUS
<1>1. /\ bk.at = "flushed" /\ bk' = [bk EXCEPT !.at = "published"] /\ sets' = sets \cup {new}
      /\ UNCHANGED storeVars /\ UNCHANGED <<locked, backups>> /\ UNCHANGED boundVars
  BY <1>0 DEF PublishSet, Ready
<1>2. /\ FilesHold' /\ bk'.at = "published" /\ bk'.result = bk.result /\ bk.result = "none"
      /\ bk.pinned = {} /\ bk.todo = {} /\ rotten = {}
  BY <1>1, RunMovesOn DEF BackupInv, RunTyped
<1>3. RunTyped'
  BY <1>1, RunMovesOn DEF BackupInv, RunTyped, storeVars
<1>4. LockHolds'
  BY <1>1, RunMovesOn DEF BackupInv, LockHolds, storeVars
<1>5. AsOfStart' /\ CopiesAlign'
  BY <1>1, RunMovesOn DEF BackupInv, AsOfStart, CopiesAlign, Aligned
<1>6. /\ new.id = backups /\ new.copy = bk.copy /\ new.manifest = bk.copy /\ new.from = bk.from
      /\ new.harmed = FALSE
  BY <1>0
<1>7. new.flushed = TRUE
  BY <1>0, <1>1
<1>8. new = [id |-> new.id, copy |-> new.copy, manifest |-> new.manifest, from |-> new.from,
             flushed |-> new.flushed, durable |-> new.durable, harmed |-> new.harmed]
  BY <1>0
<1>9. \A f \in Sqlite : Aligned(f, bk.copy[f], bk.from[f])
  BY <1>1, <1>2 DEF BackupInv, CopiesAlign
<1>10. IsSet(new)'
  <2>1. backups' = backups /\ losses' = losses /\ rotten' = {} /\ backups \in Nat
    BY <1>1, <1>2 DEF BackupInv, SetsHold, storeVars, boundVars
  <2>2. \A f \in Sqlite : Aligned(f, new.manifest[f], new.from[f])'
    BY <1>6, <1>9 DEF Aligned
  <2>3. new.id \in Nat /\ new.id <= backups'
    BY <2>1, <1>6
  <2> QED BY <2>1, <2>2, <2>3, <1>6, <1>7, <1>8, Zenon DEF IsSet
<1>11. SetsHold'
  BY <1>1, <1>2, <1>6, <1>10 DEF BackupInv, SetsHold, IsSet, storeVars, boundVars, Unpublished
<1> QED BY <1>2, <1>3, <1>4, <1>5, <1>11 DEF BackupInv

LEMMA SetFields ==
    ASSUME NEW s, NEW d,
           s = [id |-> s.id, copy |-> s.copy, manifest |-> s.manifest, from |-> s.from,
                flushed |-> s.flushed, durable |-> s.durable, harmed |-> s.harmed]
    PROVE  [s EXCEPT !.durable = d] =
               [id |-> s.id, copy |-> s.copy, manifest |-> s.manifest, from |-> s.from,
                flushed |-> s.flushed, durable |-> d, harmed |-> s.harmed]
OBVIOUS

LEMMA NameFlushedFacts ==
    ASSUME NEW s, IsSet(s)
    PROVE  /\ NameFlushed(s).durable = TRUE /\ NameFlushed(s).id = s.id
           /\ IsSet(NameFlushed(s))
<1> DEFINE t == NameFlushed(s)
<1>1. t = [id |-> s.id, copy |-> s.copy, manifest |-> s.manifest, from |-> s.from,
           flushed |-> s.flushed, durable |-> TRUE, harmed |-> s.harmed]
  BY SetFields DEF IsSet, NameFlushed
<1>2. /\ t.id = s.id /\ t.copy = s.copy /\ t.manifest = s.manifest /\ t.from = s.from
      /\ t.flushed = s.flushed /\ t.durable = TRUE /\ t.harmed = s.harmed
  BY <1>1
<1> HIDE DEF t
<1>3. IsSet(t)
  BY <1>1, <1>2 DEF IsSet
<1> QED BY <1>2, <1>3 DEF t

LEMMA ConcludeStep ==
    ASSUME BackupInv, Conclude
    PROVE  BackupInv'
<1>1. /\ bk.at = "published" /\ UNCHANGED <<locked, backups, losses>> /\ rotten' = rotten
      /\ UNCHANGED storeVars
  BY DEF Conclude, storeVars, boundVars
<1>2. CASE UNCHANGED sets /\ bk' = [NoBackup EXCEPT !.at = "over", !.result = "published"]
  BY <1>2, <1>1, RunEnds, SetsStay DEF NoBackup, Unpublished, BackupInv
<1>3. CASE /\ sets' = {IF s.id = backups THEN NameFlushed(s) ELSE s : s \in sets}
           /\ bk' = [NoBackup EXCEPT !.at = "over", !.result = "success"]
  <2>1. bk'.result = "success"
    BY <1>3 DEF NoBackup
  <2>2. FilesHold' /\ RunTyped' /\ LockHolds' /\ AsOfStart' /\ CopiesAlign' /\ bk'.at = "over"
    BY <1>1, <1>3, <2>1, RunEnds
  <2>3. \A s \in sets' : IsSet(s)
    BY <1>3, NameFlushedFacts DEF BackupInv, SetsHold
  <2>4. \A s \in sets' : IsSet(s)'
    BY <1>1, <2>3 DEF IsSet
  <2>5. PICK s \in sets : s.id = backups
    BY <1>1 DEF BackupInv, SetsHold
  <2>6. NameFlushed(s) \in sets' /\ NameFlushed(s).id = backups' /\ NameFlushed(s).durable = TRUE
    BY <1>1, <1>3, <2>5, NameFlushedFacts DEF BackupInv, SetsHold
  <2>7. SetsHold'
    BY <1>1, <2>1, <2>2, <2>4, <2>6 DEF BackupInv, SetsHold, Unpublished
  <2> QED BY <2>2, <2>7 DEF BackupInv
<1> QED BY <1>2, <1>3 DEF Conclude

LEMMA SurvivorFacts ==
    ASSUME NEW s, IsSet(s), backups' = backups, losses' = losses + 1, losses \in Nat,
           rotten' = rotten,
           NEW t, t = [s EXCEPT !.copy = IF s.flushed THEN @ ELSE NoCopy, !.durable = TRUE]
    PROVE  IsSet(t)' /\ t.id = s.id /\ t.durable = TRUE
<1>1. s = [id |-> s.id, copy |-> s.copy, manifest |-> s.manifest, from |-> s.from,
           flushed |-> s.flushed, durable |-> s.durable, harmed |-> s.harmed]
  BY DEF IsSet
<1>2. s.flushed = TRUE
  BY Zenon DEF IsSet
<1>3. (IF s.flushed THEN s.copy ELSE NoCopy) = s.copy
  BY <1>2, Zenon
<1>4. t = [s EXCEPT !.copy = s.copy, !.durable = TRUE]
  BY <1>1, <1>3
<1>5. [s EXCEPT !.copy = s.copy, !.durable = TRUE] = [s EXCEPT !.durable = TRUE]
  BY <1>1
<1>6. t = [id |-> s.id, copy |-> s.copy, manifest |-> s.manifest, from |-> s.from,
           flushed |-> s.flushed, durable |-> TRUE, harmed |-> s.harmed]
  BY <1>1, <1>4, <1>5, SetFields
<1>7. /\ t.id = s.id /\ t.copy = s.copy /\ t.manifest = s.manifest /\ t.from = s.from
      /\ t.flushed = s.flushed /\ t.durable = TRUE /\ t.harmed = s.harmed
  BY ONLY <1>6
<1>8. t = [id |-> t.id, copy |-> t.copy, manifest |-> t.manifest, from |-> t.from,
           flushed |-> t.flushed, durable |-> t.durable, harmed |-> t.harmed]
  BY <1>6, <1>7
<1>9. losses' # 0 /\ t.id \in Nat /\ t.id <= backups' /\ rotten' = {}
  BY <1>7 DEF IsSet
<1>10. \A f \in Sqlite : Aligned(f, t.manifest[f], t.from[f])'
  BY <1>7 DEF IsSet, Aligned
<1> QED BY <1>7, <1>8, <1>9, <1>10, Zenon DEF IsSet

LEMMA PowerLossStep ==
    ASSUME BackupInv, PowerLoss
    PROVE  BackupInv'
<1> DEFINE Left(s) == [s EXCEPT !.copy = IF s.flushed THEN @ ELSE NoCopy, !.durable = TRUE]
<1>1. /\ losses' = losses + 1 /\ locked' = "nobody" /\ fileWriter' = {}
      /\ UNCHANGED <<liveDb, hot, rotten, backups>>
  BY DEF PowerLoss
<1>2. PICK gone \in SUBSET {s \in sets : ~s.durable} : sets' = {Left(s) : s \in sets \ gone}
  BY DEF PowerLoss
<1>3. losses \in Nat
  BY DEF BackupInv, SetsHold
<1>4. FilesHold'
  BY <1>1 DEF BackupInv, FilesHold
<1>5. \/ bk' = bk /\ bk.at = "over"
      \/ bk' = NoBackup
  BY DEF PowerLoss
<1>6. \/ bk' = bk /\ bk.at = "over"
      \/ bk' = [at |-> "none", todo |-> {}, busy |-> {}, pinned |-> {}, pin |-> NoCopy,
                copy |-> NoCopy, from |-> NoCopy, result |-> "none"]
  BY <1>5 DEF NoBackup
<1>7. RunTyped'
  BY <1>1, <1>6, EmptyCopies DEF BackupInv, RunTyped
<1>8. LockHolds'
  BY <1>1, <1>6 DEF LockHolds
<1>9. AsOfStart'
  BY <1>6 DEF AsOfStart
<1>10. CopiesAlign'
  BY <1>6 DEF BackupInv, CopiesAlign, Aligned
<1>11. ASSUME NEW t \in sets'
       PROVE  IsSet(t)'
  BY <1>2, <1>1, <1>3, SurvivorFacts DEF BackupInv, SetsHold
<1>12. ASSUME NEW s \in sets, s.durable = TRUE
       PROVE  \E t \in sets' : t.id = s.id /\ t.durable = TRUE
  <2>1. Left(s) \in sets'
    BY <1>2, <1>12
  <2>2. IsSet(s)
    BY DEF BackupInv, SetsHold
  <2>3. Left(s).id = s.id /\ Left(s).durable = TRUE
    BY <2>2, <1>1, <1>3, SurvivorFacts
  <2> QED BY <2>1, <2>3
<1>13. ASSUME NEW t \in sets'
       PROVE  \E s \in sets : s.id = t.id
  <2>1. PICK s \in sets : t = Left(s)
    BY <1>2
  <2>2. IsSet(s)
    BY DEF BackupInv, SetsHold
  <2>3. t.id = s.id
    BY <2>1, <2>2, <1>1, <1>3, SurvivorFacts
  <2> QED BY <2>3
<1> HIDE DEF Left
<1>14. Unpublished' => Unpublished
  BY <1>6 DEF Unpublished
<1>15. bk'.at # "published" /\ (bk'.result = "success" => bk.result = "success")
  BY <1>6
<1>16. SetsHold'
  <2>1. Unpublished' => \A t \in sets' : t.id # backups'
    BY <1>1, <1>13, <1>14 DEF BackupInv, SetsHold
  <2>2. bk'.result = "success" => \E t \in sets' : t.id = backups' /\ t.durable = TRUE
    BY <1>1, <1>12, <1>15 DEF BackupInv, SetsHold
  <2>3. backups' \in Nat /\ losses' \in Nat
    BY <1>1, <1>3 DEF BackupInv, SetsHold
  <2> QED BY <1>11, <1>15, <2>1, <2>2, <2>3 DEF SetsHold
<1> QED BY <1>4, <1>7, <1>8, <1>9, <1>10, <1>16 DEF BackupInv

LEMMA DamageSetStep ==
    ASSUME BackupInv, NEW f \in BFiles, NEW s \in sets, DamageSet(s, f)
    PROVE  BackupInv'
<1>1. PICK bytes : sets' = (sets \ {s}) \cup {[s EXCEPT !.copy[f] = bytes, !.harmed = TRUE]}
  BY DEF DamageSet
<1>2. PICK t : t = [s EXCEPT !.copy[f] = bytes, !.harmed = TRUE]
  OBVIOUS
<1>3. /\ losses' = losses + 1 /\ losses \in Nat /\ UNCHANGED storeVars
      /\ UNCHANGED <<locked, bk, backups>> /\ bk.at = "over"
  BY DEF DamageSet, BackupInv, SetsHold
<1>4. IsSet(s)
  BY DEF BackupInv, SetsHold
<1>5. t = [id |-> s.id, copy |-> t.copy, manifest |-> s.manifest, from |-> s.from,
           flushed |-> s.flushed, durable |-> s.durable, harmed |-> TRUE]
  BY <1>4, <1>2 DEF IsSet
<1>6. /\ t.id = s.id /\ t.manifest = s.manifest /\ t.from = s.from
      /\ t.flushed = s.flushed /\ t.durable = s.durable /\ t.harmed = TRUE
  BY <1>5
<1>7. t = [id |-> t.id, copy |-> t.copy, manifest |-> t.manifest, from |-> t.from,
           flushed |-> t.flushed, durable |-> t.durable, harmed |-> t.harmed]
  BY <1>5, <1>6
<1>8. IsSet(t)'
  <2>1. losses' # 0 /\ t.id \in Nat /\ t.id <= backups' /\ rotten' = {}
    BY <1>3, <1>4, <1>6 DEF IsSet, storeVars
  <2>2. \A g \in Sqlite : Aligned(g, t.manifest[g], t.from[g])'
    BY <1>4, <1>6 DEF IsSet, Aligned
  <2>3. t.flushed = TRUE
    BY <1>4, <1>6, Zenon DEF IsSet
  <2>4. t.harmed \in BOOLEAN /\ ~(t.harmed = FALSE)
    BY <1>6, Zenon
  <2> QED BY <1>7, <2>1, <2>2, <2>3, <2>4, Zenon DEF IsSet
<1>9. \A u \in sets : IsSet(u)'
  BY <1>3 DEF storeVars, BackupInv, SetsHold, IsSet, Aligned
<1>10. SetsHold'
  <2>1. sets' = (sets \ {s}) \cup {t}
    BY <1>1, <1>2
  <2>2. \A u \in sets' : IsSet(u)'
    BY <2>1, <1>8, <1>9
  <2>3. Unpublished' => \A u \in sets' : u.id # backups'
    BY <2>1, <1>3, <1>6 DEF BackupInv, SetsHold, Unpublished
  <2>4. bk'.result = "success" => \E u \in sets' : u.id = backups' /\ u.durable = TRUE
    BY <2>1, <1>3, <1>6 DEF BackupInv, SetsHold
  <2>5. bk'.at # "published" /\ backups' \in Nat /\ losses' \in Nat
    BY <1>3 DEF BackupInv, SetsHold
  <2> QED BY <2>2, <2>3, <2>4, <2>5 DEF SetsHold
<1>11. FilesHold' /\ RunTyped' /\ LockHolds' /\ AsOfStart' /\ CopiesAlign'
  BY <1>3, FilesStay DEF BackupInv, RunTyped, LockHolds, storeVars, AsOfStart, CopiesAlign, Aligned
<1> QED BY <1>10, <1>11 DEF BackupInv

LEMMA BackupStarts ==
    ASSUME BackupInit
    PROVE  BackupInv
<1>1. bk = [at |-> "none", todo |-> {}, busy |-> {}, pinned |-> {}, pin |-> NoCopy,
            copy |-> NoCopy, from |-> NoCopy, result |-> "none"]
  BY DEF BackupInit, NoBackup
<1>2. FilesHold
  BY DEF BackupInit, Copies, Pages, FilesHold
<1>3. RunTyped
  BY <1>1, EmptyCopies DEF RunTyped
<1>4. LockHolds /\ AsOfStart /\ CopiesAlign
  BY <1>1 DEF BackupInit, LockHolds, AsOfStart, CopiesAlign
<1>5. SetsHold
  BY <1>1 DEF BackupInit, SetsHold, Unpublished
<1> QED BY <1>2, <1>3, <1>4, <1>5 DEF BackupInv

LEMMA BackupInvHolds == BackupSpec => []BackupInv
<1>1. BackupInit => BackupInv
  BY BackupStarts
<1>2. BackupInv /\ [BackupNext]_backupVars => BackupInv'
  <2> SUFFICES ASSUME BackupInv, [BackupNext]_backupVars
               PROVE  BackupInv'
    OBVIOUS
  <2>1. CASE UNCHANGED backupVars
    BY <2>1, FilesStay, RunStays DEF backupVars, BackupInv, LockHolds, AsOfStart, storeVars
  <2>2. CASE StartOperation \/ \E f \in BFiles : WriteDataFile(f) \/ WriterDies(f) \/ WriteUnlocked(f)
    BY <2>2, ServiceSteps
  <2>3. CASE TakeLock \/ ReleaseLock \/ Check \/ FlushTree \/ PublishSet \/ Conclude \/ GiveUp \/ PowerLoss
    BY <2>3, TakeLockStep, ReleaseLockStep, CheckStep, FlushTreeStep, PublishSetStep, ConcludeStep,
       GiveUpStep, PowerLossStep
  <2>4. CASE \E f \in BFiles : \/ PinFile(f) \/ StartCopy(f) \/ CopyOn(f) \/ CopySnapshot(f)
                               \/ \E s \in sets : DamageSet(s, f)
    BY <2>4, PinFileStep, StartCopyStep, CopyOnStep, CopySnapshotStep, DamageSetStep
  <2> QED BY <2>1, <2>2, <2>3, <2>4 DEF BackupNext
<1> QED BY <1>1, <1>2, PTL DEF BackupSpec

LEMMA BackupInvGives == BackupInv => BackupTypeOK /\ BackupIsSound
<1> SUFFICES ASSUME BackupInv
             PROVE  BackupTypeOK /\ BackupIsSound
  OBVIOUS
<1>1. BackupTypeOK
  BY DEF BackupInv, FilesHold, LockHolds, RunTyped, BackupTypeOK, Copies, Pages
<1>2. \A s \in sets : IsSet(s)
  BY DEF BackupInv, SetsHold
<1>3. ASSUME NEW s \in sets, ~s.harmed \/ BackupVerified(s), NEW f \in Sqlite
      PROVE  /\ f \notin rotten /\ s.copy[f] # Empty
             /\ s.copy[f][1] = s.copy[f][2]
  BY <1>2, <1>3 DEF BackupVerified, SameBytes, Sqlite, IsSet, Empty, Aligned
<1>4. AcceptedIsWhole
  BY <1>3 DEF AcceptedIsWhole
<1>5. SetsAreAligned
  BY <1>2 DEF IsSet, SetsAreAligned, Aligned
<1>6. ReportsAreTrue
  BY <1>2 DEF BackupInv, SetsHold, IsSet, BackupVerified, SameBytes, Unpublished, ReportsAreTrue
<1> QED BY <1>1, <1>4, <1>5, <1>6 DEF BackupIsSound

\* A backup keeps its types (stores/backup.py).
THEOREM BackupTypeCorrect == BackupSpec => []BackupTypeOK
BY BackupInvHolds, BackupInvGives, PTL

\* What is accepted is whole, of one moment, and there (stores/backup.py).
THEOREM BackupsAreSound == BackupSpec => []BackupIsSound
BY BackupInvHolds, BackupInvGives, PTL
-----------------------------------------------------------------------------
(* The migration between stores.                                           *)

CopiedTables == {"docs", "vectors", "users", "tokens"}
MigTables == CopiedTables \cup {"sources"}
RowsOf(t) == IF t = "sources" THEN SourceRows \cup {NoRow} ELSE Rows
Candidates == [id : RowIds, row : SourceRows]

\* The place of a stage in a run.
Place == IF direction = "pg"
         THEN [check |-> 1, docs |-> 2, sources |-> 3, recheck |-> 4, users |-> 5,
               tokens |-> 6, history |-> 7, vectors |-> 8, verify |-> 9]
         ELSE [check |-> 1, docs |-> 2, sources |-> 3, vectors |-> 4, recheck |-> 5,
               users |-> 6, tokens |-> 7, history |-> 8, verify |-> 9]

InstallationOK(inst) ==
    /\ inst = [docs |-> inst.docs, sources |-> inst.sources, vectors |-> inst.vectors,
               users |-> inst.users, tokens |-> inst.tokens, history |-> inst.history]
    /\ \A t \in MigTables : inst[t] \in [RowKeys(t) -> RowsOf(t)]
    /\ inst.history \in Nat

RunOK(run) ==
    /\ run = [at |-> run.at, todo |-> run.todo, read |-> run.read, count |-> run.count,
              failed |-> run.failed, late |-> run.late, known |-> run.known,
              candidate |-> run.candidate, rc |-> run.rc]
    /\ run.read = [docs |-> run.read.docs, vectors |-> run.read.vectors,
                   sources |-> run.read.sources, users |-> run.read.users,
                   tokens |-> run.read.tokens]
    /\ \A t \in MigTables : run.read[t] \in [RowKeys(t) -> RowsOf(t)]
    /\ run.candidate \in {NoRow} \cup Candidates
    /\ run.count \in Nat /\ run.failed \in BOOLEAN
    /\ run.rc \in {"none", "ok", "refused", "failed", "mismatch", "died"}

\* The two installations and the run.
MigShapes ==
    /\ direction \in {"pg", "local"} /\ smRun.at \in 0..9
    /\ InstallationOK(from) /\ InstallationOK(to) /\ RunOK(smRun)
    /\ smRun.at # 0 => smRun.rc = "none"
    /\ \A t \in MigTables : smRun.at = Place[t] => smRun.todo \subseteq RowKeys(t)

\* A run reads a table of credentials once, at its stage, and unless it failed
\* the target holds what it read.
MigReads ==
    /\ \A t \in Keyed :
          /\ smRun.at # 0 /\ smRun.at < Place[t] => \A k \in RowKeys(t) : smRun.read[t][k] = NoRow
          /\ smRun.at = Place[t] => \A k \in RowKeys(t) :
                k \in smRun.todo \/ direction = "local" => smRun.read[t][k] = NoRow
    /\ direction = "pg" \/ smRun.rc = "ok" => smRun.failed = FALSE
    /\ smRun.failed = FALSE => \A t \in Keyed : \A k \in RowKeys(t) :
          smRun.read[t][k] # NoRow => to[t][k] = smRun.read[t][k]
    /\ smRun.at = Place["sources"] /\ direction = "pg" =>
          \A k \in smRun.todo : smRun.read.sources[k] # NoRow

\* Once the second check has passed, every credential is accounted for.
Accounted ==
    smRun.rc = "ok" \/ smRun.at > Place["recheck"] =>
        \A t \in Keyed : \A k \in Has(to, t) :
            k \in smRun.late \cup Exempt \cup smRun.known \/ smRun.read[t][k] # NoRow
MigAccounted == allowed \/ Accounted

\* While nobody else changes them, the target holds only what the source holds,
\* and all of the tables that the run has behind it.
CopiesOnly ==
    /\ \A t \in CopiedTables : \A k \in RowKeys(t) : to[t][k] \in {NoRow, from[t][k]}
    /\ \A k \in RowIds : to.sources[k] # NoRow =>
          from.sources[k] # NoRow /\ to.sources[k].text = from.sources[k].text
StageCopies ==
    /\ smRun.at = Place["sources"] => smRun.read.sources = from.sources
    /\ smRun.at > Place["history"] => smRun.count = from.history
    /\ direction = "local" =>
          /\ \A t \in {"docs", "vectors", "sources"} : smRun.at > Place[t] => KeysArrived(t)
          /\ \A t \in Keyed : smRun.at > Place[t] /\ smRun.failed = FALSE => KeysArrived(t)
          /\ \A t \in {"docs", "vectors"} : smRun.at = Place[t] =>
                Has(from, t) \ smRun.todo \subseteq Has(to, t)
          /\ smRun.at = Place["sources"] => \A k \in Has(from, "sources") \ smRun.todo :
                k \in Has(to, "sources") \/ (smRun.candidate # NoRow /\ smRun.candidate.id = k)
    /\ smRun.rc = "ok" =>
          /\ \A t \in MigTables : KeysArrived(t)
          /\ IF direction = "pg" THEN to.history = from.history ELSE to.history >= from.history
MigCopies == touched \/ (CopiesOnly /\ StageCopies)

\* The inductive invariant of the migration.
MigInv == MigShapes /\ HelpersMatch /\ MigReads /\ MigAccounted /\ MigCopies

StageNames == {"check", "docs", "sources", "recheck", "users", "tokens", "history", "vectors",
               "verify"}

LEMMA PlaceFacts ==
    /\ direction = "pg" =>
          /\ Place["check"] = 1 /\ Place["docs"] = 2 /\ Place["sources"] = 3
          /\ Place["recheck"] = 4 /\ Place["users"] = 5 /\ Place["tokens"] = 6
          /\ Place["history"] = 7 /\ Place["vectors"] = 8 /\ Place["verify"] = 9
    /\ direction = "local" =>
          /\ Place["check"] = 1 /\ Place["docs"] = 2 /\ Place["sources"] = 3
          /\ Place["vectors"] = 4 /\ Place["recheck"] = 5 /\ Place["users"] = 6
          /\ Place["tokens"] = 7 /\ Place["history"] = 8 /\ Place["verify"] = 9
BY DEF Place

\* A stage's place is where the run is when it is in the stage.
LEMMA StagesInPlace ==
    ASSUME direction \in {"pg", "local"}
    PROVE  \A n \in 1..9 : \A s \in StageNames : Stages(direction)[n] = s <=> Place[s] = n
BY DEF Stages, StageNames, Place

LEMMA StagesAreNamed ==
    ASSUME direction \in {"pg", "local"}
    PROVE  /\ \A n \in 1..9 : Stages(direction)[n] \in StageNames
           /\ Len(Stages(direction)) = 9
BY DEF Stages, StageNames

LEMMA StageIsPlace ==
    ASSUME direction \in {"pg", "local"}, smRun.at \in 0..9
    PROVE  /\ \A s \in StageNames : Stage = s <=> smRun.at = Place[s]
           /\ \A s \in StageNames : Place[s] \in 1..9
BY PlaceFacts, StagesInPlace DEF Stage, StageNames

LEMMA KeysOfTables ==
    /\ RowKeys("docs") = RowIds /\ RowKeys("sources") = RowIds /\ RowKeys("vectors") = RowIds
    /\ RowKeys("users") = Users /\ RowKeys("tokens") = Tokens
BY DEF RowKeys

LEMMA TablesOfRun == DOMAIN NoRowRead = MigTables /\ Keyed \subseteq CopiedTables
                     /\ CopiedTables \subseteq MigTables /\ Keyed = {"users", "tokens"}
BY DEF NoRowRead, MigTables, CopiedTables, Keyed

\* The rows are none of the values that stand for something else.
LEMMA RowsAreRows ==
    /\ \A x \in Contents : x # NoRow /\ x \in Rows
    /\ NoRow \in Rows
    /\ \A t, h : [text |-> t, helper |-> h] \in SourceRows => [text |-> t, helper |-> h] # NoRow
    /\ \A x \in Candidates : x # NoRow
BY StoreMigrationAssumption DEF Rows, Candidates

\* The rows of the table that a run enters are its work.
LEMMA EnteredRun ==
    ASSUME NEW run, RunOK(run), InstallationOK(from), direction \in {"pg", "local"}, NEW n \in 1..9
    PROVE  /\ RunOK(Enter(run, n))
           /\ Enter(run, n).at = n
           /\ \A t \in MigTables : n = Place[t] => Enter(run, n).todo = Has(from, t)
           /\ \A t \in CopiedTables : Enter(run, n).read[t] = run.read[t]
           /\ n = Place["sources"] => Enter(run, n).read.sources = from.sources
           /\ Enter(run, n).count = run.count /\ Enter(run, n).failed = run.failed
           /\ Enter(run, n).late = run.late /\ Enter(run, n).known = run.known
           /\ Enter(run, n).candidate = run.candidate /\ Enter(run, n).rc = run.rc
<1> DEFINE rows == IF Stages(direction)[n] = "sources" THEN from.sources ELSE run.read.sources
<1>0. PICK e : e = Enter(run, n)
  OBVIOUS
<1>1. e = [at |-> n, todo |-> Pending(Stages(direction)[n]),
           read |-> [docs |-> run.read.docs, vectors |-> run.read.vectors, sources |-> rows,
                     users |-> run.read.users, tokens |-> run.read.tokens],
           count |-> run.count, failed |-> run.failed, late |-> run.late, known |-> run.known,
           candidate |-> run.candidate, rc |-> run.rc]
  BY <1>0 DEF Enter, RunOK
<1>2. rows \in [RowKeys("sources") -> RowsOf("sources")]
  BY DEF RunOK, InstallationOK, MigTables
<1>3. n = Place["sources"] => rows = from.sources
  BY StagesInPlace DEF StageNames
<1>4. ASSUME NEW t \in MigTables, n = Place[t] PROVE Pending(Stages(direction)[n]) = Has(from, t)
  BY <1>4, StagesInPlace, TablesOfRun DEF StageNames, MigTables, CopiedTables, Pending
<1> HIDE DEF rows
<1>5. /\ e.at = n /\ e.todo = Pending(Stages(direction)[n]) /\ e.count = run.count
      /\ e.failed = run.failed /\ e.late = run.late /\ e.known = run.known
      /\ e.candidate = run.candidate /\ e.rc = run.rc
      /\ \A t \in CopiedTables : e.read[t] = run.read[t]
      /\ e.read.sources = rows
  BY <1>1 DEF CopiedTables
<1>6. RunOK(e)
  BY <1>1, <1>2 DEF RunOK, MigTables, CopiedTables
<1> QED BY <1>0, <1>3, <1>4, <1>5, <1>6

LEMMA InstallationsAreOK == \A inst \in Installations : InstallationOK(inst)
<1> SUFFICES ASSUME NEW inst \in Installations PROVE InstallationOK(inst)
  OBVIOUS
<1>1. inst = [docs |-> inst.docs, sources |-> inst.sources, vectors |-> inst.vectors,
              users |-> inst.users, tokens |-> inst.tokens, history |-> inst.history]
  BY DEF Installations
<1>2. /\ inst.docs \in [RowIds -> Rows] /\ inst.vectors \in [RowIds -> Rows]
      /\ inst.users \in [Users -> Rows] /\ inst.tokens \in [Tokens -> Rows]
      /\ inst.sources \in [RowIds -> SourceRows \cup {NoRow}] /\ inst.history \in Nat
  BY DEF Installations
<1>3. \A t \in MigTables : inst[t] \in [RowKeys(t) -> RowsOf(t)]
  BY <1>2, KeysOfTables DEF MigTables, CopiedTables, RowsOf
<1> HIDE DEF Installations
<1> QED BY <1>1, <1>2, <1>3 DEF InstallationOK

LEMMA FreshRun ==
    /\ RunOK(NotRunning) /\ NotRunning.at = 0 /\ NotRunning.rc = "none"
    /\ NotRunning.failed = FALSE /\ NotRunning.candidate = NoRow /\ NotRunning.todo = {}
    /\ \A t \in MigTables : \A k \in RowKeys(t) : NotRunning.read[t][k] = NoRow
<1>1. PICK r : r = NotRunning
  OBVIOUS
<1>2. PICK d : d = NoRowRead
  OBVIOUS
<1>3. /\ d = [docs |-> d.docs, vectors |-> d.vectors, sources |-> d.sources, users |-> d.users,
              tokens |-> d.tokens]
      /\ \A t \in MigTables : d[t] = [k \in RowKeys(t) |-> NoRow]
  BY <1>2 DEF NoRowRead, MigTables, CopiedTables
<1>4. /\ r = [at |-> r.at, todo |-> r.todo, read |-> r.read, count |-> r.count,
              failed |-> r.failed, late |-> r.late, known |-> r.known,
              candidate |-> r.candidate, rc |-> r.rc]
      /\ r.at = 0 /\ r.rc = "none" /\ r.failed = FALSE /\ r.candidate = NoRow /\ r.read = d
      /\ r.count = 0 /\ r.todo = {}
  <2>1. r = [at |-> 0, todo |-> {}, read |-> d, count |-> 0, failed |-> FALSE,
             late |-> {}, known |-> {}, candidate |-> NoRow, rc |-> "none"]
    BY ONLY <1>1, <1>2, Zenon DEF NotRunning
  <2>2. /\ r.at = 0 /\ r.rc = "none" /\ r.candidate = NoRow /\ r.read = d
        /\ r.count = 0 /\ r.todo = {}
    BY ONLY <2>1
  <2>3. r.failed = FALSE
    BY ONLY <2>1
  <2>4. r = [at |-> r.at, todo |-> r.todo, read |-> r.read, count |-> r.count,
             failed |-> r.failed, late |-> r.late, known |-> r.known,
             candidate |-> r.candidate, rc |-> r.rc]
    BY ONLY <2>1
  <2> QED BY ONLY <2>2, <2>3, <2>4
<1>5. \A t \in MigTables : d[t] \in [RowKeys(t) -> RowsOf(t)]
  <2> SUFFICES ASSUME NEW t \in MigTables PROVE d[t] \in [RowKeys(t) -> RowsOf(t)]
    OBVIOUS
  <2>1. NoRow \in RowsOf(t)
    BY RowsAreRows DEF RowsOf
  <2>2. d[t] = [k \in RowKeys(t) |-> NoRow]
    BY <1>3
  <2> QED BY ONLY <2>1, <2>2
<1>6. r.read = [docs |-> r.read.docs, vectors |-> r.read.vectors, sources |-> r.read.sources,
                users |-> r.read.users, tokens |-> r.read.tokens]
  BY <1>3, <1>4
<1>7. /\ \A t \in MigTables : r.read[t] \in [RowKeys(t) -> RowsOf(t)]
      /\ \A t \in MigTables : \A k \in RowKeys(t) : r.read[t][k] = NoRow
  BY <1>3, <1>4, <1>5
<1>8. /\ r.candidate \in {NoRow} \cup Candidates /\ r.count \in Nat
      /\ r.failed \in BOOLEAN /\ r.rc \in {"none", "ok", "refused", "failed", "mismatch", "died"}
  <2>1. r.rc = "none" /\ r.candidate = NoRow /\ r.count = 0
    BY <1>4
  <2>2. r.failed \in BOOLEAN
    BY <1>4
  <2> QED BY ONLY <2>1, <2>2
<1>9. RunOK(r)
  BY ONLY <1>4, <1>6, <1>7, <1>8 DEF RunOK
<1> QED BY <1>1, <1>4, <1>7, <1>9

\* What a run leaves when it ends.
LEMMA EndedRun ==
    ASSUME RunOK(smRun), NEW rc \in {"ok", "refused", "failed", "mismatch", "died"}
    PROVE  /\ RunOK(End(rc)) /\ End(rc).at = 0 /\ End(rc).rc = rc /\ End(rc).todo = {}
           /\ End(rc).read = smRun.read /\ End(rc).failed = smRun.failed
           /\ End(rc).late = smRun.late /\ End(rc).known = smRun.known
           /\ End(rc).count = smRun.count
<1>1. PICK e : e = End(rc)
  OBVIOUS
<1>2. /\ e = [at |-> e.at, todo |-> e.todo, read |-> e.read, count |-> e.count,
              failed |-> e.failed, late |-> e.late, known |-> e.known,
              candidate |-> e.candidate, rc |-> e.rc]
      /\ e.at = 0 /\ e.todo = {} /\ e.read = smRun.read /\ e.count = smRun.count
      /\ e.failed = smRun.failed /\ e.late = smRun.late /\ e.known = smRun.known
      /\ e.candidate = NoRow /\ e.rc = rc
  BY <1>1 DEF End, RunOK
<1> QED BY <1>1, <1>2 DEF RunOK

\* A run that ends without success claims nothing of the tables; a run that
\* dies may have added rows that have no natural key.
LEMMA EndsBadly ==
    ASSUME MigInv, UNCHANGED <<direction, allowed, from, touched>>,
           InstallationOK(to'), \A t \in MigTables : to'[t] = to[t],
           NEW rc \in {"refused", "failed", "mismatch", "died"}, smRun' = End(rc)
    PROVE  MigInv'
<1> USE DEF MigInv
<1>1. /\ RunOK(smRun') /\ smRun'.at = 0 /\ smRun'.rc = rc /\ rc # "ok"
      /\ smRun'.read = smRun.read /\ smRun'.failed = smRun.failed
  BY EndedRun DEF MigShapes
<1>2. Place' = Place
  BY DEF Place
<1>3. MigShapes'
  BY <1>1, <1>2, PlaceFacts DEF MigShapes, MigTables, CopiedTables
<1>4. HelpersMatch'
  BY DEF HelpersMatch, Has, MigTables
<1>5. MigReads'
  BY StageIsPlace, TablesOfRun, <1>1, <1>2 DEF MigShapes, StageNames, MigReads
<1>6. MigAccounted'
  BY <1>1, StageIsPlace, <1>2 DEF MigShapes, StageNames, Accounted, MigAccounted
<1>7. MigCopies'
  <2>1. CASE touched
    BY <2>1, Zenon DEF MigCopies
  <2>2. CASE CopiesOnly
    <3>1. CopiesOnly'
      BY <2>2 DEF CopiesOnly, MigTables
    <3>2. \A t \in StageNames : Place[t] \in 1..9
      BY StageIsPlace DEF MigShapes
    <3>3. StageCopies'
      BY <1>1, <1>2, <3>2, TablesOfRun DEF StageCopies, StageNames, MigTables, CopiedTables
    <3> QED BY <3>1, <3>3 DEF MigCopies
  <2> QED BY <2>1, <2>2 DEF MigCopies
<1> QED BY <1>3, <1>4, <1>5, <1>6, <1>7

\* A run enters its next stage with the tables as they are.
LEMMA RunGoesOn ==
    ASSUME MigInv, UNCHANGED <<direction, allowed, from, touched>>, smRun.at \in 1..8,
           NEW run, RunOK(run), run.rc = "none", run.failed = smRun.failed,
           \A t \in Keyed : run.read[t] = smRun.read[t],
           smRun' = Enter(run, smRun.at + 1),
           InstallationOK(to'), \A t \in MigTables : to'[t] = to[t],
           smRun.at > Place["recheck"] => run.late = smRun.late /\ run.known = smRun.known,
           allowed \/ (smRun.at = Place["recheck"] =>
                         \A t \in Keyed : \A k \in Has(to, t) : k \in Exempt \cup run.known),
           smRun.at = Place["history"] => run.count = from.history,
           smRun.at > Place["history"] => run.count = smRun.count,
           direction = "local" => \A t \in Keyed : smRun.at # Place[t],
           touched \/ \A t \in {"docs", "vectors", "sources"} :
                         direction = "local" /\ smRun.at = Place[t] => KeysArrived(t)
    PROVE  MigInv'
<1>0. /\ MigShapes /\ HelpersMatch /\ MigReads /\ MigAccounted /\ MigCopies
      /\ direction \in {"pg", "local"} /\ smRun.at + 1 \in 1..9
      /\ InstallationOK(from) /\ InstallationOK(to)
  BY DEF MigInv, MigShapes
<1>1. /\ RunOK(smRun') /\ smRun'.at = smRun.at + 1
      /\ \A t \in MigTables : smRun'.at = Place[t] => smRun'.todo = Has(from, t)
      /\ \A t \in CopiedTables : smRun'.read[t] = run.read[t]
      /\ smRun'.at = Place["sources"] => smRun'.read.sources = from.sources
      /\ smRun'.count = run.count /\ smRun'.failed = run.failed
      /\ smRun'.late = run.late /\ smRun'.known = run.known
      /\ smRun'.candidate = run.candidate /\ smRun'.rc = run.rc
  BY <1>0, EnteredRun
<1>2. Place' = Place /\ Has(to, "users")' = Has(to, "users") /\ Exempt' = Exempt
  BY TablesOfRun DEF Has, Place, Exempt
<1>3. \A t \in Keyed : smRun'.read[t] = smRun.read[t] /\ to'[t] = to[t]
  BY <1>1, TablesOfRun
<1>4. \A t \in StageNames : Place[t] \in 1..9
  BY <1>0, StageIsPlace DEF MigShapes
<1>5. MigShapes'
  BY <1>0, <1>1, <1>2 DEF Has, MigShapes
<1>6. HelpersMatch'
  BY <1>0 DEF HelpersMatch, Has, MigTables
<1>7. MigReads'
  <2>1. ASSUME NEW t \in Keyed
        PROVE  /\ smRun'.at < Place[t] => \A k \in RowKeys(t) : smRun'.read[t][k] = NoRow
               /\ smRun'.at = Place[t] => \A k \in RowKeys(t) : smRun'.read[t][k] = NoRow
    BY <1>4, TablesOfRun, <1>1, <1>0, <1>3 DEF StageNames, MigReads
  <2>2. direction = "pg" => smRun'.failed = FALSE
    BY <1>0, <1>1 DEF MigReads
  <2>3. smRun'.failed = FALSE => \A t \in Keyed : \A k \in RowKeys(t) :
            smRun'.read[t][k] # NoRow => to'[t][k] = smRun'.read[t][k]
    BY <1>0, <1>1, <1>3 DEF MigReads
  <2>4. smRun'.at = Place["sources"] => \A k \in smRun'.todo : smRun'.read.sources[k] # NoRow
    BY <1>1 DEF MigTables, Has
  <2> QED BY <1>1, <1>2, <2>1, <2>2, <2>3, <2>4 DEF MigReads
<1>8. MigAccounted'
  <2>1. CASE allowed
    BY <2>1, Zenon DEF MigAccounted
  <2>2. CASE ~allowed
    BY <1>0, <2>2, <1>1, <1>4, <1>3, <1>2 DEF MigAccounted, StageNames, Has, Accounted
  <2> QED BY <2>1, <2>2
<1>9. MigCopies'
  <2>1. CASE touched
    BY <2>1, Zenon DEF MigCopies
  <2>2. CASE ~touched
    <3>1. CopiesOnly /\ StageCopies /\ \A t \in {"docs", "vectors", "sources"} :
              direction = "local" /\ smRun.at = Place[t] => KeysArrived(t)
      BY <1>0, <2>2, Zenon DEF MigCopies
    <3>2. CopiesOnly'
      BY <3>1 DEF CopiesOnly, MigTables
    <3>3. \A t \in MigTables : KeysArrived(t)' = KeysArrived(t) /\ Place[t] \in 1..9
      BY <1>4 DEF KeysArrived, Has, MigTables, CopiedTables, StageNames
    <3>4. \A t \in {"docs", "vectors", "sources"} :
              direction = "local" /\ smRun'.at > Place[t] => KeysArrived(t)
      BY <1>1, <3>1, <3>3 DEF StageCopies, MigTables, CopiedTables
    <3>5. \A t \in Keyed : direction = "local" /\ smRun'.at > Place[t] /\ smRun'.failed = FALSE
                              => KeysArrived(t)
      BY <1>1, <3>1, <3>3, TablesOfRun DEF StageCopies
    <3>6. smRun'.at > Place["history"] => smRun'.count = from.history
      BY <1>1, <1>4, <3>1 DEF StageCopies, StageNames
    <3>7. \A t \in MigTables : smRun'.at = Place[t] => Has(from, t) \ smRun'.todo = {}
      BY <1>1
    <3>8. smRun'.rc # "ok"
      BY <1>1
    <3>9. StageCopies'
      BY <1>1, <1>2, <3>3, <3>4, <3>5, <3>6, <3>7, <3>8, TablesOfRun
      DEF StageCopies, MigTables, CopiedTables
    <3> QED BY <3>2, <3>9 DEF MigCopies
  <2> QED BY <2>1, <2>2
<1> QED BY <1>5, <1>6, <1>7, <1>8, <1>9 DEF MigInv

LEMMA StartMigrationKeeps == ASSUME MigInv, StartStoreMigration PROVE MigInv'
<1>0. /\ MigShapes /\ HelpersMatch /\ MigReads /\ MigAccounted /\ MigCopies
      /\ direction \in {"pg", "local"} /\ InstallationOK(from) /\ InstallationOK(to)
      /\ UNCHANGED <<direction, allowed, from, to, touched>> /\ smRun' = [NotRunning EXCEPT !.at = 1]
  BY DEF MigInv, MigShapes, StartStoreMigration, fixedVars
<1>1. PICK r : r = NotRunning
  OBVIOUS
<1>2. /\ RunOK(r) /\ r.rc = "none" /\ r.failed = FALSE /\ r.candidate = NoRow /\ r.todo = {}
      /\ \A t \in MigTables : \A k \in RowKeys(t) : r.read[t][k] = NoRow
  BY <1>1, FreshRun
<1>3. PICK e : e = [r EXCEPT !.at = 1]
  OBVIOUS
<1>4. /\ e = [at |-> e.at, todo |-> e.todo, read |-> e.read, count |-> e.count,
              failed |-> e.failed, late |-> e.late, known |-> e.known,
              candidate |-> e.candidate, rc |-> e.rc]
      /\ e.at = 1 /\ e.rc = "none" /\ e.read = r.read /\ e.count = r.count
      /\ e.failed = r.failed /\ e.candidate = NoRow /\ e.todo = {}
  BY <1>2, <1>3 DEF RunOK
<1>5. /\ RunOK(smRun') /\ smRun'.at = 1 /\ smRun'.rc = "none" /\ smRun'.failed = FALSE
      /\ \A t \in MigTables : \A k \in RowKeys(t) : smRun'.read[t][k] = NoRow
  BY <1>0, <1>1, <1>2, <1>3, <1>4 DEF RunOK
<1>6. Place' = Place /\ (\A t \in StageNames : Place[t] \in 1..9) /\ Place["recheck"] > 1
      /\ Place["sources"] > 1 /\ Place["history"] > 1 /\ \A t \in MigTables : Place[t] > 1
  BY <1>0, PlaceFacts DEF Place, StageNames, MigTables, CopiedTables
<1>7. MigShapes'
  BY <1>0, <1>5, <1>6 DEF MigShapes
<1>8. HelpersMatch'
  BY <1>0 DEF HelpersMatch, Has
<1>9. MigReads'
  BY <1>5, <1>6, TablesOfRun DEF MigReads
<1>e. /\ ~(1 > Place["recheck"]) /\ 1 # Place["sources"] /\ ~(1 > Place["history"])
      /\ \A t \in MigTables : 1 # Place[t] /\ ~(1 > Place[t])
  BY <1>6 DEF StageNames, MigTables, CopiedTables
<1>10. Accounted'
  <2>1. smRun'.rc # "ok" /\ ~(smRun'.at > Place'["recheck"])
    BY ONLY <1>5, <1>6, <1>e
  <2> QED BY ONLY <2>1 DEF Accounted
<1>11. MigCopies'
  <2>1. CASE touched
    BY <1>0, <2>1, Zenon DEF MigCopies
  <2>2. CASE CopiesOnly
    <3>1. CopiesOnly'
      BY <1>0, <2>2 DEF CopiesOnly
    <3>2. StageCopies'
      <4>1. /\ smRun'.at # Place'["sources"] /\ ~(smRun'.at > Place'["history"]) /\ smRun'.rc # "ok"
            /\ \A t \in MigTables : smRun'.at # Place'[t] /\ ~(smRun'.at > Place'[t])
        BY ONLY <1>5, <1>6, <1>e
      <4>2. Keyed \subseteq MigTables /\ {"docs", "vectors", "sources"} \subseteq MigTables
        BY TablesOfRun DEF MigTables, CopiedTables
      <4> QED BY ONLY <4>1, <4>2 DEF StageCopies
    <3> QED BY <3>1, <3>2 DEF MigCopies
  <2> QED BY <1>0, <2>1, <2>2 DEF MigCopies
<1> QED BY <1>7, <1>8, <1>9, <1>10, <1>11 DEF MigInv, MigAccounted

\* What is known of a run in a stage.
LEMMA StageFacts ==
    ASSUME MigInv, NEW s \in StageNames, Stage = s
    PROVE  /\ smRun.at = Place[s] /\ smRun.at \in 1..9 /\ smRun.rc = "none" /\ RunOK(smRun)
           /\ InstallationOK(from) /\ InstallationOK(to) /\ direction \in {"pg", "local"}
           /\ s # "verify" => smRun.at \in 1..8
           /\ \A u \in StageNames : Place[u] = Place[s] => u = s
BY StageIsPlace, PlaceFacts DEF MigInv, MigShapes, StageNames

LEMMA CheckCredentialsKeeps == ASSUME MigInv, CheckCredentials PROVE MigInv'
<1>1. /\ Stage \in {"check", "recheck"} /\ UNCHANGED <<direction, allowed, from, to, touched>>
      /\ smRun' = IF TwoLocals THEN End("failed")
                  ELSE IF ~allowed /\ Strangers # {} THEN End("refused")
                  ELSE IF Stage = "recheck" /\ Unfit THEN End("failed")
                  ELSE Enter([smRun EXCEPT !.late = {}, !.known = UNION {Has(from, t) : t \in Keyed}],
                             smRun.at + 1)
  BY DEF CheckCredentials, fixedVars
<1>2. /\ smRun.at = Place[Stage] /\ smRun.at \in 1..8 /\ smRun.rc = "none" /\ RunOK(smRun)
      /\ direction \in {"pg", "local"} /\ InstallationOK(to)
  BY <1>1, StageFacts DEF StageNames
<1>3. CASE smRun' = End("failed") \/ smRun' = End("refused")
  BY <1>3, <1>1, <1>2, EndsBadly
<1>4. CASE /\ smRun' = Enter([smRun EXCEPT !.late = {}, !.known = UNION {Has(from, t) : t \in Keyed}],
                             smRun.at + 1)
           /\ allowed \/ Strangers = {}
  <2> DEFINE theirs == UNION {Has(from, t) : t \in Keyed}
  <2>1. \A t \in Keyed : Has(from, t) \subseteq theirs
    OBVIOUS
  <2> HIDE DEF theirs
  <2>2. PICK r : r = [smRun EXCEPT !.late = {}, !.known = theirs]
    OBVIOUS
  <2>3. /\ r = [at |-> r.at, todo |-> r.todo, read |-> r.read, count |-> r.count,
                failed |-> r.failed, late |-> r.late, known |-> r.known,
                candidate |-> r.candidate, rc |-> r.rc]
        /\ r.rc = smRun.rc /\ r.read = smRun.read /\ r.count = smRun.count
        /\ r.failed = smRun.failed /\ r.candidate = smRun.candidate /\ r.known = theirs
    BY <1>2, <2>2 DEF RunOK
  <2>4. RunOK(r)
    BY ONLY <1>2, <2>3 DEF RunOK
  <2>5. /\ smRun.at < Place["history"] /\ ~(smRun.at > Place["recheck"])
        /\ \A t \in MigTables : smRun.at # Place[t]
    BY <1>2, PlaceFacts, <1>1 DEF MigTables, CopiedTables
  <2>6. allowed \/ \A t \in Keyed : \A k \in Has(to, t) : k \in Exempt \cup r.known
    BY <2>1, <2>3, <1>4 DEF Strangers
  <2>7. smRun' = Enter(r, smRun.at + 1)
    BY <1>4, <2>2 DEF theirs
  <2>8. /\ \A t \in Keyed : smRun.at # Place[t] /\ r.read[t] = smRun.read[t]
        /\ \A t \in {"docs", "vectors", "sources"} : smRun.at # Place[t]
    BY TablesOfRun, <2>3, <2>5 DEF MigTables, CopiedTables
  <2>9. InstallationOK(to') /\ \A t \in MigTables : to'[t] = to[t]
    BY <1>1, <1>2
  <2>10. /\ smRun.at > Place["recheck"] => r.late = smRun.late /\ r.known = smRun.known
         /\ smRun.at = Place["history"] => r.count = from.history
         /\ smRun.at > Place["history"] => r.count = smRun.count
    BY <1>2, <2>3, <2>5
  <2> QED BY <1>1, <1>2, <2>3, <2>4, <2>6, <2>7, <2>8, <2>9, <2>10, RunGoesOn
<1> QED BY <1>1, <1>3, <1>4

LEMMA SkipTableKeeps == ASSUME MigInv, SkipTable PROVE MigInv'
<1>1. /\ Stage \in {"docs", "vectors"} /\ direction = "pg" /\ UNCHANGED <<direction, allowed, from, to, touched>>
      /\ smRun' = Enter([smRun EXCEPT !.read[Stage] = from[Stage]], smRun.at + 1)
  BY DEF SkipTable, SkippedWhenEqual, fixedVars
<1>s. PICK s \in {"docs", "vectors"} : s = Stage
  BY <1>1
<1>2. /\ smRun.at = Place[s] /\ smRun.at \in 1..8 /\ smRun.rc = "none" /\ RunOK(smRun)
      /\ InstallationOK(from) /\ InstallationOK(to)
  BY <1>s, StageFacts DEF StageNames
<1>3. PICK r : r = [smRun EXCEPT !.read[s] = from[s]]
  OBVIOUS
<1>4. /\ r = [at |-> r.at, todo |-> r.todo, read |-> r.read, count |-> r.count,
              failed |-> r.failed, late |-> r.late, known |-> r.known,
              candidate |-> r.candidate, rc |-> r.rc]
      /\ r.rc = smRun.rc /\ r.count = smRun.count /\ r.late = smRun.late
      /\ r.failed = smRun.failed /\ r.candidate = smRun.candidate /\ r.known = smRun.known
      /\ r.read = [smRun.read EXCEPT ![s] = from[s]]
  BY <1>2, <1>3 DEF RunOK
<1>5. /\ r.read = [docs |-> r.read.docs, vectors |-> r.read.vectors,
                   sources |-> r.read.sources, users |-> r.read.users, tokens |-> r.read.tokens]
      /\ r.read[s] = from[s] /\ \A t \in MigTables : t # s => r.read[t] = smRun.read[t]
  BY <1>2, <1>4 DEF RunOK, MigTables, CopiedTables
<1>6. \A t \in MigTables : r.read[t] \in [RowKeys(t) -> RowsOf(t)]
  BY <1>2, <1>5 DEF RunOK, InstallationOK
<1>7. RunOK(r)
  BY ONLY <1>2, <1>4, <1>5, <1>6 DEF RunOK
<1>8. /\ \A t \in Keyed : r.read[t] = smRun.read[t] /\ Place[t] # Place[s]
      /\ Place[s] # Place["recheck"] /\ Place[s] # Place["history"]
  BY <1>1, <1>5, TablesOfRun, PlaceFacts DEF MigTables, CopiedTables
<1>9. smRun' = Enter(r, smRun.at + 1)
  BY <1>1, <1>s, <1>3
<1> QED BY <1>1, <1>2, <1>4, <1>7, <1>8, <1>9, RunGoesOn

LEMMA EndTableKeeps == ASSUME MigInv, EndTable PROVE MigInv'
BY StageFacts, TablesOfRun, RunGoesOn DEF EndTable, fixedVars, StageNames, StageCopies, KeysArrived,
   MigInv, MigCopies

LEMMA EndKeyedKeeps == ASSUME MigInv, EndKeyed PROVE MigInv'
BY TablesOfRun, StageFacts, PlaceFacts, RunGoesOn DEF EndKeyed, fixedVars, StageNames

LEMMA CopyHistoryKeeps == ASSUME MigInv, CopyHistory PROVE MigInv'
<1>1. /\ Stage = "history" /\ UNCHANGED <<direction, allowed, from, touched>>
      /\ \E n \in {0, from.history} :
            \/ to' = [to EXCEPT !.history = @ + n]
               /\ smRun' = Enter([smRun EXCEPT !.count = from.history], smRun.at + 1)
            \/ to' = [to EXCEPT !.history = @ + 1] /\ smRun' = End("died")
  BY DEF CopyHistory, fixedVars
<1>2. /\ smRun.at = Place["history"] /\ smRun.at \in 1..8 /\ smRun.rc = "none" /\ RunOK(smRun)
      /\ InstallationOK(from) /\ InstallationOK(to) /\ direction \in {"pg", "local"}
      /\ \A u \in StageNames : Place[u] = Place["history"] => u = "history"
  BY <1>1, StageFacts DEF StageNames
<1>3. ASSUME NEW n \in Nat, to' = [to EXCEPT !.history = @ + n]
      PROVE  InstallationOK(to') /\ \A t \in MigTables : to'[t] = to[t]
  BY <1>2, <1>3 DEF InstallationOK, MigTables, CopiedTables
<1>4. CASE to' = [to EXCEPT !.history = @ + 1] /\ smRun' = End("died")
  BY <1>1, <1>3, <1>4, EndsBadly
<1>5. ASSUME NEW n \in {0, from.history}, to' = [to EXCEPT !.history = @ + n],
             smRun' = Enter([smRun EXCEPT !.count = from.history], smRun.at + 1)
      PROVE  MigInv'
  <2>0. n \in Nat /\ from.history \in Nat
    BY <1>2 DEF InstallationOK
  <2>1. PICK r : r = [smRun EXCEPT !.count = from.history]
    OBVIOUS
  <2>2. /\ r = [at |-> r.at, todo |-> r.todo, read |-> r.read, count |-> r.count,
                failed |-> r.failed, late |-> r.late, known |-> r.known,
                candidate |-> r.candidate, rc |-> r.rc]
        /\ r.rc = smRun.rc /\ r.read = smRun.read /\ r.count = from.history
        /\ r.late = smRun.late /\ r.known = smRun.known
        /\ r.failed = smRun.failed /\ r.candidate = smRun.candidate
    BY <1>2, <2>1 DEF RunOK
  <2>3. RunOK(r)
    BY ONLY <1>2, <2>0, <2>2 DEF RunOK
  <2>4. /\ smRun.at # Place["recheck"] /\ \A t \in Keyed : smRun.at # Place[t]
        /\ \A t \in {"docs", "vectors", "sources"} : smRun.at # Place[t]
    BY <1>2, TablesOfRun DEF StageNames
  <2>5. InstallationOK(to') /\ \A t \in MigTables : to'[t] = to[t]
    BY <1>3, <1>5, <2>0
  <2>6. smRun' = Enter(r, smRun.at + 1)
    BY <1>5, <2>1
  <2> QED BY <1>1, <1>2, <2>2, <2>3, <2>4, <2>5, <2>6, RunGoesOn
<1> QED BY <1>1, <1>4, <1>5

LEMMA RunDiesKeeps == ASSUME MigInv, RunDies PROVE MigInv'
BY EndsBadly DEF RunDies, fixedVars, MigInv, MigShapes

\* An installation with one row replaced, and a run that has read a row of those
\* that it has to copy.
Replaced(inst, t, k, v) == [inst EXCEPT ![t][k] = v]
ReadRun(t, k, v) == [smRun EXCEPT !.todo = @ \ {k}, !.read[t][k] = v]

\* One row of an installation is replaced.
LEMMA RowReplaced ==
    ASSUME NEW inst, InstallationOK(inst), NEW t \in MigTables, NEW k \in RowKeys(t),
           NEW v \in RowsOf(t), NEW i, i = Replaced(inst, t, k, v)
    PROVE  /\ InstallationOK(i) /\ i.history = inst.history
           /\ \A j \in RowKeys(t) : i[t][j] = IF j = k THEN v ELSE inst[t][j]
           /\ \A u \in MigTables : u # t => i[u] = inst[u]
BY DEF InstallationOK, Replaced, MigTables, CopiedTables

\* A step inside a stage that copies no credentials.
LEMMA StaysInStage ==
    ASSUME MigInv, UNCHANGED <<direction, allowed, from, touched>>,
           smRun.at \in 1..9, \A t \in Keyed : smRun.at # Place[t],
           RunOK(smRun'), smRun'.at = smRun.at, smRun'.rc = smRun.rc, smRun'.failed = smRun.failed,
           smRun'.late = smRun.late, smRun'.known = smRun.known, smRun'.count = smRun.count,
           smRun'.todo \subseteq smRun.todo,
           \A t \in Keyed : smRun'.read[t] = smRun.read[t] /\ to'[t] = to[t],
           smRun.at = Place["sources"] => smRun'.read.sources = smRun.read.sources,
           InstallationOK(to'), HelpersMatch',
           touched \/ (CopiesOnly => CopiesOnly'),
           \A t \in {"docs", "vectors", "sources"} : Has(to, t) \subseteq Has(to, t)',
           \A t \in {"docs", "vectors"} : smRun.at = Place[t] =>
               smRun.todo \ smRun'.todo \subseteq (RowKeys(t) \ Has(from, t)) \cup Has(to, t)',
           smRun.at = Place["sources"] /\ direction = "local" =>
               \A k \in Has(from, "sources") :
                   k \in smRun.todo \ smRun'.todo \/ (smRun.candidate # NoRow /\ smRun.candidate.id = k) =>
                       k \in Has(to, "sources")' \/ (smRun'.candidate # NoRow /\ smRun'.candidate.id = k)
    PROVE  MigInv'
<1>0. /\ MigShapes /\ HelpersMatch /\ MigReads /\ MigAccounted /\ MigCopies
      /\ direction \in {"pg", "local"} /\ InstallationOK(from) /\ InstallationOK(to)
      /\ smRun.rc = "none"
  BY DEF MigInv, MigShapes
<1>2. Place' = Place /\ Exempt' = Exempt
  <2>1. direction' = direction /\ to'["users"] = to["users"]
    BY TablesOfRun
  <2>2. Has(to, "users")' = Has(to, "users")
    BY ONLY <2>1 DEF Has
  <2> QED BY ONLY <2>1, <2>2 DEF Place, Exempt
<1>5. MigShapes'
  BY <1>0, <1>2 DEF MigShapes
<1>7. MigReads'
  BY <1>0, <1>2 DEF MigReads
<1>8. MigAccounted'
  BY <1>2, <1>0 DEF MigAccounted, Has, Accounted
<1>9. MigCopies'
  <2>1. CASE touched
    BY <2>1, Zenon DEF MigCopies
  <2>2. CASE ~touched
    BY <1>0, <2>2, TablesOfRun, <1>2 DEF MigCopies, Has, MigTables, CopiedTables, KeysArrived,
       StageCopies
  <2> QED BY <2>1, <2>2
<1> QED BY <1>5, <1>7, <1>8, <1>9 DEF MigInv

\* A row leaves the rows to copy, and is read.
LEMMA RowRead ==
    ASSUME RunOK(smRun), NEW t \in MigTables, NEW k \in RowKeys(t), NEW v \in RowsOf(t),
           NEW e, e = ReadRun(t, k, v)
    PROVE  /\ RunOK(e) /\ e.at = smRun.at /\ e.rc = smRun.rc /\ e.failed = smRun.failed
           /\ e.late = smRun.late /\ e.known = smRun.known /\ e.count = smRun.count
           /\ e.todo = smRun.todo \ {k} /\ e.candidate = smRun.candidate
           /\ \A j \in RowKeys(t) : e.read[t][j] = IF j = k THEN v ELSE smRun.read[t][j]
           /\ \A u \in MigTables : u # t => e.read[u] = smRun.read[u]
<1>2. PICK d : d = smRun.read
  OBVIOUS
<1>3. PICK f : f = [d EXCEPT ![t][k] = v]
  OBVIOUS
<1>4. PICK rows : rows = [d[t] EXCEPT ![k] = v]
  OBVIOUS
<1>5. /\ d = [docs |-> d.docs, vectors |-> d.vectors, sources |-> d.sources, users |-> d.users,
              tokens |-> d.tokens]
      /\ \A u \in MigTables : d[u] \in [RowKeys(u) -> RowsOf(u)]
  BY <1>2 DEF RunOK
<1>6. rows \in [RowKeys(t) -> RowsOf(t)]
  BY <1>4, <1>5
<1>7. f = [d EXCEPT ![t] = rows]
  BY <1>3, <1>4
<1>8. /\ f = [docs |-> f.docs, vectors |-> f.vectors, sources |-> f.sources, users |-> f.users,
              tokens |-> f.tokens]
      /\ f[t] = rows /\ \A u \in MigTables : u # t => f[u] = d[u]
  BY <1>5, <1>7 DEF MigTables, CopiedTables
<1>9. /\ e = [at |-> e.at, todo |-> e.todo, read |-> e.read, count |-> e.count,
              failed |-> e.failed, late |-> e.late, known |-> e.known,
              candidate |-> e.candidate, rc |-> e.rc]
      /\ e.at = smRun.at /\ e.rc = smRun.rc /\ e.failed = smRun.failed
      /\ e.late = smRun.late /\ e.known = smRun.known /\ e.count = smRun.count
      /\ e.todo = smRun.todo \ {k} /\ e.candidate = smRun.candidate /\ e.read = f
  BY <1>2, <1>3 DEF RunOK, ReadRun
<1>10. \A u \in MigTables : e.read[u] \in [RowKeys(u) -> RowsOf(u)]
  BY <1>5, <1>6, <1>8, <1>9
<1>11. RunOK(e)
  <2>1. /\ e.candidate \in {NoRow} \cup Candidates /\ e.count \in Nat /\ e.failed \in BOOLEAN
        /\ e.rc \in {"none", "ok", "refused", "failed", "mismatch", "died"}
    BY <1>9 DEF RunOK
  <2>2. e.read = [docs |-> e.read.docs, vectors |-> e.read.vectors, sources |-> e.read.sources,
                  users |-> e.read.users, tokens |-> e.read.tokens]
    BY ONLY <1>8, <1>9
  <2> QED BY ONLY <1>9, <1>10, <2>1, <2>2 DEF RunOK
<1>12. \A j \in RowKeys(t) : rows[j] = IF j = k THEN v ELSE d[t][j]
  BY <1>4, <1>5
<1>13. e.read[t] = rows /\ \A u \in MigTables : u # t => e.read[u] = d[u]
  BY <1>8, <1>9
<1> HIDE DEF MigTables
<1> QED BY ONLY <1>2, <1>9, <1>11, <1>12, <1>13

LEMMA CopyTableRowKeeps ==
    ASSUME MigInv, NEW k, CopyTableRow(k) PROVE MigInv'
<1>1. /\ Stage \in {"docs", "vectors"} /\ k \in smRun.todo
      /\ UNCHANGED <<direction, allowed, from, touched>>
      /\ to' = IF from[Stage][k] = NoRow \/ Kept(k) THEN to ELSE [to EXCEPT ![Stage][k] = from[Stage][k]]
      /\ smRun' = [smRun EXCEPT !.todo = @ \ {k}, !.read[Stage][k] = from[Stage][k]]
  BY DEF CopyTableRow, fixedVars
<1>s. PICK s \in {"docs", "vectors"} : s = Stage
  BY <1>1
<1>2. /\ smRun.at = Place[s] /\ smRun.at \in 1..8 /\ smRun.rc = "none" /\ RunOK(smRun)
      /\ InstallationOK(from) /\ InstallationOK(to) /\ direction \in {"pg", "local"}
      /\ \A u \in StageNames : Place[u] = Place[s] => u = s
  BY <1>s, StageFacts DEF StageNames
<1>3. s \in MigTables /\ k \in RowKeys(s) /\ s \notin Keyed /\ s # "sources" /\ smRun.todo \subseteq RowKeys(s)
  BY <1>1, <1>2, TablesOfRun DEF MigInv, MigShapes, MigTables, CopiedTables
<1>4. PICK v \in RowsOf(s) : v = from[s][k]
  BY <1>2, <1>3 DEF InstallationOK
<1>5. /\ RunOK(smRun') /\ smRun'.at = smRun.at /\ smRun'.rc = smRun.rc /\ smRun'.failed = smRun.failed
      /\ smRun'.late = smRun.late /\ smRun'.known = smRun.known /\ smRun'.count = smRun.count
      /\ smRun'.todo = smRun.todo \ {k} /\ smRun'.candidate = smRun.candidate
      /\ \A u \in MigTables : u # s => smRun'.read[u] = smRun.read[u]
  <2>1. PICK e : e = smRun'
    OBVIOUS
  <2>2. e = ReadRun(s, k, v)
    BY <1>1, <1>s, <1>4, <2>1 DEF ReadRun
  <2>3. RunOK(smRun) /\ s \in MigTables /\ k \in RowKeys(s) /\ v \in RowsOf(s)
    BY <1>2, <1>3
  <2>4. /\ RunOK(e) /\ e.at = smRun.at /\ e.rc = smRun.rc /\ e.failed = smRun.failed
        /\ e.late = smRun.late /\ e.known = smRun.known /\ e.count = smRun.count
        /\ e.todo = smRun.todo \ {k} /\ e.candidate = smRun.candidate
        /\ \A j \in RowKeys(s) : e.read[s][j] = IF j = k THEN v ELSE smRun.read[s][j]
        /\ \A u \in MigTables : u # s => e.read[u] = smRun.read[u]
    BY <2>2, <2>3, RowRead
  <2> QED BY ONLY <2>1, <2>4
<1>6. /\ InstallationOK(to') /\ \A u \in MigTables : u # s => to'[u] = to[u]
      /\ \A j \in RowKeys(s) : to'[s][j] = to[s][j] \/ (j = k /\ v # NoRow /\ to'[s][j] = v)
      /\ v # NoRow => to'[s][k] # NoRow
  <2>1. CASE to' = to /\ (v = NoRow \/ Kept(k))
    BY <1>s, <1>2, <2>1 DEF Kept
  <2>2. CASE to' = [to EXCEPT ![s][k] = v] /\ v # NoRow
    <3>1. PICK i : i = to'
      OBVIOUS
    <3>2. /\ InstallationOK(to) /\ s \in MigTables /\ k \in RowKeys(s) /\ v \in RowsOf(s)
          /\ i = Replaced(to, s, k, v)
      BY <1>2, <1>3, <2>2, <3>1 DEF Replaced
    <3>3. /\ InstallationOK(i) /\ \A u \in MigTables : u # s => i[u] = to[u]
          /\ \A j \in RowKeys(s) : i[s][j] = IF j = k THEN v ELSE to[s][j]
      BY <3>2, RowReplaced
    <3> QED BY <1>3, <2>2, <3>1, <3>3
  <2> QED BY <1>1, <1>s, <1>4, <2>1, <2>2
<1>7. HelpersMatch'
  BY <1>3, <1>6 DEF MigTables, MigInv, HelpersMatch, Has
<1>8. CopiesOnly => CopiesOnly'
  BY <1>3, <1>6, <1>4, TablesOfRun, <1>1 DEF MigTables, CopiesOnly
<1>9. \A t \in {"docs", "vectors", "sources"} : Has(to, t) \subseteq Has(to, t)'
  BY <1>6 DEF MigTables, CopiedTables, Has
<1>10. \A t \in {"docs", "vectors"} : smRun.at = Place[t] =>
            smRun.todo \ smRun'.todo \subseteq (RowKeys(t) \ Has(from, t)) \cup Has(to, t)'
  BY <1>5, <1>3, <1>4, <1>6, <1>2 DEF Has, StageNames
<1>11. /\ smRun.at # Place["sources"] /\ \A t \in Keyed : smRun.at # Place[t]
  BY <1>2, TablesOfRun DEF StageNames
<1>12. \A t \in Keyed : smRun'.read[t] = smRun.read[t] /\ to'[t] = to[t]
  BY <1>3, <1>5, <1>6, TablesOfRun
<1>13. smRun.at \in 1..9 /\ InstallationOK(to') /\ (touched \/ (CopiesOnly => CopiesOnly'))
       /\ smRun'.todo \subseteq smRun.todo
  BY <1>2, <1>5, <1>6, <1>8
<1>14. /\ smRun.at = Place["sources"] => smRun'.read.sources = smRun.read.sources
       /\ smRun.at = Place["sources"] /\ direction = "local" =>
               \A j \in Has(from, "sources") :
                   j \in smRun.todo \ smRun'.todo \/ (smRun.candidate # NoRow /\ smRun.candidate.id = j) =>
                       j \in Has(to, "sources")' \/ (smRun'.candidate # NoRow /\ smRun'.candidate.id = j)
  BY <1>11
<1> QED BY <1>1, <1>5, <1>7, <1>9, <1>10, <1>11, <1>12, <1>13, <1>14, StaysInStage

\* A run whose rows to copy, or whose copy of a source, have moved on.
Moved(left, c) == [smRun EXCEPT !.todo = left, !.candidate = c]

LEMMA MovedRun ==
    ASSUME RunOK(smRun), NEW left, NEW c \in {NoRow} \cup Candidates, NEW e, e = Moved(left, c)
    PROVE  /\ RunOK(e) /\ e.at = smRun.at /\ e.rc = smRun.rc /\ e.failed = smRun.failed
           /\ e.late = smRun.late /\ e.known = smRun.known /\ e.count = smRun.count
           /\ e.read = smRun.read /\ e.todo = left /\ e.candidate = c
BY DEF RunOK, Moved

\* What the target claims of a text is the state of a row that agrees with it.
LEMMA HelperStates ==
    ASSUME NEW row, NEW same \in BOOLEAN
    PROVE  HelperState(row, same) \in {NoHelper, Unknown, row.text}
BY DEF HelperState

\* A copied source in the target.
LEMMA SourceCopied ==
    ASSUME MigInv, NEW k \in RowIds, NEW row \in SourceRows, NEW h \in {NoHelper, Unknown, row.text},
           to' = Replaced(to, "sources", k, [text |-> row.text, helper |-> h]), UNCHANGED from
    PROVE  /\ InstallationOK(to') /\ HelpersMatch' /\ (\A u \in CopiedTables : to'[u] = to[u])
           /\ Has(to, "sources") \cup {k} \subseteq Has(to, "sources")'
           /\ from.sources[k] # NoRow /\ from.sources[k].text = row.text /\ CopiesOnly => CopiesOnly'
<1>1. InstallationOK(to) /\ HelpersMatch
  BY DEF MigInv, MigShapes
<1>2. PICK v : v = [text |-> row.text, helper |-> h]
  OBVIOUS
<1>3. v \in SourceRows /\ v # NoRow /\ v.text = row.text /\ v.helper = h
  BY <1>2, StoreMigrationAssumption DEF SourceRows
<1>4. "sources" \in MigTables /\ "sources" \notin CopiedTables /\ RowKeys("sources") = RowIds /\ v \in RowsOf("sources")
  BY <1>3, KeysOfTables DEF MigTables, CopiedTables, RowsOf
<1>5. PICK i : i = to'
  OBVIOUS
<1>6. i = Replaced(to, "sources", k, v)
  BY <1>2, <1>5
<1>7. /\ InstallationOK(i) /\ \A u \in MigTables : u # "sources" => i[u] = to[u]
      /\ \A j \in RowKeys("sources") : i["sources"][j] = IF j = k THEN v ELSE to["sources"][j]
  BY <1>1, <1>4, <1>6, RowReplaced
<1>8. /\ InstallationOK(to') /\ \A u \in CopiedTables : to'[u] = to[u]
      /\ \A j \in RowIds : to'.sources[j] = IF j = k THEN v ELSE to.sources[j]
  BY <1>4, <1>5, <1>7, TablesOfRun
<1>9. HelpersMatch'
  BY StoreMigrationAssumption, KeysOfTables, <1>3, <1>8, <1>1 DEF HelpersMatch, Has
<1>10. Has(to, "sources") \cup {k} \subseteq Has(to, "sources")'
  BY <1>3, <1>8, KeysOfTables DEF Has
<1>11. ASSUME from.sources[k] # NoRow, from.sources[k].text = row.text, CopiesOnly PROVE CopiesOnly'
  BY <1>3, <1>8, <1>11 DEF CopiesOnly
<1> QED BY <1>8, <1>9, <1>10, <1>11

\* What the steps of the sources have in common.
LEMMA SourcesStep ==
    ASSUME MigInv, Stage = "sources", UNCHANGED <<direction, allowed, from, touched>>,
           NEW c \in {NoRow} \cup Candidates, NEW left \in SUBSET smRun.todo, smRun' = Moved(left, c),
           InstallationOK(to'), HelpersMatch', \A u \in CopiedTables : to'[u] = to[u],
           Has(to, "sources") \subseteq Has(to, "sources")',
           touched \/ (CopiesOnly /\ StageCopies => CopiesOnly'),
           direction = "local" =>
               \A k \in Has(from, "sources") :
                   k \in smRun.todo \ left \/ (smRun.candidate # NoRow /\ smRun.candidate.id = k) =>
                       k \in Has(to, "sources")' \/ (c # NoRow /\ c.id = k)
    PROVE  MigInv'
BY StageFacts, MovedRun, TablesOfRun, StaysInStage DEF StageNames, MigInv, MigCopies, Has,
   CopiedTables

LEMMA EnumerateKeeps == ASSUME MigInv, NEW k, Enumerate(k) PROVE MigInv'
<1>1. /\ Stage = "sources" /\ direction = "local" /\ k \in smRun.todo /\ smRun.candidate = NoRow
      /\ from.sources[k] # NoRow /\ UNCHANGED <<direction, allowed, from, to, touched>>
      /\ smRun' = [smRun EXCEPT !.candidate = [id |-> k, row |-> from.sources[k]], !.todo = @ \ {k}]
  BY DEF Enumerate, fixedVars
<1>2. /\ smRun.at = Place["sources"] /\ RunOK(smRun) /\ InstallationOK(from) /\ InstallationOK(to)
      /\ k \in RowIds
  BY <1>1, StageFacts, KeysOfTables DEF StageNames, MigInv, MigShapes, MigTables, CopiedTables
<1>3. PICK c : c = [id |-> k, row |-> from.sources[k]]
  OBVIOUS
<1>4. c \in Candidates /\ c # NoRow /\ c.id = k
  BY <1>1, <1>2, KeysOfTables, <1>3, RowsAreRows DEF InstallationOK, MigTables, CopiedTables,
     RowsOf, Candidates
<1>5. smRun' = Moved(smRun.todo \ {k}, c)
  BY <1>1, <1>2, <1>3 DEF Moved, RunOK
<1>6. HelpersMatch' /\ (CopiesOnly => CopiesOnly') /\ Has(to, "sources")' = Has(to, "sources")
  BY <1>1 DEF MigInv, HelpersMatch, Has, CopiesOnly
<1>7. \A j \in Has(from, "sources") :
          j \in smRun.todo \ (smRun.todo \ {k}) \/ (smRun.candidate # NoRow /\ smRun.candidate.id = j) =>
              j \in Has(to, "sources")' \/ (c # NoRow /\ c.id = j)
  BY <1>1, <1>4
<1>8. smRun.todo \ {k} \in SUBSET smRun.todo /\ c \in {NoRow} \cup Candidates /\ InstallationOK(to')
      /\ \A u \in CopiedTables : to'[u] = to[u]
  BY <1>1, <1>2, <1>4
<1> QED BY <1>1, <1>5, <1>6, <1>7, <1>8, SourcesStep

LEMMA CopyCandidateKeeps == ASSUME MigInv, CopyCandidate PROVE MigInv'
<1>1. /\ Stage = "sources" /\ smRun.candidate # NoRow
      /\ UNCHANGED <<direction, allowed, from, touched>>
      /\ smRun' = [smRun EXCEPT !.candidate = NoRow]
  BY DEF CopyCandidate, fixedVars
<1>2. RunOK(smRun) /\ InstallationOK(from) /\ InstallationOK(to)
  BY <1>1, StageFacts DEF StageNames
<1>3. PICK k \in RowIds : k = smRun.candidate.id
  BY <1>1, <1>2 DEF RunOK, Candidates
<1>4. PICK row : row = from.sources[k]
  OBVIOUS
<1>5. smRun' = Moved(smRun.todo, NoRow)
  BY <1>1, <1>2 DEF Moved, RunOK
<1>6. to' = IF row = NoRow THEN to
            ELSE [to EXCEPT !.sources[k] =
                     [text |-> row.text, helper |-> HelperState(row, row = smRun.candidate.row)]]
  BY <1>3, <1>4 DEF CopyCandidate
<1>7. /\ InstallationOK(to') /\ HelpersMatch' /\ (\A u \in CopiedTables : to'[u] = to[u])
      /\ Has(to, "sources") \subseteq Has(to, "sources")'
      /\ CopiesOnly => CopiesOnly'
      /\ k \in Has(from, "sources") => k \in Has(to, "sources")'
  <2>1. CASE row = NoRow
    BY <1>1, <1>2, <1>4, <1>6, <2>1 DEF MigInv, HelpersMatch, Has, CopiesOnly
  <2>2. CASE row # NoRow
    <3>1. row \in SourceRows
      BY <1>2, <1>3, <1>4, <2>2, KeysOfTables DEF InstallationOK, MigTables, CopiedTables, RowsOf
    <3>2. PICK h \in {NoHelper, Unknown, row.text} : h = HelperState(row, row = smRun.candidate.row)
      BY HelperStates
    <3>3. to' = Replaced(to, "sources", k, [text |-> row.text, helper |-> h])
      BY <1>6, <2>2, <3>2 DEF Replaced
    <3> QED BY <1>1, <1>3, <1>4, <2>2, <3>1, <3>3, SourceCopied
  <2> QED BY <2>1, <2>2
<1>8. \A j \in Has(from, "sources") :
          j \in smRun.todo \ smRun.todo \/ (smRun.candidate # NoRow /\ smRun.candidate.id = j) =>
              j \in Has(to, "sources")' \/ (NoRow # NoRow /\ NoRow.id = j)
  BY <1>3, <1>7
<1>9. smRun.todo \in SUBSET smRun.todo /\ NoRow \in {NoRow} \cup Candidates
  OBVIOUS
<1> QED BY <1>1, <1>5, <1>7, <1>8, <1>9, SourcesStep

LEMMA CopySourceKeeps == ASSUME MigInv, NEW k, CopySource(k) PROVE MigInv'
<1>1. /\ Stage = "sources" /\ direction = "pg" /\ k \in smRun.todo
      /\ UNCHANGED <<direction, allowed, from, touched>>
      /\ smRun' = [smRun EXCEPT !.todo = @ \ {k}]
  BY DEF CopySource, fixedVars
<1>2. RunOK(smRun) /\ InstallationOK(from) /\ InstallationOK(to) /\ smRun.at = Place["sources"]
      /\ k \in RowIds
  BY <1>1, StageFacts, KeysOfTables DEF StageNames, MigInv, MigShapes, MigTables, CopiedTables
<1>3. PICK row : row = smRun.read.sources[k]
  OBVIOUS
<1>4. row \in SourceRows
  BY <1>1, <1>2, <1>3, KeysOfTables DEF MigInv, MigReads, RunOK, MigTables, CopiedTables, RowsOf
<1>5. PICK c \in {NoRow} \cup Candidates : c = smRun.candidate
  BY <1>2 DEF RunOK
<1>6. smRun' = Moved(smRun.todo \ {k}, c)
  BY <1>1, <1>2, <1>5 DEF Moved, RunOK
<1>7. PICK h \in {NoHelper, Unknown, row.text} : h = HelperWritten(k, row)
  BY HelperStates DEF HelperWritten
<1>8. to' = Replaced(to, "sources", k, [text |-> row.text, helper |-> h])
  BY <1>3, <1>7 DEF CopySource, Replaced
<1>9. /\ InstallationOK(to') /\ HelpersMatch' /\ (\A u \in CopiedTables : to'[u] = to[u])
      /\ Has(to, "sources") \subseteq Has(to, "sources")'
      /\ from.sources[k] = row /\ CopiesOnly => CopiesOnly'
  BY <1>4, StoreMigrationAssumption, <1>1, <1>2, <1>8, SourceCopied
<1>10. CopiesOnly /\ StageCopies => CopiesOnly'
  BY <1>2, <1>3, <1>9 DEF StageCopies
<1>11. smRun.todo \ {k} \in SUBSET smRun.todo /\ direction # "local"
  BY <1>1
<1> QED BY <1>1, <1>6, <1>9, <1>10, <1>11, SourcesStep

LEMMA UpsertRowKeeps == ASSUME MigInv, NEW k, UpsertRow(k) PROVE MigInv'
<1>1. /\ Stage \in Keyed /\ direction = "pg" /\ k \in smRun.todo
      /\ UNCHANGED <<direction, allowed, from, touched>>
      /\ IF Refused(Stage, k) THEN UNCHANGED to /\ smRun' = End("failed")
         ELSE /\ to' = IF from[Stage][k] = NoRow THEN to
                       ELSE [to EXCEPT ![Stage][k] = from[Stage][k]]
              /\ smRun' = [smRun EXCEPT !.todo = @ \ {k}, !.read[Stage][k] = from[Stage][k]]
  BY DEF UpsertRow, fixedVars
<1>s. PICK s \in Keyed : s = Stage
  BY <1>1
<1>2. /\ smRun.at = Place[s] /\ smRun.at \in 1..9 /\ smRun.rc = "none" /\ RunOK(smRun)
      /\ InstallationOK(from) /\ InstallationOK(to)
      /\ \A u \in StageNames : Place[u] = Place[s] => u = s
  BY <1>s, StageFacts, TablesOfRun DEF StageNames
<1>3. /\ s \in MigTables /\ s \in CopiedTables /\ s # "sources" /\ s \in StageNames
      /\ k \in RowKeys(s) /\ smRun.todo \subseteq RowKeys(s)
  BY <1>1, <1>s, <1>2, TablesOfRun DEF MigInv, MigShapes, StageNames, CopiedTables
<1>4. CASE UNCHANGED to /\ smRun' = End("failed")
  BY <1>2, <1>4, <1>1, EndsBadly
<1>5. CASE /\ to' = IF from[Stage][k] = NoRow THEN to ELSE [to EXCEPT ![Stage][k] = from[Stage][k]]
           /\ smRun' = [smRun EXCEPT !.todo = @ \ {k}, !.read[Stage][k] = from[Stage][k]]
  <2>1. PICK v \in RowsOf(s) : v = from[s][k]
    BY <1>2, <1>3 DEF InstallationOK
  <2>2. PICK e : e = smRun'
    OBVIOUS
  <2>3. e = ReadRun(s, k, v)
    BY <1>5, <1>s, <2>1, <2>2 DEF ReadRun
  <2>4. /\ RunOK(e) /\ e.at = smRun.at /\ e.rc = smRun.rc /\ e.failed = smRun.failed
        /\ e.late = smRun.late /\ e.known = smRun.known /\ e.count = smRun.count
        /\ e.todo = smRun.todo \ {k} /\ e.candidate = smRun.candidate
        /\ \A j \in RowKeys(s) : e.read[s][j] = IF j = k THEN v ELSE smRun.read[s][j]
        /\ \A u \in MigTables : u # s => e.read[u] = smRun.read[u]
    BY <1>2, <1>3, <2>3, RowRead
  <2>5. /\ InstallationOK(to') /\ \A u \in MigTables : u # s => to'[u] = to[u]
        /\ \A j \in RowKeys(s) : to'[s][j] = IF j = k /\ v # NoRow THEN v ELSE to[s][j]
    <3>1. CASE v = NoRow
      BY <1>5, <1>s, <1>2, <2>1, <3>1
    <3>2. CASE v # NoRow
      <4>1. PICK i : i = to'
        OBVIOUS
      <4>2. i = Replaced(to, s, k, v)
        BY <1>5, <1>s, <2>1, <3>2, <4>1 DEF Replaced
      <4>3. /\ InstallationOK(i) /\ \A u \in MigTables : u # s => i[u] = to[u]
            /\ \A j \in RowKeys(s) : i[s][j] = IF j = k THEN v ELSE to[s][j]
        BY <1>2, <1>3, <4>2, RowReplaced
      <4> QED BY <3>2, <4>1, <4>3
    <3> QED BY <3>1, <3>2
  <2>6. Place' = Place /\ Exempt' = {} /\ Exempt = {} /\ \A t \in StageNames : Place[t] \in 1..9
    BY <1>1, <1>2, StageIsPlace DEF Place, Exempt, MigInv, MigShapes
  <2>7. MigShapes'
    BY <1>2, <2>2, <2>4, <2>6, <1>1, <2>5 DEF MigInv, MigShapes
  <2>8. HelpersMatch'
    BY <1>3, <2>5 DEF MigTables, MigInv, HelpersMatch, Has
  <2>9. MigReads'
    BY <1>2, <2>2, <2>4, <2>6, <1>1, TablesOfRun, <2>5, <1>3 DEF MigInv, MigReads, StageNames
  <2>10. MigAccounted'
    <3>1. CASE allowed
      BY <1>1, <3>1, Zenon DEF MigAccounted
    <3>2. CASE Accounted
      <4>1. smRun.at > Place["recheck"]
        BY <1>1, <1>2, PlaceFacts DEF Keyed
      <4>2. ASSUME NEW t \in Keyed, NEW j \in Has(to, t)'
            PROVE  j \in smRun'.late \cup Exempt' \cup smRun'.known \/ smRun'.read[t][j] # NoRow
        <5>1. j \in RowKeys(t) /\ to'[t][j] # NoRow
          BY DEF Has
        <5>2. to[t][j] # NoRow => j \in smRun.late \cup smRun.known \/ smRun.read[t][j] # NoRow
          BY <2>6, <3>2, <4>1, <5>1 DEF Accounted, Has
        <5>3. CASE t = s /\ j = k /\ v # NoRow
          BY <2>2, <2>4, <5>1, <5>3
        <5>4. CASE t = s /\ j = k /\ v = NoRow
          BY <1>1, <1>2, <5>1, <5>4, <2>2, <2>4, <2>5, <5>2 DEF MigInv, MigReads
        <5>5. CASE t # s \/ j # k
          BY <2>2, <2>4, <2>5, <5>1, <5>5, TablesOfRun, <5>2
        <5> QED BY <5>3, <5>4, <5>5
      <4>3. Accounted'
        BY <4>2 DEF Accounted
      <4> QED BY <4>3 DEF MigAccounted
    <3> QED BY <3>1, <3>2 DEF MigInv, MigAccounted
  <2>11. MigCopies'
    <3>1. CASE touched
      BY <1>1, <3>1, Zenon DEF MigCopies
    <3>2. CASE CopiesOnly
      <4>1. \A j \in RowIds : to'.sources[j] # NoRow =>
                from'.sources[j] # NoRow /\ to'.sources[j].text = from'.sources[j].text
        BY <1>1, <1>3, <2>5, <3>2 DEF CopiesOnly, MigTables
      <4>2. ASSUME NEW t \in CopiedTables, NEW j \in RowKeys(t) PROVE to'[t][j] \in {NoRow, from[t][j]}
        BY <3>2, TablesOfRun, <2>1, <2>5 DEF CopiesOnly
      <4>3. CopiesOnly'
        BY <1>1, <4>1, <4>2 DEF CopiesOnly
      <4>4. smRun'.at # Place'["sources"] /\ ~(smRun'.at > Place'["history"]) /\ smRun'.rc # "ok"
        BY <1>1, PlaceFacts, <1>2, <2>2, <2>4, <2>6 DEF Keyed
      <4>5. StageCopies'
        BY <1>1, <4>4 DEF StageCopies
      <4> QED BY <4>3, <4>5 DEF MigCopies
    <3> QED BY <3>1, <3>2 DEF MigInv, MigCopies
  <2> QED BY <2>7, <2>8, <2>9, <2>10, <2>11 DEF MigInv
<1> QED BY <1>1, <1>4, <1>5

LEMMA UpsertTableKeeps == ASSUME MigInv, UpsertTable PROVE MigInv'
<1>1. /\ Stage \in Keyed /\ direction = "local" /\ UNCHANGED <<direction, allowed, from, touched>>
      /\ to' = [to EXCEPT ![Stage] = [k \in RowKeys(Stage) |->
                   IF k \in Has(from, Stage) /\ ~Refused(Stage, k) THEN from[Stage][k] ELSE @[k]]]
      /\ smRun' = Enter([smRun EXCEPT !.failed = @ \/ SomeMissing(Stage), !.read[Stage] = from[Stage]],
                        smRun.at + 1)
  BY DEF UpsertTable, fixedVars
<1>s. PICK s \in Keyed : s = Stage
  BY <1>1
<1>2. /\ smRun.at = Place[s] /\ smRun.at \in 1..8 /\ smRun.rc = "none" /\ RunOK(smRun)
      /\ InstallationOK(from) /\ InstallationOK(to)
      /\ \A u \in StageNames : Place[u] = Place[s] => u = s
  BY <1>s, StageFacts, TablesOfRun DEF StageNames
<1>3. s \in MigTables /\ s \in CopiedTables /\ s # "sources" /\ s \in StageNames
  BY TablesOfRun DEF StageNames, CopiedTables
<1>5. PICK failed \in BOOLEAN : failed = (smRun.failed \/ SomeMissing(s))
  BY DEF SomeMissing
<1>6. failed = FALSE => smRun.failed = FALSE /\ \A k \in Has(from, s) : ~Refused(s, k)
  BY <1>5, <1>2 DEF RunOK, SomeMissing
<1>7. PICK rows : rows = [k \in RowKeys(s) |->
                   IF k \in Has(from, s) /\ ~Refused(s, k) THEN from[s][k] ELSE to[s][k]]
  OBVIOUS
<1>8. rows \in [RowKeys(s) -> RowsOf(s)]
  BY <1>2, <1>3, <1>7 DEF InstallationOK
<1>9. /\ InstallationOK(to') /\ to'[s] = rows /\ to'.history = to.history
      /\ \A u \in MigTables : u # s => to'[u] = to[u]
  BY <1>1, <1>s, <1>7, <1>2, <1>3, <1>8 DEF InstallationOK, MigTables, CopiedTables
<1>10. PICK r : r = [smRun EXCEPT !.failed = failed, !.read[s] = from[s]]
  OBVIOUS
<1>11. smRun' = Enter(r, smRun.at + 1)
  BY <1>5, <1>10, <1>1, <1>s
<1>12. /\ RunOK(r) /\ r.rc = "none" /\ r.failed = failed /\ r.late = smRun.late
       /\ r.known = smRun.known /\ r.read[s] = from[s]
       /\ \A t \in MigTables : t # s => r.read[t] = smRun.read[t]
  <2>1. PICK d : d = smRun.read
    OBVIOUS
  <2>2. PICK f : f = [d EXCEPT ![s] = from[s]]
    OBVIOUS
  <2>3. /\ f = [docs |-> f.docs, vectors |-> f.vectors, sources |-> f.sources, users |-> f.users,
                tokens |-> f.tokens]
        /\ f[s] = from[s] /\ \A t \in MigTables : t # s => f[t] = d[t]
    BY <1>2, <1>3, <2>1, <2>2 DEF RunOK, MigTables, CopiedTables
  <2>4. /\ r = [at |-> r.at, todo |-> r.todo, read |-> r.read, count |-> r.count,
                failed |-> r.failed, late |-> r.late, known |-> r.known,
                candidate |-> r.candidate, rc |-> r.rc]
        /\ r.rc = smRun.rc /\ r.count = smRun.count /\ r.late = smRun.late
        /\ r.failed = failed /\ r.candidate = smRun.candidate /\ r.known = smRun.known
        /\ r.read = f
    BY <1>2, <1>10, <2>1, <2>2 DEF RunOK
  <2>5. \A t \in MigTables : f[t] \in [RowKeys(t) -> RowsOf(t)]
    BY <1>2, <2>1, <2>3 DEF RunOK, InstallationOK
  <2>6. RunOK(r)
    <3>1. /\ r.candidate \in {NoRow} \cup Candidates /\ r.count \in Nat /\ r.rc = "none"
      BY <1>2, <2>4 DEF RunOK
    <3>2. /\ r.read = [docs |-> r.read.docs, vectors |-> r.read.vectors, sources |-> r.read.sources,
                       users |-> r.read.users, tokens |-> r.read.tokens]
          /\ \A t \in MigTables : r.read[t] \in [RowKeys(t) -> RowsOf(t)]
      BY ONLY <2>3, <2>4, <2>5
    <3>3. r.failed \in BOOLEAN
      BY ONLY failed \in BOOLEAN, <2>4
    <3>4. r = [at |-> r.at, todo |-> r.todo, read |-> r.read, count |-> r.count,
               failed |-> r.failed, late |-> r.late, known |-> r.known,
               candidate |-> r.candidate, rc |-> r.rc]
      BY <2>4
    <3> QED BY ONLY <3>1, <3>2, <3>3, <3>4 DEF RunOK
  <2> QED BY <1>2, <2>1, <2>3, <2>4, <2>6
<1>13. /\ RunOK(smRun') /\ smRun'.at = smRun.at + 1
       /\ \A t \in MigTables : smRun'.at = Place[t] => smRun'.todo = Has(from, t)
       /\ \A t \in CopiedTables : smRun'.read[t] = r.read[t]
       /\ smRun'.failed = failed /\ smRun'.late = smRun.late /\ smRun'.known = smRun.known
       /\ smRun'.rc = "none"
  BY <1>2, <1>1, <1>11, <1>12, EnteredRun
<1>14. /\ smRun'.read[s] = from[s] /\ \A t \in Keyed : t # s => smRun'.read[t] = smRun.read[t]
  BY <1>3, <1>12, <1>13, TablesOfRun
<1>15. /\ Place' = Place /\ \A t \in StageNames : Place[t] \in 1..9
       /\ Place[s] > Place["recheck"] /\ Place[s] < Place["history"]
       /\ Place[s] > Place["sources"] /\ Place[s] > Place["docs"] /\ Place[s] > Place["vectors"]
       /\ \A t \in Keyed : Place[s] + 1 > Place[t] => t = s \/ Place[s] > Place[t]
  BY <1>1, <1>2, StageIsPlace, PlaceFacts, TablesOfRun DEF Place, MigInv, MigShapes
<1>16. /\ \A k \in RowKeys(s) : to'[s][k] = IF k \in Has(from, s) /\ ~Refused(s, k)
                                           THEN from[s][k] ELSE to[s][k]
       /\ \A t \in MigTables : Has(to, t) \subseteq Has(to, t)'
  BY <1>7, <1>9 DEF Has
<1>17. Exempt \subseteq Exempt'
  BY <1>16, TablesOfRun, <1>1 DEF Exempt
<1>18. MigShapes'
  BY <1>13, <1>15, <1>2, <1>1, <1>9 DEF Has, MigShapes
<1>19. HelpersMatch'
  BY <1>3, <1>9 DEF MigTables, MigInv, HelpersMatch, Has
<1>20. MigReads'
  <2>1. ASSUME NEW t \in Keyed, smRun'.at <= Place[t]
        PROVE  \A k \in RowKeys(t) : smRun'.read[t][k] = NoRow
    BY <1>15, TablesOfRun, <1>2, <1>13, <2>1, <1>14 DEF StageNames, MigInv, MigReads
  <2>2. ASSUME NEW t \in Keyed, NEW k \in RowKeys(t), smRun'.failed = FALSE, smRun'.read[t][k] # NoRow
        PROVE  to'[t][k] = smRun'.read[t][k]
    BY <1>6, <1>13, <2>2, <1>14, <1>16, <1>9, TablesOfRun DEF Has, MigInv, MigReads
  <2>3. \A t \in Keyed : smRun'.at < Place[t] => smRun'.at <= Place[t]
    BY <1>2, <1>13, <1>15, TablesOfRun DEF StageNames
  <2>4. \A t \in Keyed : smRun'.at = Place[t] => smRun'.at <= Place[t]
    BY <1>2, <1>13, <1>15, TablesOfRun DEF StageNames
  <2>5. direction' # "pg" /\ smRun'.rc # "ok"
    BY <1>1, <1>13
  <2> QED BY <1>15, <2>1, <2>2, <2>3, <2>4, <2>5 DEF MigReads
<1>21. MigAccounted'
  <2>1. CASE allowed
    BY <1>1, <2>1, Zenon DEF MigAccounted
  <2>2. CASE Accounted
    <3>1. ASSUME NEW t \in Keyed, NEW k \in Has(to, t)'
          PROVE  k \in smRun'.late \cup Exempt' \cup smRun'.known \/ smRun'.read[t][k] # NoRow
      <4>1. k \in RowKeys(t) /\ to'[t][k] # NoRow
        BY DEF Has
      <4>2. to[t][k] # NoRow =>
                k \in smRun.late \cup Exempt \cup smRun.known \/ smRun.read[t][k] # NoRow
        BY <1>2, <1>15, <2>2, <4>1 DEF Accounted, Has
      <4>3. CASE t = s /\ k \in Has(from, s)
        BY <1>14, <4>3 DEF Has
      <4>4. CASE t = s /\ k \notin Has(from, s)
        BY <1>1, <1>2, <4>1, <4>4, <1>16, <1>13, <1>17, <4>2 DEF MigInv, MigReads
      <4>5. CASE t # s
        BY <1>9, <1>14, <4>5, TablesOfRun, <1>13, <1>17, <4>1, <4>2
      <4> QED BY <4>3, <4>4, <4>5
    <3>2. Accounted'
      BY <3>1 DEF Accounted
    <3> QED BY <3>2 DEF MigAccounted
  <2> QED BY <2>1, <2>2 DEF MigInv, MigAccounted
<1>22. MigCopies'
  <2>1. CASE touched
    BY <1>1, <2>1, Zenon DEF MigCopies
  <2>2. CASE CopiesOnly /\ StageCopies
    <3>1. \A j \in RowIds : to'.sources[j] # NoRow =>
              from'.sources[j] # NoRow /\ to'.sources[j].text = from'.sources[j].text
      BY <1>1, <1>3, <1>9, <2>2 DEF CopiesOnly, MigTables
    <3>2. ASSUME NEW t \in CopiedTables, NEW j \in RowKeys(t) PROVE to'[t][j] \in {NoRow, from[t][j]}
      BY <2>2, TablesOfRun, <1>16, <1>9 DEF CopiesOnly
    <3>3. CopiesOnly'
      BY <1>1, <3>1, <3>2 DEF CopiesOnly
    <3>4. \A t \in MigTables : Has(from, t)' = Has(from, t) /\ (KeysArrived(t) => KeysArrived(t)')
      BY <1>1, <1>16 DEF Has, KeysArrived
    <3>5. \A t \in {"docs", "vectors", "sources"} : KeysArrived(t)'
      BY <1>2, <1>15, <1>1, <2>2, <3>4 DEF MigTables, CopiedTables, StageCopies
    <3>6. ASSUME NEW t \in Keyed, smRun'.at > Place[t], smRun'.failed = FALSE PROVE KeysArrived(t)'
      <4>1. smRun.failed = FALSE /\ \A j \in Has(from, s) : ~Refused(s, j)
        BY <1>6, <1>13, <3>6
      <4>2. CASE t = s
        BY <1>16, <4>1, <1>3, <3>4, <4>2 DEF Has, KeysArrived
      <4>3. CASE smRun.at > Place[t]
        BY <1>1, <2>2, <3>4, <4>1, <4>3, TablesOfRun DEF StageCopies
      <4> QED BY <1>2, <1>13, <1>15, <3>6, <4>2, <4>3
    <3>7. /\ smRun'.at # Place["sources"] /\ ~(smRun'.at > Place["history"]) /\ smRun'.rc # "ok"
          /\ \A t \in {"docs", "vectors"} : smRun'.at # Place[t]
      BY <1>2, <1>13, <1>15 DEF StageNames
    <3>8. StageCopies'
      BY <1>15, <3>5, <3>6, <3>7 DEF StageCopies
    <3> QED BY <3>3, <3>8 DEF MigCopies
  <2> QED BY <2>1, <2>2 DEF MigInv, MigCopies
<1> QED BY <1>18, <1>19, <1>20, <1>21, <1>22 DEF MigInv

LEMMA VerifyKeeps == ASSUME MigInv, Verify PROVE MigInv'
<1>1. /\ Stage = "verify" /\ UNCHANGED <<direction, allowed, from, to, touched>>
      /\ \/ smRun' = End("mismatch")
         \/ /\ smRun' = End("ok")
            /\ direction = "pg" =>
                  /\ \A t \in Keyed : KeysArrived(t)
                  /\ \A t \in {"docs", "sources", "vectors"} :
                        Cardinality(Has(to, t)) = Cardinality(Has(from, t))
                  /\ to.history = smRun.count
            /\ direction # "pg" => ~smRun.failed /\ to.history >= smRun.count
  BY DEF Verify, fixedVars
<1>2. /\ smRun.at = Place["verify"] /\ smRun.at \in 1..9 /\ smRun.rc = "none" /\ RunOK(smRun)
      /\ InstallationOK(from) /\ InstallationOK(to) /\ direction \in {"pg", "local"}
  BY <1>1, StageFacts DEF StageNames
<1>3. CASE smRun' = End("mismatch")
  BY <1>1, <1>2, <1>3, EndsBadly
<1>4. CASE /\ smRun' = End("ok")
           /\ direction = "pg" =>
                 /\ \A t \in Keyed : KeysArrived(t)
                 /\ \A t \in {"docs", "sources", "vectors"} :
                       Cardinality(Has(to, t)) = Cardinality(Has(from, t))
                 /\ to.history = smRun.count
           /\ direction # "pg" => ~smRun.failed /\ to.history >= smRun.count
  <2>1. /\ RunOK(smRun') /\ smRun'.at = 0 /\ smRun'.rc = "ok" /\ smRun'.todo = {}
        /\ smRun'.read = smRun.read /\ smRun'.failed = smRun.failed
        /\ smRun'.late = smRun.late /\ smRun'.known = smRun.known /\ smRun'.count = smRun.count
    BY <1>2, <1>4, EndedRun
  <2>2. /\ Place' = Place /\ \A t \in StageNames : Place[t] \in 1..9 /\ (t # "verify" => smRun.at > Place[t])
    BY <1>1, <1>2, StageIsPlace, PlaceFacts DEF Place, StageNames
  <2>3. /\ smRun.at > Place["recheck"] /\ smRun.at > Place["history"]
        /\ \A t \in MigTables : smRun.at > Place[t] /\ Place[t] \in 1..9
        /\ Place["recheck"] \in 1..9 /\ Place["history"] \in 1..9 /\ Place["sources"] \in 1..9
    BY <2>2 DEF StageNames, MigTables, CopiedTables
  <2>4. MigShapes'
    BY <2>1, <2>2, <2>3, <1>1, <1>2 DEF MigShapes
  <2>5. HelpersMatch'
    BY <1>1 DEF MigInv, HelpersMatch, Has
  <2>6. smRun.failed = FALSE
    BY <1>4, <1>2 DEF MigInv, MigReads, RunOK
  <2>7. MigReads'
    BY <2>1, <2>2, <2>3, <2>6, TablesOfRun, <1>1 DEF MigInv, MigReads
  <2>8. MigAccounted'
    BY <1>1, <2>3, <2>1 DEF MigAccounted, Exempt, Has, Accounted, MigInv
  <2>9. MigCopies'
    <3>1. CASE touched
      BY <1>1, <3>1, Zenon DEF MigCopies
    <3>2. CASE CopiesOnly /\ StageCopies
      <4>1. CopiesOnly'
        BY <1>1, <3>2 DEF CopiesOnly
      <4>2. smRun.count = from.history
        BY <2>3, <3>2 DEF StageCopies
      <4>3. CASE direction = "pg"
        <5>1. ASSUME NEW t \in {"docs", "sources", "vectors"} PROVE KeysArrived(t)
          BY KeysOfTables, <3>2, StoreMigrationAssumption, FS_Subset, <1>4, <4>3 DEF CopiedTables,
             CopiesOnly, Has, KeysArrived
        <5>2. \A t \in MigTables : KeysArrived(t)
          BY <1>4, <4>3, <5>1 DEF MigTables, CopiedTables, Keyed
        <5>3. to.history = from.history
          BY <1>4, <4>2, <4>3
        <5>4. \A t \in MigTables : KeysArrived(t)'
          BY <1>1, <5>2 DEF KeysArrived, Has
        <5>5. StageCopies'
          BY <1>1, <2>1, <2>2, <2>3, <4>3, <5>3, <5>4 DEF StageCopies
        <5> QED BY <4>1, <5>5 DEF MigCopies
      <4>4. CASE direction = "local"
        <5>1. \A t \in MigTables : KeysArrived(t)
          BY <2>3, <3>2, <4>4, <2>6, TablesOfRun DEF StageCopies, MigTables, CopiedTables, Keyed
        <5>2. to.history >= from.history
          BY <1>4, <4>2, <4>4
        <5>3. \A t \in MigTables : KeysArrived(t)'
          BY <1>1, <5>1 DEF KeysArrived, Has
        <5>4. /\ smRun'.at # Place'["sources"] /\ ~(smRun'.at > Place'["history"])
              /\ \A t \in MigTables : smRun'.at # Place'[t] /\ ~(smRun'.at > Place'[t])
          BY <2>1, <2>2, <2>3
        <5>5. Keyed \subseteq MigTables /\ {"docs", "vectors", "sources"} \subseteq MigTables
          BY TablesOfRun DEF MigTables, CopiedTables
        <5>6. direction' # "pg" /\ to'.history >= from'.history
          BY <1>1, <4>4, <5>2
        <5>7. StageCopies'
          BY ONLY <5>3, <5>4, <5>5, <5>6 DEF StageCopies
        <5> QED BY <4>1, <5>7 DEF MigCopies
      <4> QED BY <1>2, <4>3, <4>4
    <3> QED BY <3>1, <3>2 DEF MigInv, MigCopies
  <2> QED BY <2>4, <2>5, <2>7, <2>8, <2>9 DEF MigInv
<1> QED BY <1>1, <1>3, <1>4

LEMMA FromChangesKeeps ==
    ASSUME MigInv, NEW t \in DOMAIN NoRowRead, NEW k \in RowKeys(t), FromChanges(t, k) PROVE MigInv'
<1>1. /\ UNCHANGED <<direction, allowed, to, smRun>> /\ touched' = TRUE
      /\ \/ \E v \in Contents : from' =
               [from EXCEPT ![t][k] = IF t = "sources" THEN [text |-> v, helper |-> v] ELSE v]
         \/ from' = [from EXCEPT ![t][k] = NoRow]
  BY DEF FromChanges, fixedVars
<1>2. t \in MigTables /\ InstallationOK(from)
  BY TablesOfRun DEF MigInv, MigShapes
<1>3. PICK x \in RowsOf(t) : from' = Replaced(from, t, k, x)
  BY RowsAreRows, <1>1 DEF RowsOf, Replaced, SourceRows, Rows
<1>4. InstallationOK(from')
  BY <1>3, <1>2, RowReplaced
<1>5. Place' = Place /\ Exempt' = Exempt
  BY <1>1 DEF Place, Exempt, Has
<1>6. MigShapes' /\ HelpersMatch'
  BY <1>1, <1>4, <1>5 DEF MigInv, MigShapes, HelpersMatch, Has
<1>7. MigReads'
  BY <1>1, <1>5 DEF MigInv, MigReads
<1>8. MigAccounted'
  BY <1>1, <1>5 DEF MigAccounted, Accounted, Has, MigInv
<1>9. MigCopies'
  BY <1>1, Zenon DEF MigCopies
<1> QED BY <1>6, <1>7, <1>8, <1>9 DEF MigInv

LEMMA CreatesCredentialKeeps ==
    ASSUME MigInv, NEW t \in Keyed, NEW k \in RowKeys(t), CreatesCredential(t, k) PROVE MigInv'
<1>1. /\ UNCHANGED <<direction, allowed, from>> /\ touched' = TRUE /\ to[t][k] = NoRow
      /\ smRun' = [smRun EXCEPT !.late = @ \cup {k}]
  BY DEF CreatesCredential, fixedVars
<1>2. PICK v \in Contents : to' = Replaced(to, t, k, v)
  BY DEF CreatesCredential, Replaced
<1>3. t \in MigTables /\ t # "sources" /\ RunOK(smRun) /\ InstallationOK(to)
  BY TablesOfRun DEF MigInv, MigShapes
<1>4. v \in RowsOf(t) /\ v # NoRow
  BY <1>3, RowsAreRows DEF RowsOf
<1>5. /\ InstallationOK(to') /\ (\A u \in MigTables : u # t => to'[u] = to[u])
      /\ \A j \in RowKeys(t) : to'[t][j] = IF j = k THEN v ELSE to[t][j]
  BY <1>2, <1>3, <1>4, RowReplaced
<1>6. /\ RunOK(smRun') /\ smRun'.at = smRun.at /\ smRun'.rc = smRun.rc
      /\ smRun'.failed = smRun.failed /\ smRun'.known = smRun.known /\ smRun'.todo = smRun.todo
      /\ smRun'.read = smRun.read /\ smRun'.late = smRun.late \cup {k}
  BY <1>1, <1>3 DEF RunOK
<1>7. Place' = Place /\ Exempt \subseteq Exempt'
  BY <1>3, <1>4, <1>5, TablesOfRun, <1>1 DEF Has, Place, Exempt
<1>8. MigShapes'
  BY <1>1, <1>5, <1>6, <1>7 DEF MigInv, MigShapes
<1>9. HelpersMatch'
  BY <1>3, <1>5 DEF MigTables, MigInv, HelpersMatch, Has
<1>10. MigReads'
  BY <1>6, <1>1, <1>5, TablesOfRun, <1>7 DEF MigInv, MigReads
<1>11. MigAccounted'
  <2>1. CASE allowed
    BY <1>1, <2>1, Zenon DEF MigAccounted
  <2>2. CASE Accounted
    <3>1. ASSUME smRun'.rc = "ok" \/ smRun'.at > Place'["recheck"], NEW u \in Keyed, NEW j \in Has(to, u)'
          PROVE  j \in smRun'.late \cup Exempt' \cup smRun'.known \/ smRun'.read[u][j] # NoRow
      <4>1. j \in RowKeys(u) /\ to'[u][j] # NoRow
        BY DEF Has
      <4>2. CASE u = t /\ j = k
        BY <1>6, <4>2
      <4>3. CASE u # t \/ j # k
        BY <1>5, <4>1, <4>3, TablesOfRun, <1>6, <1>7, <2>2, <3>1 DEF Accounted, Has
      <4> QED BY <4>2, <4>3
    <3>2. Accounted'
      BY <3>1 DEF Accounted
    <3> QED BY <3>2 DEF MigAccounted
  <2> QED BY <2>1, <2>2 DEF MigInv, MigAccounted
<1>12. MigCopies'
  BY <1>1, Zenon DEF MigCopies
<1> QED BY <1>8, <1>9, <1>10, <1>11, <1>12 DEF MigInv

LEMMA MigInitially == ASSUME StoreMigrationInit PROVE MigInv
<1>1. /\ direction \in {"pg", "local"} /\ from \in SourcesOf /\ to \in TargetsOf
      /\ smRun = NotRunning
      /\ touched = (to.history > 0 \/ \E t \in DOMAIN NoRowRead : Has(to, t) # {})
  BY DEF StoreMigrationInit
<1>2. InstallationOK(from) /\ InstallationOK(to)
  BY <1>1, InstallationsAreOK, StoreMigrationAssumption
<1>3. PICK r : r = NotRunning
  OBVIOUS
<1>4. /\ RunOK(r) /\ r.at = 0 /\ r.rc = "none" /\ r.failed = FALSE
      /\ \A t \in MigTables : \A k \in RowKeys(t) : r.read[t][k] = NoRow
  BY <1>3, FreshRun
<1>5. /\ RunOK(smRun) /\ smRun.at = 0 /\ smRun.rc = "none" /\ smRun.failed = FALSE
      /\ \A t \in MigTables : \A k \in RowKeys(t) : smRun.read[t][k] = NoRow
  BY <1>1, <1>3, <1>4
<1>6. /\ \A t \in StageNames : Place[t] \in 1..9
      /\ ~(0 > Place["recheck"]) /\ ~(0 > Place["history"]) /\ 0 # Place["sources"]
      /\ \A t \in MigTables : 0 # Place[t] /\ ~(0 > Place[t])
  BY <1>1, PlaceFacts DEF StageNames, MigTables, CopiedTables
<1>7. MigShapes
  BY <1>1, <1>2, <1>5, <1>6 DEF MigShapes
<1>8. HelpersMatch
  BY <1>1, KeysOfTables, StoreMigrationAssumption DEF HelpersMatch, Has
<1>9. MigReads
  BY <1>5, <1>6, TablesOfRun DEF MigReads
<1>10. MigAccounted
  <2>1. Accounted
    BY ONLY <1>5, <1>6 DEF Accounted
  <2> QED BY <2>1 DEF MigAccounted
<1>11. MigCopies
  <2>1. CASE \E t \in DOMAIN NoRowRead : Has(to, t) # {}
    BY <1>1, <2>1, Zenon DEF MigCopies
  <2>2. CASE \A t \in DOMAIN NoRowRead : Has(to, t) = {}
    <3>1. \A t \in MigTables : \A k \in RowKeys(t) : to[t][k] = NoRow
      BY <2>2, TablesOfRun DEF Has
    <3>2. CopiesOnly
      BY <3>1, TablesOfRun, KeysOfTables DEF CopiesOnly, MigTables
    <3>3. Keyed \subseteq MigTables /\ {"docs", "vectors", "sources"} \subseteq MigTables
      BY TablesOfRun DEF MigTables, CopiedTables
    <3>4. StageCopies
      BY ONLY <1>5, <1>6, <3>3 DEF StageCopies
    <3> QED BY <3>2, <3>4 DEF MigCopies
  <2> QED BY <2>1, <2>2
<1> QED BY <1>7, <1>8, <1>9, <1>10, <1>11 DEF MigInv

LEMMA MigStep == MigInv /\ [StoreMigrationNext]_smVars => MigInv'
<1> SUFFICES ASSUME MigInv, [StoreMigrationNext]_smVars PROVE MigInv'
  OBVIOUS
<1>1. CASE UNCHANGED smVars
  <2>1. UNCHANGED <<direction, allowed, from, to, smRun, touched>>
    BY <1>1 DEF smVars, fixedVars
  <2>2. Place' = Place /\ Exempt' = Exempt
    BY <2>1 DEF Place, Exempt, Has
  <2>3. MigShapes'
    BY <2>1, <2>2 DEF MigInv, MigShapes
  <2>4. HelpersMatch'
    BY <2>1 DEF MigInv, HelpersMatch, Has
  <2>5. MigReads'
    BY <2>1, <2>2 DEF MigInv, MigReads
  <2>6. MigAccounted'
    BY <2>1, <2>2 DEF Accounted, Has, MigInv, MigAccounted
  <2>7. MigCopies'
    BY <2>1, <2>2 DEF CopiesOnly, StageCopies, KeysArrived, Has, MigInv, MigCopies
  <2> QED BY <2>3, <2>4, <2>5, <2>6, <2>7 DEF MigInv
<1>2. CASE StoreMigrationNext
  <2>1. CASE \E k \in RowIds \cup Users \cup Tokens :
                CopyTableRow(k) \/ Enumerate(k) \/ CopySource(k) \/ UpsertRow(k)
    BY <2>1, CopyTableRowKeeps, EnumerateKeeps, CopySourceKeeps, UpsertRowKeeps
  <2>2. CASE \E k \in RowIds \cup Users \cup Tokens : \E t \in DOMAIN NoRowRead :
                k \in RowKeys(t) /\ (FromChanges(t, k) \/ (t \in Keyed /\ CreatesCredential(t, k)))
    BY <2>2, FromChangesKeeps, CreatesCredentialKeeps
  <2>3. CASE StartStoreMigration
    BY <2>3, StartMigrationKeeps
  <2>4. CASE CheckCredentials
    BY <2>4, CheckCredentialsKeeps
  <2>5. CASE SkipTable
    BY <2>5, SkipTableKeeps
  <2>6. CASE EndTable
    BY <2>6, EndTableKeeps
  <2>7. CASE CopyCandidate
    BY <2>7, CopyCandidateKeeps
  <2>8. CASE EndKeyed
    BY <2>8, EndKeyedKeeps
  <2>9. CASE UpsertTable
    BY <2>9, UpsertTableKeeps
  <2>10. CASE CopyHistory
    BY <2>10, CopyHistoryKeeps
  <2>11. CASE Verify
    BY <2>11, VerifyKeeps
  <2>12. CASE RunDies
    BY <2>12, RunDiesKeeps
  <2> QED BY <1>2, <2>1, <2>2, <2>3, <2>4, <2>5, <2>6, <2>7, <2>8, <2>9, <2>10, <2>11, <2>12, Zenon
      DEF StoreMigrationNext
<1> QED BY <1>1, <1>2, Zenon

LEMMA MigTypes == MigInv => StoreMigrationTypeOK
BY TablesOfRun, StagesAreNamed DEF MigInv, MigShapes, InstallationOK, RowsOf, Rows, RunOK,
   StoreMigrationTypeOK

LEMMA MigHonest == MigInv => MigrationIsHonest
<1> SUFFICES ASSUME MigInv PROVE MigrationIsHonest
  OBVIOUS
<1>1. InstallationOK(from) /\ InstallationOK(to) /\ direction \in {"pg", "local"}
  BY DEF MigInv, MigShapes
<1>2. CredentialsAreVouched
  BY DEF CredentialsAreVouched, MigInv, MigAccounted, Accounted
<1>3. ASSUME smRun.rc = "ok"
      PROVE  \A t \in Keyed : \A k \in RowKeys(t) :
                 smRun.read[t][k] # NoRow => to[t][k] = smRun.read[t][k]
  BY <1>3 DEF MigInv, MigReads
<1>4. ASSUME smRun.rc = "ok", ~touched
      PROVE  /\ \A t \in {"docs", "vectors", "users", "tokens"} : to[t] = from[t]
             /\ \A k \in RowIds : /\ (from.sources[k] = NoRow) = (to.sources[k] = NoRow)
                                  /\ to.sources[k] # NoRow => to.sources[k].text = from.sources[k].text
             /\ IF direction = "pg" THEN to.history = from.history ELSE to.history >= from.history
  <2>1. CopiesOnly /\ StageCopies
    BY <1>4, Zenon DEF MigInv, MigCopies
  <2>2. \A t \in MigTables : KeysArrived(t)
    BY <1>4, <2>1 DEF StageCopies
  <2>3. ASSUME NEW t \in CopiedTables PROVE to[t] = from[t]
    BY TablesOfRun, <2>1, <2>2, <1>1 DEF CopiesOnly, KeysArrived, Has, InstallationOK
  <2>4. ASSUME NEW k \in RowIds
        PROVE  /\ (from.sources[k] = NoRow) = (to.sources[k] = NoRow)
               /\ to.sources[k] # NoRow => to.sources[k].text = from.sources[k].text
    BY <2>2, KeysOfTables, <2>1 DEF KeysArrived, Has, MigTables, CopiesOnly
  <2>5. IF direction = "pg" THEN to.history = from.history ELSE to.history >= from.history
    BY <1>4, <2>1 DEF StageCopies
  <2> QED BY <2>3, <2>4, <2>5 DEF CopiedTables
<1>5. ExitZeroIsACopy
  BY <1>3, <1>4, Zenon DEF ExitZeroIsACopy
<1>6. HelpersMatch
  BY DEF MigInv
<1> QED BY <1>2, <1>5, <1>6 DEF MigrationIsHonest

LEMMA MigAlways == StoreMigrationSpec => []MigInv
<1>1. StoreMigrationInit => MigInv
  BY MigInitially
<1> QED BY <1>1, MigStep, PTL DEF StoreMigrationSpec

\* A migration between stores keeps its types, in both directions
\* (migrate_to_local.py, migrate_sqlite_to_pg.py).
THEOREM MigrationTypeCorrect == StoreMigrationSpec => []StoreMigrationTypeOK
BY MigAlways, MigTypes, PTL

\* A run that exits 0 left every credential as it read it, and between an untouched
\* source and an empty target all of the source; no credential of the target is one
\* that nobody vouched for, and a helper row never claims another text.
THEOREM MigrationsAreHonest == StoreMigrationSpec => []MigrationIsHonest
BY MigAlways, MigHonest, PTL
-----------------------------------------------------------------------------
(***************************************************************************)
(* The seven together: a behaviour moves one of them, the others rest.     *)
(***************************************************************************)

repairsVars == <<schemaVars, noneVars, misVars, forkVars, recVars, backupVars, smVars, tool>>

\* Every behaviour is one of each component.
LEMMA RepairsAreEach ==
    RepairsSpec => /\ SchemaSpec /\ NoneSpec /\ MisSpec /\ ForkSpec
                   /\ ReconcileSpec /\ BackupSpec /\ StoreMigrationSpec
<1>1. RepairsInit => /\ SchemaInit /\ NoneInit /\ MisInit /\ ForkInit
                     /\ ReconcileInit /\ BackupInit /\ StoreMigrationInit
  BY DEF RepairsInit
<1>2. [RepairsNext]_repairsVars => [SchemaNext]_schemaVars
  BY DEF RepairsNext, repairsVars
<1>3. [RepairsNext]_repairsVars => [NoneNext]_noneVars
  BY DEF RepairsNext, repairsVars
<1>4. [RepairsNext]_repairsVars => [MisNext]_misVars
  BY DEF RepairsNext, repairsVars
<1>5. [RepairsNext]_repairsVars => [ForkNext]_forkVars
  BY DEF RepairsNext, repairsVars
<1>6. [RepairsNext]_repairsVars => [ReconcileNext]_recVars
  BY DEF RepairsNext, repairsVars
<1>7. [RepairsNext]_repairsVars => [BackupNext]_backupVars
  BY DEF RepairsNext, repairsVars
<1>8. [RepairsNext]_repairsVars => [StoreMigrationNext]_smVars
  BY DEF RepairsNext, repairsVars
<1>9. RepairsSpec => RepairsInit /\ [][RepairsNext]_repairsVars
  BY DEF RepairsSpec, repairsVars
<1> QED BY <1>1, <1>2, <1>3, <1>4, <1>5, <1>6, <1>7, <1>8, <1>9, PTL
        DEF SchemaSpec, NoneSpec, MisSpec, ForkSpec, ReconcileSpec, BackupSpec, StoreMigrationSpec

\* The types of the tools that copy, move and repair whole stores.
THEOREM RepairsTypesCorrect == RepairsSpec => []RepairsTypesOK
<1>1. /\ SchemaTypeOK /\ NoneTypeOK /\ MisTypeOK /\ ForkTypeOK /\ ReconcileTypeOK /\ BackupTypeOK
      /\ StoreMigrationTypeOK
      => RepairsTypesOK
  BY DEF RepairsTypesOK
<1> QED BY <1>1, RepairsAreEach, SchemaTypeCorrect, NoneTypeCorrect, MisTypeCorrect, ForkTypeCorrect,
           ReconcileTypeCorrect, BackupTypeCorrect, MigrationTypeCorrect, PTL

\* What a tool reports as done is done, an accepted backup set is of one moment, and
\* a migration that ends well is a copy, for any stores, faults and runs.
THEOREM RepairsStaySound == RepairsSpec => []RepairsAreSound
<1>1. /\ NoneRepairIsSafe /\ HeldIsUntouched /\ ForkIsHonest /\ HealsAll
      /\ BackupIsSound /\ MigrationIsHonest
      => RepairsAreSound
  BY DEF RepairsAreSound
<1> QED BY <1>1, RepairsAreEach, NoneRepairStaysSafe, HeldStay, ForksAreHonest, UndisturbedRunsHealAll,
           BackupsAreSound, MigrationsAreHonest, PTL

\* What the four repairing tools leave alone (MCRepairs lists the limits): other
\* writers' versions unless legacy, a service's write that the tool has looked at,
\* whatever a reconciliation finds, and a person's file that was there at the look
\* and does not name the uninstalled pack, unless force was given.
THEOREM ToolsSpare == RepairsSpec => ToolsSpareOthers
BY RepairsAreEach, OthersStay, MismatchesAreRepaired, ReconcilingAdds, PeoplesFilesStay,
   StubsKeepTheirFields DEF ToolsSpareOthers
===============================================================================
