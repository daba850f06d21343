--------------------------- MODULE MismatchRepair ---------------------------
(***************************************************************************)
(* scripts/repair_store_mismatch_499.py: node ids whose graph type, node   *)
(* document, registry row and vector disagree are brought to one target,   *)
(* leg by leg, over four SQLite files that share no transaction.           *)
(*                                                                         *)
(* The run directory holds what each component was when it was selected.   *)
(* Before every leg the tool reads all components of the id again: each is *)
(* as recorded or at a target, or the id is a conflict.  A killed run goes *)
(* on from the stores.  The services should be stopped; the guard looks    *)
(* for them between batches only, so one may start in the middle.          *)
(***************************************************************************)
EXTENDS Integers, SequencesExt

CONSTANTS
    P1Ids, P2Ids, P4Ids,   \* ids of a class; those of P4 share a registry edge
    HeldIds,               \* P4 ids without the delete proposal
    MaxServiceWrites,      \* writes of a service that runs meanwhile
    MaxRepairRuns          \* starts of the tool

MisIds == P1Ids \cup P2Ids \cup P4Ids \cup HeldIds

ASSUME MismatchAssumption ==
    /\ MaxServiceWrites \in Nat /\ MaxRepairRuns \in Nat
    /\ P1Ids \cap P2Ids = {} /\ P4Ids \cap HeldIds = {}
    /\ (P1Ids \cup P2Ids) \cap (P4Ids \cup HeldIds) = {} /\ IsFiniteSet(MisIds)

VARIABLES
    part,        \* part[i][k]: component k of id i
    misEdge,     \* the registry edge row that names the ids of P4
    service,     \* a service runs
    serviceWrites,
    inputSame,   \* the pack input files are those the proposal was made from
    runDir,      \* "new", "torn" (candidates without manifest), "published"
    cand, recorded,  \* the published candidates and their recorded components
    repairPc, repairRuns,
    todo,        \* candidates this run still has to visit, in class order
    looked,      \* the components read before the leg about to be written
    verdict      \* per id: "none", "done", "conflict", "error"

misVars == <<part, misEdge, service, serviceWrites, inputSame, runDir, cand, recorded,
             repairPc, repairRuns, todo, looked, verdict>>

Parts == {"graph", "doc", "reg", "vector"}
Values == {"absent", "was", "goal", "else"}
NotLooked == <<>>

\* Selection: the graph type and the doc type differ, or the doc row stands alone.
StillSelected ==
    {i \in P1Ids \cup P2Ids : part[i]["graph"] = "was" /\ part[i]["doc"] = "was"}
    \cup {i \in P4Ids \cup HeldIds : part[i]["graph"] = "absent" /\ part[i]["doc"] # "absent"}

LegsOf(i) ==
    IF i \in P1Ids THEN <<"graph">>
    ELSE IF i \in P2Ids THEN <<"doc", "reg", "vector">>
    ELSE <<"doc", "reg", "edge">>

TargetOf(i) == IF i \in P1Ids \cup P2Ids THEN "goal" ELSE "absent"
IsTarget(i, k) == \E n \in DOMAIN LegsOf(i) : LegsOf(i)[n] = k

Snapshot(i) ==
    [k \in Parts \cup (IF i \in P4Ids \cup HeldIds THEN {"edge"} ELSE {})
        |-> IF k = "edge" THEN misEdge ELSE part[i][k]]

\* Mutant: only the component the leg writes is compared
ChecksOwnPart(i, snap, leg) == snap[leg] = recorded[i][leg] \/ snap[leg] = TargetOf(i)

\* check_snapshot: every component is as recorded, or at a target of this id.
ChecksAll(i, snap, leg) ==
    \A k \in DOMAIN snap : snap[k] = recorded[i][k] \/ (IsTarget(i, k) /\ snap[k] = TargetOf(i))

\* p4_invariant, whatever was recorded.
StandsAlone(i, snap) == i \in P4Ids \cup HeldIds => snap["graph"] = "absent" /\ snap["vector"] = "absent"

\* Mutant: any P4 id may be approved
ApprovableP4 == cand \cap (P4Ids \cup HeldIds)

\* Mutant: a line is not looked up among the candidates
ApprovableUnselected == P4Ids

\* load_approval refuses the whole file for any other line.
Approvable == cand \cap P4Ids

-----------------------------------------------------------------------------
\* A held id stands alone as well; the pack's input still names it.
MisInitial(i, k) ==
    IF i \in P4Ids \cup HeldIds /\ k \in {"graph", "vector"} THEN "absent" ELSE "was"

MisInit ==
    /\ part = [i \in MisIds |-> [k \in Parts |-> MisInitial(i, k)]]
    /\ misEdge = "was" /\ service = FALSE /\ serviceWrites = 0 /\ inputSame = TRUE
    /\ runDir = "new" /\ cand = {} /\ recorded = [i \in MisIds |-> <<>>]
    /\ repairPc = "off" /\ repairRuns = 0 /\ todo = <<>> /\ looked = NotLooked
    /\ verdict = [i \in MisIds |-> "none"]

\* A guard that finds a service refuses; a torn run directory is refused for good.
GuardFindsNobody == ~service

StartApply ==
    /\ repairPc = "off" /\ repairRuns < MaxRepairRuns /\ GuardFindsNobody
    /\ repairRuns' = repairRuns + 1
    /\ verdict' = [i \in MisIds |-> "none"]
    /\ \/ \* another run directory: what was published before is left behind
          /\ runDir' = "new" /\ repairPc' = "select"
       \/ runDir = "published" /\ repairPc' = "approve" /\ UNCHANGED runDir
    /\ UNCHANGED <<part, misEdge, service, serviceWrites, inputSame, cand, recorded, todo, looked>>

\* The dry run only selects, and does not look for services.
StartDryRun ==
    /\ repairPc = "off" /\ repairRuns < MaxRepairRuns
    /\ repairRuns' = repairRuns + 1 /\ runDir' = "new" /\ repairPc' = "dry"
    /\ verdict' = [i \in MisIds |-> "none"]
    /\ UNCHANGED <<part, misEdge, service, serviceWrites, inputSame, cand, recorded, todo, looked>>

SelectIds ==
    /\ repairPc \in {"select", "dry"}
    /\ cand' = StillSelected
    /\ recorded' = [i \in MisIds |-> IF i \in StillSelected THEN Snapshot(i) ELSE <<>>]
    /\ \/ runDir' = "published" /\ repairPc' = (IF repairPc = "dry" THEN "off" ELSE "approve")
       \/ runDir' = "torn" /\ repairPc' = "off"
    /\ inputSame' = TRUE
    /\ UNCHANGED <<part, misEdge, service, serviceWrites, repairRuns, todo, looked, verdict>>

ReadApproval ==
    /\ repairPc = "approve"
    /\ \E approved \in SUBSET (P4Ids \cup HeldIds) :
         IF approved \subseteq Approvable
         THEN /\ todo' = SetToSeq(cand \cap P1Ids) \o SetToSeq(cand \cap P2Ids) \o SetToSeq(approved)
              /\ repairPc' = "guard"
         ELSE repairPc' = "off" /\ UNCHANGED todo
    /\ UNCHANGED <<part, misEdge, service, serviceWrites, inputSame, runDir, cand, recorded,
                   repairRuns, looked, verdict>>

-----------------------------------------------------------------------------
(* One id.                                                                 *)

\* Between two batches the guard looks for services again.
CheckGuard ==
    /\ repairPc = "guard"
    /\ IF todo # <<>> /\ GuardFindsNobody THEN repairPc' = "look" /\ UNCHANGED todo
       ELSE repairPc' = "off" /\ todo' = <<>>
    /\ UNCHANGED <<part, misEdge, service, serviceWrites, inputSame, runDir, cand, recorded,
                   repairRuns, looked, verdict>>

Ends(i, how) ==
    /\ verdict' = [verdict EXCEPT ![i] = how]
    /\ todo' = Tail(todo) /\ repairPc' = "guard" /\ looked' = NotLooked

NextLeg(i, snap) ==
    CHOOSE n \in DOMAIN LegsOf(i) :
        /\ snap[LegsOf(i)[n]] # TargetOf(i)
        /\ \A m \in 1..(n - 1) : snap[LegsOf(i)[m]] = TargetOf(i)
AtTargets(i, snap) == \A n \in DOMAIN LegsOf(i) : snap[LegsOf(i)[n]] = TargetOf(i)

\* Legs already at their target are skipped; the changed input file vetoes only
\* a write.
Look ==
    /\ repairPc = "look"
    /\ LET i == Head(todo)
           snap == Snapshot(i)
           leg == IF AtTargets(i, snap) THEN LegsOf(i)[1] ELSE LegsOf(i)[NextLeg(i, snap)]
       IN  IF ~StandsAlone(i, snap) \/ ~ChecksAll(i, snap, leg) THEN Ends(i, "conflict")
           ELSE IF AtTargets(i, snap) THEN Ends(i, "done")
           ELSE IF i \in P4Ids \cup HeldIds /\ ~inputSame THEN Ends(i, "conflict")
           ELSE looked' = snap /\ repairPc' = "write" /\ UNCHANGED <<verdict, todo>>
    /\ UNCHANGED <<part, misEdge, service, serviceWrites, inputSame, runDir, cand, recorded,
                   repairRuns>>

\* Mutant: the reclassification does not compare the graph row's digest
FitsTheId(i, leg) ==
    (i \in P2Ids /\ leg \in {"doc", "vector"}) => part[i]["graph"] = recorded[i]["graph"]

\* Writes that carry a condition of their own: the graph's digest, the registry
\* row's recorded columns, and content built from the graph row as it is now.
StillFits(i, leg) ==
    CASE leg = "graph" -> part[i]["graph"] = recorded[i]["graph"]
      [] i \in P2Ids /\ leg \in {"doc", "vector"} -> part[i]["graph"] = recorded[i]["graph"]
      [] OTHER -> TRUE

\* A registry delete that matches no row changes nothing and raises nothing.
TakesEffect(i, leg) ==
    /\ (leg = "reg" /\ i \notin P2Ids) => part[i]["reg"] = recorded[i]["reg"]
    /\ (leg = "edge") => misEdge = recorded[i]["edge"]

WriteLeg ==
    /\ repairPc = "write"
    /\ LET i == Head(todo)
           leg == LegsOf(i)[NextLeg(i, looked)]
       IN  \/ /\ StillFits(i, leg)
              /\ IF ~TakesEffect(i, leg) THEN UNCHANGED <<part, misEdge>>
                 ELSE IF leg = "edge" THEN misEdge' = "absent" /\ UNCHANGED part
                 ELSE part' = [part EXCEPT ![i][leg] = TargetOf(i)] /\ UNCHANGED misEdge
              /\ repairPc' = "after" /\ looked' = [part |-> leg] /\ UNCHANGED <<verdict, todo>>
           \/ Ends(i, "error") /\ UNCHANGED <<part, misEdge>>
    /\ UNCHANGED <<service, serviceWrites, inputSame, runDir, cand, recorded, repairRuns>>

\* The id is read once more: the leg must have reached its target.
LookAfter ==
    /\ repairPc = "after"
    /\ LET i == Head(todo)
           snap == Snapshot(i)
       IN  IF snap[looked.part] # TargetOf(i) \/ ~ChecksAll(i, snap, looked.part) THEN Ends(i, "error")
           ELSE IF looked.part = LegsOf(i)[Len(LegsOf(i))] THEN Ends(i, "done")
           ELSE repairPc' = "look" /\ looked' = NotLooked /\ UNCHANGED <<verdict, todo>>
    /\ UNCHANGED <<part, misEdge, service, serviceWrites, inputSame, runDir, cand, recorded,
                   repairRuns>>

KillRepair ==
    /\ repairPc # "off" /\ repairPc' = "off"
    /\ todo' = <<>> /\ looked' = NotLooked
    /\ UNCHANGED <<part, misEdge, service, serviceWrites, inputSame, runDir, cand, recorded,
                   repairRuns, verdict>>

-----------------------------------------------------------------------------
(* The others.                                                             *)

ServiceStarts ==
    /\ ~service /\ serviceWrites < MaxServiceWrites /\ service' = TRUE
    /\ UNCHANGED <<part, misEdge, serviceWrites, inputSame, runDir, cand, recorded, repairPc,
                   repairRuns, todo, looked, verdict>>

ServiceStops ==
    /\ service /\ service' = FALSE
    /\ UNCHANGED <<part, misEdge, serviceWrites, inputSame, runDir, cand, recorded, repairPc,
                   repairRuns, todo, looked, verdict>>

ServiceWrites ==
    /\ service /\ serviceWrites < MaxServiceWrites /\ serviceWrites' = serviceWrites + 1
    /\ \/ \E i \in MisIds, k \in Parts : part' = [part EXCEPT ![i][k] = "else"] /\ UNCHANGED misEdge
       \/ misEdge' = "else" /\ UNCHANGED part
    /\ UNCHANGED <<service, inputSame, runDir, cand, recorded, repairPc, repairRuns, todo,
                   looked, verdict>>

InputChanges ==
    /\ inputSame /\ repairPc # "off" /\ inputSame' = FALSE
    /\ UNCHANGED <<part, misEdge, service, serviceWrites, runDir, cand, recorded, repairPc,
                   repairRuns, todo, looked, verdict>>

MisNext ==
    \/ StartApply \/ StartDryRun \/ SelectIds \/ ReadApproval \/ CheckGuard \/ Look \/ WriteLeg \/ LookAfter
    \/ KillRepair \/ ServiceStarts \/ ServiceStops \/ ServiceWrites \/ InputChanges

MisSpec == MisInit /\ [][MisNext]_misVars

-----------------------------------------------------------------------------
\* The components of every id and the phases of a run.
MisTypeOK ==
    /\ \A i \in MisIds, k \in Parts : part[i][k] \in Values
    /\ misEdge \in Values /\ {service, inputSame} \subseteq BOOLEAN
    /\ runDir \in {"new", "torn", "published"} /\ cand \subseteq MisIds
    /\ repairPc \in {"off", "dry", "select", "approve", "guard", "look", "write", "after"}
    /\ \A n \in DOMAIN todo : todo[n] \in cand
    /\ \A i \in MisIds : verdict[i] \in {"none", "done", "conflict", "error"}

\* An id nobody approved is never written: a held P4 id keeps its components, or
\* has a service's.
HeldIsUntouched ==
    \A i \in HeldIds, k \in Parts : part[i][k] \in {MisInitial(i, k), "else"}

\* Done means repaired: when an id is declared done all its legs are at their
\* target, and what no leg writes is as it was selected, so the four stores agree.
\* Only a service that puts a recorded value back between two legs goes unnoticed.
DoneIsRepaired ==
    [][\A i \in MisIds :
         verdict[i] # "done" /\ verdict'[i] = "done" =>
            \A k \in DOMAIN Snapshot(i) :
                \/ IsTarget(i, k) /\ Snapshot(i)[k] = TargetOf(i)
                \/ /\ Snapshot(i)[k] = recorded[i][k]
                   /\ ~IsTarget(i, k) \/ recorded[i][k] = "else"]_misVars

\* A service's write since the selection is overwritten only where it came after
\* the tool's last look at the id, and the graph row and a deleted registry row
\* not even then.
OverwritesOnlyUnseen ==
    [][\A i \in MisIds, k \in Parts :
         part[i][k] = "else" /\ part'[i][k] # "else" =>
            /\ i \in cand
            /\ \/ recorded[i][k] = "else"
               \/ /\ looked[k] # "else"
                  /\ k # "graph" /\ (k = "reg" => i \in P2Ids)]_misVars
=============================================================================
