---------------------------- MODULE SchemaPacks -----------------------------
(***************************************************************************)
(* schemas/pack_registry.py and schemas/loader.py: a schema pack is        *)
(* installed as one YAML file per node type in a directory shared with     *)
(* files people write by hand.  Install and uninstall decide about each    *)
(* file by looking at it, then write or unlink it in a later step; nothing *)
(* locks the directory and a write is not atomic.  Each process caches the *)
(* schemas it has loaded.                                                  *)
(***************************************************************************)
EXTENDS Integers, FiniteSets

CONSTANTS
    SchemaPackNames,
    TypesOf,           \* the types of a pack's manifest
    Installers,        \* server threads that run the tools
    MaxToolCalls,      \* install and uninstall calls
    MaxEdits           \* edits of a person

SchemaTypes == UNION {TypesOf[p] : p \in SchemaPackNames}

\* "none" stands for no pack's header.
ASSUME SchemaAssumption ==
    MaxToolCalls \in Nat /\ MaxEdits \in Nat /\ "none" \notin SchemaPackNames

VARIABLES
    file,        \* the file of each type
    cache,       \* what the loader has cached, or Unloaded
    job,         \* the call each thread runs
    toolCalls, edits

schemaVars == <<file, cache, job, toolCalls, edits>>

\* by: who wrote the content; header: the pack of the generated header; says:
\* the packs named by a "pack: <name>" anywhere in it; fields: the required ones.
Absent == [by |-> "nobody", header |-> "none", says |-> {}, shape |-> "none", fields |-> {}]
Torn == [Absent EXCEPT !.by = "tool", !.shape = "torn"]      \* truncated, not yet written
Unloaded == [Absent EXCEPT !.by = "unloaded"]
Generated(p, shape, fields) ==
    [by |-> "tool", header |-> p, says |-> {p}, shape |-> shape, fields |-> fields]
ByHand(says, shape, fields) ==
    [by |-> "user", header |-> "none", says |-> says, shape |-> shape, fields |-> fields]

Idle == [call |-> "none"]
Busy(n) == job[n].call # "none"

\* Old installations left files of the legacy shape.
SchemaInit ==
    /\ file \in [SchemaTypes -> {Absent} \cup {Generated(p, "legacy", {"name"}) : p \in SchemaPackNames}]
    /\ \A p \in SchemaPackNames, t \in SchemaTypes : file[t].header = p => t \in TypesOf[p]
    /\ cache = [t \in SchemaTypes |-> Unloaded]
    /\ job = [n \in Installers |-> Idle]
    /\ toolCalls = 0 /\ edits = 0

-----------------------------------------------------------------------------
(* Calls.                                                                  *)

StartCall(n, call, p, force) ==
    /\ ~Busy(n) /\ toolCalls < MaxToolCalls /\ toolCalls' = toolCalls + 1
    /\ job' = [job EXCEPT ![n] = [call |-> call, of |-> p, force |-> force, left |-> TypesOf[p],
                                  at |-> "next", type |-> CHOOSE t \in TypesOf[p] : TRUE,
                                  saw |-> Absent, wrote |-> {}]]
    /\ UNCHANGED <<file, cache, edits>>

\* Mutant: the pack's name in the file is taken for the header
NamesThePack(f, p) == p \in f.says

\* _has_generation_marker
HasMarker(f, p) == f.header = p

\* What install may write: a type without a file, or its own stub of old.
Installable(f, p) == f = Absent \/ (f.shape = "legacy" /\ HasMarker(f, p))

\* uninstall_pack: the pack's name anywhere in the content.
Removable(f, p, force) == f # Absent /\ (p \in f.says \/ force)

LookAtFile(n) ==
    /\ Busy(n) /\ job[n].at = "next"
    /\ \E t \in job[n].left :
         LET acts == IF job[n].call = "install" THEN Installable(file[t], job[n].of)
                     ELSE Removable(file[t], job[n].of, job[n].force)
         IN  job' = [job EXCEPT ![n].left = @ \ {t}, ![n].type = t, ![n].saw = file[t],
                                ![n].at = IF acts THEN "act" ELSE "next"]
    /\ UNCHANGED <<file, cache, toolCalls, edits>>

\* Mutant: a regenerated file has the manifest's fields only
ManifestFields(saw) == {"name"}

\* The manifest's required fields, and those the stub had.
RegeneratedFields(saw) == {"name"} \cup saw.fields

\* write_text truncates and then writes.
TruncateFile(n) ==
    /\ Busy(n) /\ job[n].call = "install" /\ job[n].at = "act"
    /\ file' = [file EXCEPT ![job[n].type] = Torn]
    /\ job' = [job EXCEPT ![n].at = "write"]
    /\ UNCHANGED <<cache, toolCalls, edits>>
WriteFile(n) ==
    /\ Busy(n) /\ job[n].at = "write"
    /\ file' = [file EXCEPT ![job[n].type] = Generated(job[n].of, "current", RegeneratedFields(job[n].saw))]
    /\ job' = [job EXCEPT ![n].at = "next", ![n].wrote = @ \cup {job[n].type}]
    /\ UNCHANGED <<cache, toolCalls, edits>>

\* unlink of a file that is gone by now raises and is reported as kept.
UnlinkFile(n) ==
    /\ Busy(n) /\ job[n].call = "uninstall" /\ job[n].at = "act"
    /\ file' = [file EXCEPT ![job[n].type] = Absent]
    /\ job' = [job EXCEPT ![n].at = "next"]
    /\ UNCHANGED <<cache, toolCalls, edits>>

\* install drops the whole cache and loads what it wrote; uninstall does not.
EndCall(n) ==
    /\ Busy(n) /\ job[n].at = "next" /\ job[n].left = {}
    /\ cache' = [t \in SchemaTypes |->
                    IF t \in job[n].wrote THEN file[t]
                    ELSE IF job[n].wrote # {} THEN Unloaded ELSE cache[t]]
    /\ job' = [job EXCEPT ![n] = Idle]
    /\ UNCHANGED <<file, toolCalls, edits>>

\* A node write of a type loads its schema; a missing file is cached too.
LoadSchema(t) ==
    /\ cache[t] = Unloaded
    /\ cache' = [cache EXCEPT ![t] = file[t]]
    /\ UNCHANGED <<file, job, toolCalls, edits>>

\* The server is killed: its calls end where they are and its cache is gone.
KillServer ==
    /\ \E n \in Installers : Busy(n)
    /\ job' = [n \in Installers |-> Idle] /\ cache' = [t \in SchemaTypes |-> Unloaded]
    /\ UNCHANGED <<file, toolCalls, edits>>

\* A person writes a file of their own, or adds a required field to a stub.
EditByHand(t) ==
    /\ edits < MaxEdits /\ edits' = edits + 1
    /\ \/ /\ file[t].by # "tool"
          /\ \E says \in SUBSET SchemaPackNames, shape \in {"legacy", "current"} :
               file' = [file EXCEPT ![t] = ByHand(says, shape, {"own"})]
       \/ /\ file[t].by = "tool" /\ file[t].shape # "torn"
          /\ file' = [file EXCEPT ![t].fields = @ \cup {"own"}]
    /\ UNCHANGED <<cache, job, toolCalls>>

SchemaNext ==
    \/ \E n \in Installers :
         \/ \E p \in SchemaPackNames :
              \/ StartCall(n, "install", p, FALSE)
              \/ \E force \in BOOLEAN : StartCall(n, "uninstall", p, force)
         \/ LookAtFile(n) \/ TruncateFile(n) \/ WriteFile(n) \/ UnlinkFile(n) \/ EndCall(n)
    \/ KillServer \/ \E t \in SchemaTypes : LoadSchema(t) \/ EditByHand(t)

SchemaSpec == SchemaInit /\ [][SchemaNext]_schemaVars

-----------------------------------------------------------------------------
\* A file is a person's, a tool's or absent, and a call is at a step of its own.
SchemaTypeOK ==
    /\ \A t \in SchemaTypes : file[t].by \in {"nobody", "tool", "user"}
    /\ \A n \in Installers : Busy(n) =>
         /\ job[n].left \subseteq TypesOf[job[n].of] /\ job[n].wrote \subseteq TypesOf[job[n].of]
         /\ job[n].at \in (IF job[n].call = "install" THEN {"next", "act", "write"} ELSE {"next", "act"})

\* A person's file goes only if it came after the tool had looked, if the
\* uninstall was forced, or if the file names the pack being uninstalled.  The last
\* is what pack_registry.py:610 does; its docstring promises RemovesOnlyGenerated.
SparesPeoplesFiles ==
    [][\A t \in SchemaTypes :
         (file[t].by = "user" /\ file'[t].by # "user") =>
            \E n \in Installers :
                /\ Busy(n) /\ job[n].type = t
                /\ \/ job[n].saw # file[t]
                   \/ job[n].call = "uninstall" /\ (job[n].force \/ job[n].of \in file[t].says)]_schemaVars

\* No required field is lost when a stub is brought to the current shape: a file
\* that is written over still asks for what it asked for when it was looked at.
MigrationKeepsFields ==
    [][\A n \in Installers :
         (Busy(n) /\ job[n].at = "write" /\ Busy(n)' /\ job'[n].at = "next") =>
            job[n].saw.fields \subseteq file'[job[n].type].fields]_schemaVars

\* What uninstall_pack says of itself: it removes what it generated, and a
\* person's file only by force, or unseen.  The code does not keep this of a file
\* whose text holds the marker anywhere (README, 5).
RemovesOnlyGenerated ==
    [][\A t \in SchemaTypes :
         (file[t].by = "user" /\ file'[t] = Absent) =>
            \E n \in Installers : Busy(n) /\ job[n].type = t /\ (job[n].force \/ job[n].saw # file[t])]_schemaVars
=============================================================================
