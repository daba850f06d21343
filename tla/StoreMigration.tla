---------------------------- MODULE StoreMigration ----------------------------
(***************************************************************************)
(* scripts/migrate_sqlite_to_pg.py and scripts/migrate_to_local.py with    *)
(* _migration_tables.py: the rows of one installation copied into another, *)
(* "pg" from SQLite to PostgreSQL and "local" back.  Documents, sources,   *)
(* credentials, the tables without a natural key and vectors follow one    *)
(* another; runs die, are repeated, and the installations may be alive.    *)
(***************************************************************************)
EXTENDS Naturals, FiniteSets, Sequences

CONSTANTS
    RowIds,                 \* of documents, sources and vectors
    Users, Tokens, UserOf,    \* credentials; whose a token is
    LocalUsers,          \* users that are their installation's local one
    Contents,            \* what a row holds
    NoRow, Unknown, NoHelper, BadContent,
    SourcesOf, TargetsOf,    \* the installations that a migration starts from
    MaxMigs, MaxChanges

\* An installation: documents, source texts with the state that their helper
\* rows claim, vectors, credentials, and how many rows have no natural key.
Rows == Contents \cup {NoRow, BadContent}
SourceRows == [text : Contents, helper : Contents \cup {NoHelper, Unknown}]
Installations ==
    [docs : [RowIds -> Rows], sources : [RowIds -> SourceRows \cup {NoRow}],
     vectors : [RowIds -> Rows], users : [Users -> Rows], tokens : [Tokens -> Rows],
     history : Nat]

ASSUME StoreMigrationAssumption ==
    /\ UserOf \in [Tokens -> Users] /\ LocalUsers \subseteq Users
    /\ {MaxMigs, MaxChanges} \subseteq Nat /\ IsFiniteSet(RowIds)
    /\ NoRow \notin Contents \cup {BadContent} \cup SourceRows \cup [id : RowIds, row : SourceRows]
    /\ {NoHelper, Unknown} \cap Contents = {}
    /\ SourcesOf \cup TargetsOf \subseteq Installations
    /\ \A inst \in TargetsOf : \A k \in RowIds :
          inst.sources[k] # NoRow /\ inst.sources[k].helper \in Contents
              => inst.sources[k].helper = inst.sources[k].text

VARIABLES
    direction, allowed,      \* pg or local; --allow-target-only-auth
    from, to,                \* the two installations
    smRun,                   \* the run: its stage, rows to copy, rows it read
    smRuns, changes, touched \* touched: to had rows of its own, or from changed

smVars == <<direction, allowed, from, to, smRun, smRuns, changes, touched>>
fixedVars == <<direction, allowed>>

Keyed == {"users", "tokens"}
RowKeys(t) == CASE t = "users" -> Users [] t = "tokens" -> Tokens [] OTHER -> RowIds
Has(inst, t) == {k \in RowKeys(t) : inst[t][k] # NoRow}

Stages(d) ==
    IF d = "pg"
    THEN <<"check", "docs", "sources", "recheck", "users", "tokens", "history", "vectors", "verify">>
    ELSE <<"check", "docs", "sources", "vectors", "recheck", "users", "tokens", "history", "verify">>
Stage == IF smRun.at = 0 THEN "idle" ELSE Stages(direction)[smRun.at]

NoRowRead == [t \in {"docs", "vectors", "sources", "users", "tokens"} |->
                    [k \in RowKeys(t) |-> NoRow]]
NotRunning == [at |-> 0, todo |-> {}, read |-> NoRowRead, count |-> 0, failed |-> FALSE,
               late |-> {}, known |-> {}, candidate |-> NoRow, rc |-> "none"]
End(rc) == [smRun EXCEPT !.at = 0, !.todo = {}, !.candidate = NoRow, !.rc = rc]

StoreMigrationInit ==
    /\ direction \in {"pg", "local"} /\ allowed \in BOOLEAN
    /\ from \in SourcesOf /\ to \in TargetsOf
    /\ smRun = NotRunning /\ smRuns = 0 /\ changes = 0
    /\ touched = (to.history > 0 \/ \E t \in DOMAIN NoRowRead : Has(to, t) # {})

-------------------------------------------------------------------------------
(* The stages of a run. *)

\* The next stage, with the rows that it has to copy.
Pending(stage) == IF stage \in DOMAIN NoRowRead THEN Has(from, stage) ELSE {}
Enter(run, n) == [run EXCEPT !.at = n, !.todo = Pending(Stages(direction)[n]),
    !.read.sources = IF Stages(direction)[n] = "sources" THEN from.sources ELSE @]

StartStoreMigration ==
    /\ smRun.at = 0 /\ smRuns < MaxMigs /\ smRuns' = smRuns + 1
    /\ smRun' = [NotRunning EXCEPT !.at = 1]
    /\ UNCHANGED <<fixedVars, from, to, changes, touched>>

\* The local user of the SQLite target with its tokens is no stranger there.
Exempt == IF direction = "pg" THEN {}
          ELSE LET mine == Has(to, "users") \cap LocalUsers
               IN mine \cup {k \in Tokens : UserOf[k] \in mine}

\* Mutant: only users are looked at.
UserStrangers == (Has(to, "users") \ Has(from, "users")) \ Exempt

\* Credentials that only the target knows.
Strangers == (UNION {Has(to, t) \ Has(from, t) : t \in Keyed}) \ Exempt

\* Two local users: the SQLite target refuses before the copy could.
TwoLocals ==
    /\ direction = "local"
    /\ LET mine == Has(to, "users") \cap LocalUsers
           theirs == Has(from, "users") \cap LocalUsers
       IN mine # {} /\ theirs # {} /\ ~(mine \subseteq theirs)

\* A value that PostgreSQL's types cannot hold.
Unfit == direction = "pg" /\ \E t \in Keyed : \E k \in RowKeys(t) : from[t][k] = BadContent

\* Before any write, and again before the first credential; a value that the
\* target's types cannot hold ends the run before the first of them, too.
CheckCredentials ==
    /\ Stage \in {"check", "recheck"}
    /\ smRun' = IF TwoLocals THEN End("failed")
                ELSE IF ~allowed /\ Strangers # {} THEN End("refused")
                ELSE IF Stage = "recheck" /\ Unfit THEN End("failed")
                ELSE Enter([smRun EXCEPT !.late = {}, !.known = UNION {Has(from, t) : t \in Keyed}],
                           smRun.at + 1)
    /\ UNCHANGED <<fixedVars, from, to, smRuns, changes, touched>>

\* Equal counts end a copy to PostgreSQL where rows are not upserted each time.
SkippedWhenEqual(t) == direction = "pg" /\ t \in {"docs", "vectors"}

SkipTable ==
    /\ Stage \in {"docs", "vectors", "users", "tokens"} /\ SkippedWhenEqual(Stage)
    /\ smRun.todo = Has(from, Stage)
    /\ Has(from, Stage) # {} /\ Cardinality(Has(to, Stage)) = Cardinality(Has(from, Stage))
    /\ smRun' = Enter([smRun EXCEPT !.read[Stage] = from[Stage]], smRun.at + 1)
    /\ UNCHANGED <<fixedVars, from, to, smRuns, changes, touched>>

\* A local Chroma keeps the vectors that it has.
Kept(k) == Stage = "vectors" /\ direction = "local" /\ to.vectors[k] # NoRow

\* A batch of documents or vectors, committed by itself.
CopyTableRow(k) ==
    /\ Stage \in {"docs", "vectors"} /\ k \in smRun.todo
    /\ ~(/\ SkippedWhenEqual(Stage) /\ smRun.todo = Has(from, Stage)
         /\ Cardinality(Has(to, Stage)) = Cardinality(Has(from, Stage)))
    /\ to' = IF from[Stage][k] = NoRow \/ Kept(k) THEN to ELSE [to EXCEPT ![Stage][k] = from[Stage][k]]
    /\ smRun' = [smRun EXCEPT !.todo = @ \ {k}, !.read[Stage][k] = from[Stage][k]]
    /\ UNCHANGED <<fixedVars, from, smRuns, changes, touched>>

EndTable ==
    /\ Stage \in {"docs", "vectors", "sources"} /\ smRun.todo = {} /\ smRun.candidate = NoRow
    /\ smRun' = Enter(smRun, smRun.at + 1)
    /\ UNCHANGED <<fixedVars, from, to, smRuns, changes, touched>>

\* migrate_docs: the cursor's copy of a source, before it is read once more.
Enumerate(k) ==
    /\ Stage = "sources" /\ direction = "local" /\ k \in smRun.todo
    /\ smRun.candidate = NoRow /\ from.sources[k] # NoRow
    /\ smRun' = [smRun EXCEPT !.candidate = [id |-> k, row |-> from.sources[k]], !.todo = @ \ {k}]
    /\ UNCHANGED <<fixedVars, from, to, smRuns, changes, touched>>

\* Mutant: what the source says of its text is taken over.
HelperAsItIs(row, same) == IF row.helper = NoHelper THEN Unknown ELSE row.helper

\* The state that the target may claim for a copied text: complete (the text's
\* own digest) only if the source's record agrees with the text; MongoDB rows
\* from before there were such records count as complete.
HelperState(row, same) ==
    CASE row.helper = NoHelper /\ direction = "pg" -> NoHelper
      [] row.helper = NoHelper /\ direction = "local" /\ same -> row.text
      [] row.helper = row.text /\ same -> row.text
      [] OTHER -> Unknown

\* migrate_docs: skipped if it is gone by the second read, doubted if it changed.
CopyCandidate ==
    /\ Stage = "sources" /\ smRun.candidate # NoRow
    /\ LET k == smRun.candidate.id
           row == from.sources[k]
       IN to' = IF row = NoRow THEN to
                ELSE [to EXCEPT !.sources[k] =
                         [text |-> row.text, helper |-> HelperState(row, row = smRun.candidate.row)]]
    /\ smRun' = [smRun EXCEPT !.candidate = NoRow]
    /\ UNCHANGED <<fixedVars, from, smRuns, changes, touched>>

HelperWritten(k, row) == HelperState(row, TRUE)

\* migrate_doc: a batch of the snapshot, its helper rows deleted and rewritten.
CopySource(k) ==
    /\ Stage = "sources" /\ direction = "pg" /\ k \in smRun.todo
    /\ LET row == smRun.read.sources[k]
       IN to' = [to EXCEPT !.sources[k] = [text |-> row.text, helper |-> HelperWritten(k, row)]]
    /\ smRun' = [smRun EXCEPT !.todo = @ \ {k}]
    /\ UNCHANGED <<fixedVars, from, smRuns, changes, touched>>

\* A credential that the target's constraints turn away: a second local user, a
\* token without its user.
Refuses(inst, t, k) ==
    \/ t = "users" /\ k \in LocalUsers /\ Has(inst, "users") \cap LocalUsers \notin SUBSET {k}
    \/ t = "tokens" /\ UserOf[k] \notin Has(inst, "users")
Refused(t, k) == Refuses(to, t, k)

\* migrate_sql to PostgreSQL: a batch, upserted and committed; it raises as one.
UpsertRow(k) ==
    /\ Stage \in Keyed /\ direction = "pg" /\ ~SkippedWhenEqual(Stage) /\ k \in smRun.todo
    /\ IF Refused(Stage, k) THEN UNCHANGED to /\ smRun' = End("failed")
       ELSE /\ to' = IF from[Stage][k] = NoRow THEN to
                     ELSE [to EXCEPT ![Stage][k] = from[Stage][k]]
            /\ smRun' = [smRun EXCEPT !.todo = @ \ {k}, !.read[Stage][k] = from[Stage][k]]
    /\ UNCHANGED <<fixedVars, from, smRuns, changes, touched>>

EndKeyed ==
    /\ Stage \in Keyed /\ direction = "pg" /\ smRun.todo = {}
    /\ smRun' = Enter(smRun, smRun.at + 1)
    /\ UNCHANGED <<fixedVars, from, to, smRuns, changes, touched>>

\* Mutant: a row that cannot be written is warned about and forgotten.
FailuresForgotten(t) == FALSE

\* Rows turned away, and keys that did not arrive.
SomeMissing(t) == \E k \in Has(from, t) : Refused(t, k)

\* migrate_sql to SQLite: one transaction for the table; what a constraint turns
\* away is counted.
UpsertTable ==
    /\ Stage \in Keyed /\ direction = "local"
    /\ to' = [to EXCEPT ![Stage] = [k \in RowKeys(Stage) |->
                 IF k \in Has(from, Stage) /\ ~Refused(Stage, k) THEN from[Stage][k] ELSE @[k]]]
    /\ smRun' = Enter([smRun EXCEPT !.failed = @ \/ SomeMissing(Stage), !.read[Stage] = from[Stage]],
                      smRun.at + 1)
    /\ UNCHANGED <<fixedVars, from, smRuns, changes, touched>>

\* The tables without a natural key.  To PostgreSQL they are left alone if there
\* is anything; to SQLite OR IGNORE finds nothing to ignore, the id is not copied.
CopyHistory ==
    /\ Stage = "history"
    /\ LET left == IF direction = "pg" /\ to.history > 0 THEN 0 ELSE from.history
       IN \/ /\ to' = [to EXCEPT !.history = @ + left]
             /\ smRun' = Enter([smRun EXCEPT !.count = from.history], smRun.at + 1)
          \/ /\ direction = "pg" /\ left > 1       \* dies between two batches
             /\ to' = [to EXCEPT !.history = @ + 1] /\ smRun' = End("died")
    /\ UNCHANGED <<fixedVars, from, smRuns, changes, touched>>

KeysArrived(t) == Has(from, t) \subseteq Has(to, t)

\* --verify, or the report of the migration to SQLite.
Verify ==
    /\ Stage = "verify"
    /\ LET fine == IF direction = "pg"
                   THEN /\ \A t \in Keyed : KeysArrived(t)
                        /\ \A t \in {"docs", "sources", "vectors"} :
                              Cardinality(Has(to, t)) = Cardinality(Has(from, t))
                        /\ to.history = smRun.count
                   ELSE ~smRun.failed /\ to.history >= smRun.count
       IN smRun' = End(IF fine THEN "ok" ELSE "mismatch")
    /\ UNCHANGED <<fixedVars, from, to, smRuns, changes, touched>>

\* Killed, or a store that stops answering; a step in a transaction is undone.
RunDies ==
    /\ smRun.at # 0 /\ smRun' = End("died")
    /\ UNCHANGED <<fixedVars, from, to, smRuns, changes, touched>>

-------------------------------------------------------------------------------
(* The installations, alive. *)

FromChanges(t, k) ==
    /\ changes < MaxChanges /\ changes' = changes + 1 /\ touched' = TRUE
    /\ \/ \E v \in Contents : from' =
             [from EXCEPT ![t][k] = IF t = "sources" THEN [text |-> v, helper |-> v] ELSE v]
       \/ /\ from[t][k] # NoRow /\ from' = [from EXCEPT ![t][k] = NoRow]
          /\ t = "users" => \A x \in Has(from, "tokens") : UserOf[x] # k
    /\ ~Refuses(from, t, k)
    /\ UNCHANGED <<fixedVars, to, smRun, smRuns>>

\* A service on the target hands out a credential: under write.lock with SQLite.
CreatesCredential(t, k) ==
    /\ changes < MaxChanges /\ changes' = changes + 1 /\ touched' = TRUE
    /\ direction = "local" => Stage \notin {"recheck", "users", "tokens", "history"}
    /\ to[t][k] = NoRow /\ ~Refused(t, k)
    /\ \E v \in Contents : to' = [to EXCEPT ![t][k] = v]
    /\ smRun' = [smRun EXCEPT !.late = @ \cup {k}]
    /\ UNCHANGED <<fixedVars, from, smRuns>>

StoreMigrationNext ==
    \/ StartStoreMigration \/ CheckCredentials \/ SkipTable \/ EndTable \/ CopyCandidate
    \/ EndKeyed \/ UpsertTable \/ CopyHistory \/ Verify \/ RunDies
    \/ \E k \in RowIds \cup Users \cup Tokens :
          \/ CopyTableRow(k) \/ Enumerate(k) \/ CopySource(k) \/ UpsertRow(k)
          \/ \E t \in DOMAIN NoRowRead :
                k \in RowKeys(t) /\ (FromChanges(t, k) \/ (t \in Keyed /\ CreatesCredential(t, k)))

StoreMigrationSpec == StoreMigrationInit /\ [][StoreMigrationNext]_smVars

-------------------------------------------------------------------------------
\* Both installations and the run keep their types.
StoreMigrationTypeOK ==
    /\ smRun.at \in 0 .. Len(Stages(direction))
    /\ smRun.rc \in {"none", "ok", "refused", "failed", "mismatch", "died"}
    /\ {from.history, to.history} \subseteq Nat
    /\ \A t \in DOMAIN NoRowRead : \A k \in RowKeys(t) :
          t # "sources" => {from[t][k], to[t][k]} \subseteq Contents \cup {NoRow, BadContent}

\* What the target claims of a copied text is about that text, whatever helper
\* rows the source or an earlier run left.
HelpersMatch ==
    \A k \in Has(to, "sources") :
        to.sources[k].helper \in Contents => to.sources[k].helper = to.sources[k].text

\* A run that ends well without the flag leaves no credential in the target that
\* the source does not know, but for the target's own local user and what its
\* service hands out after the last check.
CredentialsAreVouched ==
    smRun.rc = "ok" /\ ~allowed =>
        \A t \in Keyed : \A k \in Has(to, t) :
            k \in smRun.late \cup Exempt \cup smRun.known \/ smRun.read[t][k] # NoRow

\* A run that ends well gave every credential the content that it has in the
\* source, so that a revocation arrives; and a run from an untouched source into
\* an empty target, whatever earlier runs left half done, gave everything.
ExitZeroIsACopy ==
    smRun.rc = "ok" =>
        /\ \A t \in Keyed : \A k \in RowKeys(t) :
              smRun.read[t][k] # NoRow => to[t][k] = smRun.read[t][k]
        /\ ~touched =>
              /\ \A t \in {"docs", "vectors", "users", "tokens"} : to[t] = from[t]
              /\ \A k \in RowIds : /\ (from.sources[k] = NoRow) = (to.sources[k] = NoRow)
                                /\ to.sources[k] # NoRow => to.sources[k].text = from.sources[k].text
              /\ IF direction = "pg" THEN to.history = from.history ELSE to.history >= from.history

\* What a migration's results can be relied on for.
MigrationIsHonest == HelpersMatch /\ CredentialsAreVouched /\ ExitZeroIsACopy
===============================================================================
