--------------------------- MODULE LocalBootstrap ---------------------------
(***************************************************************************)
(* The one local user of a data directory (auth.py).  MCP servers on stdio *)
(* start on a directory that may be empty and create the user themselves   *)
(* under bootstrap.lock (maybe_bootstrap_on_empty), `opencrab init` creates *)
(* it without that lock, and only the unique index of the users table is   *)
(* common to both.  Processes die, and the user may be disabled meanwhile. *)
(***************************************************************************)
EXTENDS Naturals, FiniteSets

CONSTANTS
    Servers,      \* stdio servers with OPENCRAB_BOOTSTRAP_ON_EMPTY=1
    Inits,        \* runs of opencrab init
    NoUser,
    MaxBootFaults \* bound: deaths, and the user disabled or enabled

Starts == Servers \cup Inits

ASSUME BootstrapAssumption ==
    NoUser \notin Starts /\ Servers \cap Inits = {} /\ MaxBootFaults \in Nat

VARIABLES
    dbTables,   \* the users table and its index exist
    localUsers, \* local users: named by the process that inserted them
    off,        \* those disabled
    bootLock,   \* the process that holds bootstrap.lock, NoUser when free
    bootAt,     \* where each process is
    runsAs,     \* the user a server runs as, or the one init reports
    sawOn,      \* users seen enabled since each process started
    bootFaults

bootVars == <<dbTables, localUsers, off, bootLock, bootAt, runsAs, sawOn, bootFaults>>

BootstrapTypeOK ==
    /\ dbTables \in BOOLEAN
    /\ localUsers \subseteq Starts /\ off \subseteq localUsers
    /\ bootLock \in Servers \cup {NoUser}
    /\ bootAt \in [Starts -> {"idle", "lock", "recheck", "create", "probe", "read", "insert", "final",
                              "require", "started", "refused", "dead"}]
    /\ runsAs \in [Starts -> Starts \cup {NoUser}]
    /\ sawOn \in [Starts -> SUBSET Starts]
    /\ bootFaults \in 0 .. MaxBootFaults

BootstrapInit ==
    /\ dbTables \in BOOLEAN
    /\ localUsers = {} /\ off = {}
    /\ bootLock = NoUser
    /\ bootAt = [x \in Starts |-> "idle"]
    /\ runsAs = [x \in Starts |-> NoUser]
    /\ sawOn = [x \in Starts |-> {}]
    /\ bootFaults = 0

-----------------------------------------------------------------------------
\* Moves x on; a process that leaves the locked part gives the lock back.
Moves(x, place) ==
    /\ bootAt' = [bootAt EXCEPT ![x] = place]
    /\ bootLock' = IF bootLock = x /\ place \in {"started", "refused", "require", "dead"}
                   THEN NoUser ELSE bootLock

\* Ends x with the user u.
StartsAs(x, u) == runsAs' = [runsAs EXCEPT ![x] = u] /\ Moves(x, "started")

\* get_local_user, where a missing table is a missing user.
LocalUser == IF localUsers = {} THEN NoUser ELSE CHOOSE u \in localUsers : TRUE

\* Mutant: the last look returns whatever user there is.
FoundAnyway(x, otherwise) ==
    \/ LocalUser # NoUser /\ StartsAs(x, LocalUser)
    \/ LocalUser = NoUser /\ Moves(x, otherwise) /\ UNCHANGED runsAs

\* _discover_local_user: an enabled user is the answer, a disabled one is left
\* to require_local_principal, no user sends x on.
Discover(x, otherwise) ==
    \/ LocalUser # NoUser /\ LocalUser \notin off /\ StartsAs(x, LocalUser)
    \/ LocalUser \in off /\ Moves(x, "require") /\ UNCHANGED runsAs
    \/ LocalUser = NoUser /\ Moves(x, otherwise) /\ UNCHANGED runsAs

\* The first look, without the lock.
Begin(s) ==
    /\ s \in Servers /\ bootAt[s] = "idle"
    /\ sawOn' = [sawOn EXCEPT ![s] = localUsers \ off]
    /\ Discover(s, "lock")
    /\ UNCHANGED <<dbTables, localUsers, off, bootFaults>>

TakeBootLock(s) ==
    /\ bootAt[s] = "lock" /\ bootLock = NoUser
    /\ bootLock' = s
    /\ bootAt' = [bootAt EXCEPT ![s] = "recheck"]
    /\ UNCHANGED <<dbTables, localUsers, off, runsAs, sawOn, bootFaults>>

\* 30 seconds pass: the server refuses to start.
BootLockTimeout(s) ==
    /\ bootAt[s] = "lock" /\ bootLock # NoUser
    /\ Moves(s, "refused")
    /\ UNCHANGED <<dbTables, localUsers, off, runsAs, sawOn, bootFaults>>

Recheck(s) ==
    /\ bootAt[s] \in {"recheck", "probe"}
    /\ Discover(s, IF bootAt[s] = "recheck" THEN "create" ELSE "read")
    /\ UNCHANGED <<dbTables, localUsers, off, sawOn, bootFaults>>

\* SQLStore(create_tables=True): done, or the store is not available.
CreateTables(x) ==
    /\ \/ x \in Servers /\ bootAt[x] = "create"
       \/ x \in Inits /\ bootAt[x] = "idle"
    /\ \/ dbTables' = TRUE /\ Moves(x, IF x \in Servers THEN "probe" ELSE "read")
       \/ UNCHANGED dbTables /\ Moves(x, "refused")
    /\ sawOn' = IF x \in Inits THEN [sawOn EXCEPT ![x] = localUsers \ off] ELSE sawOn
    /\ UNCHANGED <<localUsers, off, runsAs, bootFaults>>

\* bootstrap_local_user_idempotent looks; init is content with any local user.
ReadUser(x) ==
    /\ bootAt[x] = "read"
    /\ IF LocalUser = NoUser THEN Moves(x, "insert") /\ UNCHANGED runsAs
       ELSE IF x \in Inits THEN StartsAs(x, LocalUser)
       ELSE Moves(x, "final") /\ UNCHANGED runsAs
    /\ UNCHANGED <<dbTables, localUsers, off, sawOn, bootFaults>>

\* Mutant: without idx_users_single_local nothing keeps a second one out.
InsertUnchecked(x) ==
    /\ bootAt[x] = "insert"
    /\ localUsers' = localUsers \cup {x}
    /\ sawOn' = [y \in Starts |-> sawOn[y] \cup {x}]
    /\ IF x \in Inits THEN StartsAs(x, x) ELSE Moves(x, "final") /\ UNCHANGED runsAs
    /\ UNCHANGED <<dbTables, off, bootFaults>>

\* bootstrap_local_user in one transaction: the row, or the unique index names
\* a winner, who is read again.
InsertUser(x) ==
    /\ bootAt[x] = "insert"
    /\ localUsers' = IF localUsers = {} THEN {x} ELSE localUsers
    /\ sawOn' = IF localUsers = {} THEN [y \in Starts |-> sawOn[y] \cup {x}] ELSE sawOn
    /\ IF x \in Inits THEN StartsAs(x, IF localUsers = {} THEN x ELSE LocalUser)
       ELSE Moves(x, "final") /\ UNCHANGED runsAs
    /\ UNCHANGED <<dbTables, off, bootFaults>>

\* The last look of maybe_bootstrap_on_empty.
FinalLook(s) ==
    /\ bootAt[s] = "final"
    /\ Discover(s, "require")
    /\ UNCHANGED <<dbTables, localUsers, off, sawOn, bootFaults>>

\* require_local_principal: an enabled local user, or no start.
Require(s) ==
    /\ bootAt[s] = "require"
    /\ \/ LocalUser # NoUser /\ LocalUser \notin off /\ StartsAs(s, LocalUser)
       \/ (LocalUser = NoUser \/ LocalUser \in off) /\ Moves(s, "refused") /\ UNCHANGED runsAs
    /\ UNCHANGED <<dbTables, localUsers, off, sawOn, bootFaults>>

-----------------------------------------------------------------------------
\* A process dies; the operating system frees its lock.
BootDies(x) ==
    /\ bootFaults < MaxBootFaults
    /\ bootAt[x] \notin {"idle", "dead"}
    /\ Moves(x, "dead")
    /\ bootFaults' = bootFaults + 1
    /\ UNCHANGED <<dbTables, localUsers, off, runsAs, sawOn>>

\* opencrab user disable and enable.
SwitchUser(u) ==
    /\ bootFaults < MaxBootFaults
    /\ u \in localUsers
    /\ off' = IF u \in off THEN off \ {u} ELSE off \cup {u}
    /\ sawOn' = [y \in Starts |-> sawOn[y] \cup (localUsers \ off')]
    /\ bootFaults' = bootFaults + 1
    /\ UNCHANGED <<dbTables, localUsers, bootLock, bootAt, runsAs>>

StartStep(x) ==
    \/ Begin(x) \/ TakeBootLock(x) \/ BootLockTimeout(x) \/ Recheck(x)
    \/ CreateTables(x) \/ ReadUser(x) \/ InsertUser(x) \/ FinalLook(x) \/ Require(x)

BootstrapNext ==
    \/ \E x \in Starts : StartStep(x) \/ BootDies(x)
    \/ \E u \in Starts : SwitchUser(u)

BootstrapSpec == BootstrapInit /\ [][BootstrapNext]_bootVars

-----------------------------------------------------------------------------
\* However servers and init runs meet on an empty directory, and wherever they
\* die, there is at most one local user; every one of them that ended well
\* means that user, and a server runs as it only if it was enabled at some
\* moment since the server began to look.
OneLocalUser ==
    /\ Cardinality(localUsers) <= 1
    /\ \A x \in Starts : bootAt[x] = "started" =>
          /\ runsAs[x] \in localUsers
          /\ x \in Servers => runsAs[x] \in sawOn[x]
=============================================================================
