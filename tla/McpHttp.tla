------------------------------- MODULE McpHttp -------------------------------
(***************************************************************************)
(* The HTTP endpoint of the MCP server: mcp/http_app.py, the dispatch of   *)
(* mcp/server.py and mcp/tools, and the tokens of auth.py.                 *)
(*                                                                         *)
(* A request passes the origin guard, waits on the event loop while one    *)
(* worker thread looks its token up, is checked as a protocol message and  *)
(* runs its tool calls on the loop's own thread (none), on the write pool  *)
(* (one thread) or on the read pool, as the principal of its token.  The   *)
(* token store may hang: only the deadline bounds that wait.  The users'   *)
(* tokens and accounts change while requests are under way.                *)
(***************************************************************************)
EXTENDS Integers, Sequences, FiniteSets, SequencesExt

CONSTANTS
    Requests,     \* HTTP requests
    Accounts,     \* users
    LocalAccount, \* the one with is_local
    Secrets,      \* tokens issued to users
    AccountOf,    \* the user of each token
    ToolNames,    \* registered tools
    Access,       \* their access tier: "READ", "WRITE" or "LOCAL"
    WritingTools, \* those registered with writes=True
    NotATool,     \* the name in a message that is no tools/call
    NoSecret,     \* a request without a usable token
    NoAccount,
    Asks,         \* the messages each client may send
    QueueLimit,   \* _AUTH_QUEUE_LIMIT
    ReadWorkers,  \* _READ_WORKERS
    StoresToOpen, \* stores _build_context opens, one after another
    MaxAdmin   \* bound: what other processes do to tokens, accounts and the lock

Nobody == "nobody"
OtherProcess == "other process"

\* A parsed message: one object with one method, or a batch of them.
Messages ==
    {m \in [secret : Secrets \cup {NoSecret}, origin : BOOLEAN, id : BOOLEAN, batch : BOOLEAN,
            form : {"legacy", "modern", "malformed", "mismatched", "garbled"},
            calls : Seq([tool : ToolNames \cup {NotATool}, forged : BOOLEAN])] :
        m.batch \/ Len(m.calls) <= 1}

ASSUME HttpAssumption ==
    /\ {Nobody, OtherProcess} \cap Requests = {} /\ "unavailable" \notin Accounts
    /\ \A r \in Requests : Asks[r] \subseteq Messages
    /\ LocalAccount \in Accounts /\ NoAccount \notin Accounts
    /\ AccountOf \in [Secrets -> Accounts] /\ NoSecret \notin Secrets
    /\ Access \in [ToolNames -> {"READ", "WRITE", "LOCAL"}] /\ NotATool \notin ToolNames
    /\ WritingTools \subseteq ToolNames
    /\ QueueLimit \in Nat \ {0} /\ ReadWorkers \in Nat \ {0} /\ StoresToOpen \in Nat \ {0}

VARIABLES
    versions,   \* protocol generations enabled
    ask,        \* what each request carries
    at,         \* where it is
    job,        \* its token lookup: queued, being run, answered or not there
    found,      \* what the lookup read
    authQueue,  \* the lookups waiting for the worker
    principal,  \* the principal bound in the request's context
    pool,       \* where its calls run
    line,       \* requests waiting for a thread of each pool
    pos,        \* the call it is at
    answer,     \* the status it got
    revoked,    \* tokens revoked
    disabled,   \* accounts disabled
    outside,
    writeLock,  \* who holds write.lock
    builder,    \* who is in _build_context, under the init lock
    opened,     \* stores open in this process
    ready,      \* _context is published
    vouched,    \* requests whose token was good at some moment since they came
    done        \* what tools have done: request, principal, tool, forged

httpVars == <<versions, ask, at, job, found, authQueue, principal, pool, line, pos, answer,
              revoked, disabled, outside, writeLock, builder, opened, ready, vouched, done>>
accountVars == <<revoked, disabled, outside>>
contextVars == <<writeLock, builder, opened, ready>>
lookupVars == <<job, found, authQueue>>

-----------------------------------------------------------------------------
Statuses == {"none", "200", "202", "400", "401", "403", "503", "gone"}

\* Mutant: the join with users does not ask whether the user is disabled.
TokenIsActive(s) == s \in Secrets \ revoked

\* verify_token: the token is active and its user enabled, as the row is read.
TokenIsGood(s) == s \in Secrets \ revoked /\ AccountOf[s] \notin disabled

\* For the history only: whom an active token of an enabled user speaks for.
Entitled(s) == s \in Secrets /\ s \notin revoked /\ AccountOf[s] \notin disabled

VerifyToken(s) == IF TokenIsGood(s) THEN AccountOf[s] ELSE NoAccount

\* Mutant: a hidden tool is only left out of the list.
ToolKnown(tool, a) == tool \in ToolNames

\* allowed_access_tiers: the local principal may call every tool.
Tiers(a) == IF a = LocalAccount THEN {"READ", "WRITE", "LOCAL"} ELSE {"READ", "WRITE"}
ToolAllowed(tool, a) == tool \in ToolNames /\ Access[tool] \in Tiers(a)

\* mcp_post refuses the message before anything runs.
HttpFault(a) ==
    \/ a.form \in {"garbled", "mismatched"}
    \/ a.batch /\ (a.form # "legacy" \/ "legacy" \notin versions)
    \/ ~a.id /\ (a.form = "malformed" \/ a.form \notin versions)

\* handle_request refuses it: _handle_modern's validation, or a disabled generation.
ServerFault(a) == a.form = "malformed" \/ a.form \notin versions

CallsOf(r) == IF ServerFault(ask[r]) THEN <<>> ELSE ask[r].calls
Call(r) == CallsOf(r)[pos[r]]

\* _call_kind and _choose_pool: what the message's tools/call items need.
ToolKinds(r) ==
    {IF ToolAllowed(c.tool, principal[r]) THEN IF c.tool \in WritingTools THEN "write" ELSE "read"
     ELSE "unknown" : c \in {d \in Range(ask[r].calls) : d.tool # NotATool}}

\* Mutant: reads go to the read pool, whether or not the context is built.
ReadersRead(r) ==
    IF ToolKinds(r) = {} THEN "loop" ELSE IF "write" \in ToolKinds(r) THEN "write" ELSE "read"

ChoosePool(r) ==
    CASE ToolKinds(r) = {} -> "loop"
      [] "write" \in ToolKinds(r) -> "write"
      [] ToolKinds(r) = {"unknown"} -> "read"
      [] OTHER -> IF ready THEN "read" ELSE "write"

Width(p) == IF p = "read" THEN ReadWorkers ELSE 1
RunningOn(p) == {r \in Requests : at[r] = "running" /\ pool[r] = p}

Goes(r, place) == at' = [at EXCEPT ![r] = place]

Answers(r, status) ==
    /\ Goes(r, "done")
    /\ answer' = [answer EXCEPT ![r] = status]

-----------------------------------------------------------------------------
HttpTypeOK ==
    /\ versions \in SUBSET {"legacy", "modern"}
    /\ \A r \in Requests : ask[r] \in Asks[r]
    /\ at \in [Requests -> {"idle", "waiting", "cleared", "pooled", "running", "done"}]
    /\ job \in [Requests -> {"none", "queued", "looking", "settling"}]
    /\ found \in [Requests -> Accounts \cup {NoAccount, "unavailable"}]
    /\ authQueue \in Seq(Requests) /\ Len(authQueue) <= QueueLimit
    /\ principal \in [Requests -> Accounts \cup {NoAccount}]
    /\ pool \in [Requests -> {"loop", "read", "write"}]
    /\ line \in [{"read", "write"} -> Seq(Requests)]
    /\ pos \in [Requests -> Nat \ {0}]
    /\ answer \in [Requests -> Statuses]
    /\ revoked \subseteq Secrets /\ disabled \subseteq Accounts /\ outside \in Nat
    /\ writeLock \in Requests \cup {Nobody, OtherProcess}
    /\ builder \in Requests \cup {Nobody}
    /\ opened \in 0 .. StoresToOpen /\ ready \in BOOLEAN
    /\ vouched \subseteq Requests
    /\ done \subseteq [by : Requests, as : Accounts \cup {NoAccount}, tool : ToolNames, forged : BOOLEAN]

HttpInit ==
    /\ versions \in {{"legacy", "modern"}, {"modern"}}
    /\ ask \in {f \in [Requests -> UNION {Asks[r] : r \in Requests}] : \A r \in Requests : f[r] \in Asks[r]}
    /\ at = [r \in Requests |-> "idle"]
    /\ job = [r \in Requests |-> "none"]
    /\ found = [r \in Requests |-> NoAccount]
    /\ authQueue = <<>>
    /\ principal = [r \in Requests |-> NoAccount]
    /\ pool = [r \in Requests |-> "loop"]
    /\ line = [p \in {"read", "write"} |-> <<>>]
    /\ pos = [r \in Requests |-> 1]
    /\ answer = [r \in Requests |-> "none"]
    /\ revoked = {} /\ disabled \in {{}} \cup {{a} : a \in Accounts} /\ outside = 0
    /\ writeLock = Nobody /\ builder = Nobody /\ opened = 0 /\ ready = FALSE
    /\ vouched = {} /\ done = {}

-----------------------------------------------------------------------------
(* On the event loop: the guard, the token check, the protocol checks.     *)

\* Mutant: the check counts the lookups without the one that comes.
RoomForOneMore == Len(authQueue) <= QueueLimit

RoomInQueue == Len(authQueue) < QueueLimit

\* The origin guard, _presented and the full queue answer at once.
Turn(r, status) ==
    /\ at[r] = "idle"
    /\ \/ status = "403" /\ ~ask[r].origin
       \/ status = "401" /\ ask[r].origin /\ ask[r].secret = NoSecret
       \/ status = "503" /\ ask[r].origin /\ ask[r].secret # NoSecret /\ ~RoomInQueue
    /\ Answers(r, status)
    /\ UNCHANGED <<versions, ask, lookupVars, principal, pool, line, pos, accountVars, contextVars,
                   vouched, done>>

\* _check_off_loop submits the lookup to the auth worker and waits.
Arrive(r) ==
    /\ at[r] = "idle"
    /\ ask[r].origin /\ ask[r].secret # NoSecret /\ RoomInQueue
    /\ Goes(r, "waiting")
    /\ job' = [job EXCEPT ![r] = "queued"]
    /\ authQueue' = Append(authQueue, r)
    /\ vouched' = IF Entitled(ask[r].secret) THEN vouched \cup {r} ELSE vouched
    /\ UNCHANGED <<versions, ask, found, principal, pool, line, pos, answer, accountVars,
                   contextVars, done>>

\* Mutant: only the client's patience ends the wait.
WaitsForTheStore(r, status) ==
    /\ at[r] = "waiting"
    /\ status = "gone"
    /\ Answers(r, status)
    /\ UNCHANGED <<versions, ask, lookupVars, principal, pool, line, pos, accountVars, contextVars,
                   vouched, done>>

\* The deadline passes, or the request is cancelled: the job is abandoned and
\* the future cancelled, wherever the worker is with it.
GiveUpWaiting(r, status) ==
    /\ at[r] = "waiting"
    /\ status \in {"503", "gone"}
    /\ Answers(r, status)
    /\ UNCHANGED <<versions, ask, lookupVars, principal, pool, line, pos, accountVars, contextVars,
                   vouched, done>>

\* Mutant: settle does not look whether the request gave up.
SettleAnyway(r) ==
    /\ job[r] = "settling"
    /\ job' = [job EXCEPT ![r] = "none"]
    /\ \/ /\ found[r] \in Accounts
          /\ principal' = [principal EXCEPT ![r] = found[r]]
          /\ Goes(r, "cleared")
          /\ UNCHANGED answer
       \/ /\ found[r] \notin Accounts
          /\ Answers(r, IF found[r] = NoAccount THEN "401" ELSE "503")
          /\ UNCHANGED principal
    /\ UNCHANGED <<versions, ask, found, authQueue, pool, line, pos, accountVars, contextVars,
                   vouched, done>>

\* settle, on the loop, for a request that still waits: principal_scope, 401 or 503.
Settle(r) ==
    /\ job[r] = "settling" /\ at[r] = "waiting"
    /\ job' = [job EXCEPT ![r] = "none"]
    /\ \/ /\ found[r] \in Accounts
          /\ principal' = [principal EXCEPT ![r] = found[r]]
          /\ Goes(r, "cleared")
          /\ UNCHANGED answer
       \/ /\ found[r] \notin Accounts
          /\ Answers(r, IF found[r] = NoAccount THEN "401" ELSE "503")
          /\ UNCHANGED principal
    /\ UNCHANGED <<versions, ask, found, authQueue, pool, line, pos, accountVars, contextVars,
                   vouched, done>>

\* settle for one that gave up does nothing.
SettleTooLate(r) ==
    /\ job[r] = "settling" /\ at[r] # "waiting"
    /\ job' = [job EXCEPT ![r] = "none"]
    /\ UNCHANGED <<versions, ask, at, found, authQueue, principal, pool, line, pos, answer, accountVars,
                   contextVars, vouched, done>>

\* mcp_post: a fault is answered, a message without tool calls is handled on
\* the loop's thread.
HandleOnLoop(r) ==
    /\ at[r] = "cleared"
    /\ HttpFault(ask[r]) \/ ChoosePool(r) = "loop"
    /\ Answers(r, IF HttpFault(ask[r]) \/ ServerFault(ask[r]) THEN "400"
                  ELSE IF ask[r].id THEN "200" ELSE "202")
    /\ UNCHANGED <<versions, ask, lookupVars, principal, pool, line, pos, accountVars, contextVars,
                   vouched, done>>

\* _offload: the rest runs on a pool thread with a copy of the context.
Offload(r) ==
    /\ at[r] = "cleared"
    /\ ~HttpFault(ask[r]) /\ ChoosePool(r) # "loop"
    /\ pool' = [pool EXCEPT ![r] = ChoosePool(r)]
    /\ line' = [line EXCEPT ![ChoosePool(r)] = Append(@, r)]
    /\ Goes(r, "pooled")
    /\ UNCHANGED <<versions, ask, lookupVars, principal, pos, answer, accountVars, contextVars,
                   vouched, done>>

-----------------------------------------------------------------------------
(* The auth worker's thread.                                               *)

WorkerIsFree == \A r \in Requests : job[r] # "looking"

\* _AuthJob.run skips an abandoned job.
TakeLookup ==
    /\ WorkerIsFree /\ authQueue # <<>>
    /\ authQueue' = Tail(authQueue)
    /\ job' = [job EXCEPT ![Head(authQueue)] =
                   IF at[Head(authQueue)] = "waiting" THEN "looking" ELSE "none"]
    /\ UNCHANGED <<versions, ask, at, found, principal, pool, line, pos, answer, accountVars, contextVars,
                   vouched, done>>

\* _lookup: the row, or a store that is busy or away.  Any other error is nobody.
LookUp(r) ==
    /\ job[r] = "looking"
    /\ job' = [job EXCEPT ![r] = "settling"]
    /\ \E seen \in {VerifyToken(ask[r].secret), NoAccount, "unavailable"} :
          found' = [found EXCEPT ![r] = seen]
    /\ UNCHANGED <<versions, ask, at, authQueue, principal, pool, line, pos, answer, accountVars, contextVars,
                   vouched, done>>

-----------------------------------------------------------------------------
(* A pool thread, and dispatch_tool.                                       *)

StartOnPool(p) ==
    /\ line[p] # <<>> /\ Cardinality(RunningOn(p)) < Width(p)
    /\ line' = [line EXCEPT ![p] = Tail(@)]
    /\ Goes(Head(line[p]), "running")
    /\ UNCHANGED <<versions, ask, lookupVars, principal, pool, pos, answer, accountVars, contextVars,
                   vouched, done>>

AtCall(r) == at[r] = "running" /\ pos[r] <= Len(CallsOf(r))
Dispatched(r) == ToolAllowed(Call(r).tool, principal[r]) /\ ~Call(r).forged
NextCall(r) == pos' = [pos EXCEPT ![r] = @ + 1]

\* ping, an unknown or hidden tool, an identity in the arguments: no lock, no context.
RejectCall(r) ==
    /\ AtCall(r) /\ ~Dispatched(r)
    /\ NextCall(r)
    /\ UNCHANGED <<versions, ask, at, lookupVars, principal, pool, line, answer, accountVars, contextVars,
                   vouched, done>>

\* _write_lock of a writing tool.
TakeWriteLock(r) ==
    /\ AtCall(r) /\ Dispatched(r) /\ Call(r).tool \in WritingTools
    /\ writeLock = Nobody
    /\ writeLock' = r
    /\ UNCHANGED <<versions, ask, at, lookupVars, principal, pool, line, pos, answer, accountVars, builder,
                   opened, ready, vouched, done>>

\* It times out: the call ends in a tool error.
WriteLockTimeout(r) ==
    /\ AtCall(r) /\ Dispatched(r) /\ Call(r).tool \in WritingTools
    /\ writeLock \notin {Nobody, r}
    /\ NextCall(r)
    /\ UNCHANGED <<versions, ask, at, lookupVars, principal, pool, line, answer, accountVars, contextVars,
                   vouched, done>>

InTool(r) == AtCall(r) /\ Dispatched(r) /\ (Call(r).tool \in WritingTools => writeLock = r)
Unlocks(r) == writeLock' = IF writeLock = r THEN Nobody ELSE writeLock

\* _get_context: the init lock, checked again inside, and the stores one by one.
BeginBuild(r) ==
    /\ InTool(r) /\ ~ready /\ builder = Nobody
    /\ builder' = r
    /\ UNCHANGED <<versions, ask, at, lookupVars, principal, pool, line, pos, answer, accountVars, writeLock,
                   opened, ready, vouched, done>>

OpenStore(r) ==
    /\ builder = r /\ opened < StoresToOpen
    /\ opened' = opened + 1
    /\ UNCHANGED <<versions, ask, at, lookupVars, principal, pool, line, pos, answer, accountVars, writeLock,
                   builder, ready, vouched, done>>

\* Mutant: a failed build leaves the stores it had opened.
OpenFailsKeepsStores(r) ==
    /\ builder = r
    /\ builder' = Nobody
    /\ Unlocks(r) /\ NextCall(r)
    /\ UNCHANGED <<versions, ask, at, lookupVars, principal, pool, line, answer, accountVars, opened, ready,
                   vouched, done>>

\* A factory or an engine raises: every store opened so far is closed.
StoreOpenFails(r) ==
    /\ builder = r
    /\ builder' = Nobody
    /\ opened' = 0
    /\ Unlocks(r) /\ NextCall(r)
    /\ UNCHANGED <<versions, ask, at, lookupVars, principal, pool, line, answer, accountVars, ready,
                   vouched, done>>

\* _assemble_context publishes the whole context at once.
Publish(r) ==
    /\ builder = r /\ opened = StoresToOpen
    /\ ready' = TRUE
    /\ builder' = Nobody
    /\ UNCHANGED <<versions, ask, at, lookupVars, principal, pool, line, pos, answer, accountVars, writeLock,
                   opened, vouched, done>>

\* The tool's function, under the principal of the context it runs in.
RunTool(r) ==
    /\ InTool(r) /\ ready
    /\ done' = done \cup {[by |-> r, as |-> principal[r], tool |-> Call(r).tool, forged |-> Call(r).forged]}
    /\ Unlocks(r) /\ NextCall(r)
    /\ UNCHANGED <<versions, ask, at, lookupVars, principal, pool, line, answer, accountVars, builder, opened,
                   ready, vouched>>

\* The calls are over.  A modern message with an unknown tool is answered 400.
Finish(r) ==
    /\ at[r] = "running" /\ pos[r] > Len(CallsOf(r))
    /\ Answers(r,
          IF ServerFault(ask[r]) THEN "400"
          ELSE IF ~ask[r].id THEN "202"
          ELSE IF ask[r].form = "modern" /\ \E c \in Range(ask[r].calls) :
                      c.tool # NotATool /\ ~ToolAllowed(c.tool, principal[r])
               THEN "400" ELSE "200")
    /\ UNCHANGED <<versions, ask, lookupVars, principal, pool, line, pos, accountVars, contextVars,
                   vouched, done>>

-----------------------------------------------------------------------------
(* Other processes: token and user administration, and write.lock.         *)

RevokeToken(s) ==
    /\ outside < MaxAdmin
    /\ revoked' = revoked \cup {s} /\ s \notin revoked
    /\ outside' = outside + 1
    /\ UNCHANGED <<versions, ask, at, lookupVars, principal, pool, line, pos, answer, disabled, contextVars,
                   vouched, done>>

DisableUser(a) ==
    /\ outside < MaxAdmin /\ a \notin disabled
    /\ disabled' = disabled \cup {a}
    /\ outside' = outside + 1
    /\ UNCHANGED <<versions, ask, at, lookupVars, principal, pool, line, pos, answer, revoked, contextVars,
                   vouched, done>>

EnableUser(a) ==
    /\ outside < MaxAdmin /\ a \in disabled
    /\ disabled' = disabled \ {a}
    /\ outside' = outside + 1
    /\ vouched' = vouched \cup {r \in Requests : at[r] \notin {"idle", "done"} /\ ask[r].secret \in Secrets \ revoked
                                                    /\ AccountOf[ask[r].secret] = a}
    /\ UNCHANGED <<versions, ask, at, lookupVars, principal, pool, line, pos, answer, revoked,
                   contextVars, done>>

LockElsewhere ==
    /\ \/ writeLock = Nobody /\ outside < MaxAdmin /\ writeLock' = OtherProcess /\ outside' = outside + 1
       \/ writeLock = OtherProcess /\ writeLock' = Nobody /\ UNCHANGED outside
    /\ UNCHANGED <<versions, ask, at, lookupVars, principal, pool, line, pos, answer, revoked, disabled, builder,
                   opened, ready, vouched, done>>

-----------------------------------------------------------------------------
LoopStep(r) == Settle(r) \/ SettleTooLate(r) \/ HandleOnLoop(r) \/ Offload(r) \/ GiveUpWaiting(r, "503")

PoolStep(r) ==
    \/ RejectCall(r) \/ TakeWriteLock(r) \/ WriteLockTimeout(r) \/ RunTool(r) \/ Finish(r)
    \/ BeginBuild(r) \/ OpenStore(r) \/ StoreOpenFails(r) \/ Publish(r)

HttpNext ==
    \/ \E r \in Requests :
          \/ \E status \in {"401", "403", "503"} : Turn(r, status)
          \/ Arrive(r) \/ GiveUpWaiting(r, "gone") \/ LookUp(r)
          \/ LoopStep(r) \/ PoolStep(r)
    \/ TakeLookup
    \/ \E p \in {"read", "write"} : StartOnPool(p)
    \/ \E s \in Secrets : RevokeToken(s)
    \/ \E a \in Accounts : DisableUser(a) \/ EnableUser(a)
    \/ LockElsewhere

HttpSpec == HttpInit /\ [][HttpNext]_httpVars

\* The loop and the pools' threads run, the deadline's timer fires.  Nothing is
\* assumed of the token store: a lookup may never return.
HttpFairness ==
    /\ \A r \in Requests : WF_httpVars(LoopStep(r)) /\ WF_httpVars(PoolStep(r))
    /\ \A p \in {"read", "write"} : WF_httpVars(StartOnPool(p))

HttpFairSpec == HttpSpec /\ HttpFairness

-----------------------------------------------------------------------------
(* Properties.                                                             *)

\* A tool has only run for the user of the request's own token, while that
\* token had been good since the request came, in a tier that user may call and
\* not with an identity from the arguments; and a request that was answered
\* with a refusal has not run anything, before the answer or after it.
EffectsAreTheCallers ==
    \A e \in done :
        /\ e.as = AccountOf[ask[e.by].secret] /\ e.by \in vouched
        /\ (e.as = LocalAccount \/ Access[e.tool] # "LOCAL") /\ ~e.forged
        /\ answer[e.by] \in {"none", "200", "202"}

\* The process has either the one whole context, or the stores its single
\* builder has opened so far; a failed build leaves nothing open.  The builder
\* runs on the write pool: a reader's thread never builds while a writer holds
\* write.lock and waits for the init lock.
ContextIsWhole ==
    /\ ready => opened = StoresToOpen /\ builder = Nobody
    /\ ~ready /\ builder = Nobody => opened = 0
    /\ builder # Nobody => pool[builder] = "write"

HttpIsSafe == EffectsAreTheCallers /\ ContextIsWhole

\* Every request is answered, also when the token store hangs and the queue of
\* lookups is full of requests that gave up.
RequestsAreAnswered == \A r \in Requests : at[r] \notin {"idle", "done"} ~> at[r] = "done"
=============================================================================
