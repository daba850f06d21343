--------------------------- MODULE ActionWorkflow ---------------------------
(***************************************************************************)
(* The two state machines that src/opencrab/execution keeps in SQL: the    *)
(* runs of an action (workflow.py) and the approval queue (approvals.py).  *)
(* Several clerks, threads or processes of the same deployment, call them  *)
(* at once.  advance reads the status of a run with a SELECT and writes it *)
(* with an UPDATE of its own: SQLite opens the transaction only at the     *)
(* UPDATE, and PostgreSQL reads committed rows, so another clerk may move  *)
(* the run in between.  resolve is one conditional UPDATE.  Ids, receipts  *)
(* and payloads are left out.                                              *)
(***************************************************************************)
EXTENDS Naturals, Sequences

CONSTANTS
    Clerks,      \* the callers of the two engines
    FlowRuns,    \* run ids
    ApprovalRequests,    \* approval ids
    NoClerk,     \* a request nobody has resolved
    MaxMoves     \* bound: the moves of a run that are begun

ASSUME WorkflowAssumption == NoClerk \notin Clerks /\ MaxMoves \in Nat

Decisions == {"approved", "rejected"}
FlowStatuses == {"pending", "running", "approved", "rejected", "completed", "failed"}

\* VALID_TRANSITIONS.
Successors ==
    [pending   |-> {"running", "approved", "rejected"},
     approved  |-> {"running", "rejected"},
     running   |-> {"completed", "failed"},
     completed |-> {}, failed |-> {}, rejected |-> {}]

VARIABLES
    flow,       \* workflow_runs: the status of each run, or "none"
    trail,      \* the statuses each run went through, a row of action_log each
    clerk,      \* what each clerk read before it writes
    queue,      \* approval_queue: the status of each request, or "none"
    reviewer,   \* the reviewer in each row of the queue
    receipts    \* the resolutions that were answered as done

workflowVars == <<flow, trail, clerk, queue, reviewer, receipts>>

Idle == [run |-> "none", to |-> "none"]

WorkflowTypeOK ==
    /\ flow \in [FlowRuns -> FlowStatuses \cup {"none"}]
    /\ trail \in [FlowRuns -> Seq(FlowStatuses)]
    /\ clerk \in [Clerks -> {Idle} \cup [run : FlowRuns, to : FlowStatuses]]
    /\ queue \in [ApprovalRequests -> Decisions \cup {"none", "pending"}]
    /\ reviewer \in [ApprovalRequests -> Clerks \cup {NoClerk}]
    /\ receipts \subseteq [request : ApprovalRequests, decision : Decisions, by : Clerks]

WorkflowInit ==
    /\ flow = [r \in FlowRuns |-> "none"]
    /\ trail = [r \in FlowRuns |-> <<>>]
    /\ clerk = [k \in Clerks |-> Idle]
    /\ queue = [a \in ApprovalRequests |-> "none"]
    /\ reviewer = [a \in ApprovalRequests |-> NoClerk]
    /\ receipts = {}

-----------------------------------------------------------------------------
\* Both rows that a change writes, the run's and the log's, are one transaction.
MoveTo(r, status) ==
    /\ flow' = [flow EXCEPT ![r] = status]
    /\ trail' = [trail EXCEPT ![r] = Append(@, status)]

CreateRun(r) ==
    /\ flow[r] = "none"
    /\ MoveTo(r, "pending")
    /\ UNCHANGED <<clerk, queue, reviewer, receipts>>

\* The SELECT of advance and the check of what it read; a move that is not
\* legal, or of a run that does not exist, is refused and leaves nothing.
ReadStatus(k, r, status) ==
    /\ clerk[k] = Idle
    /\ flow[r] # "none"
    /\ Len(trail[r]) < MaxMoves
    /\ status \in Successors[flow[r]]
    /\ clerk' = [clerk EXCEPT ![k] = [run |-> r, to |-> status]]
    /\ UNCHANGED <<flow, trail, queue, reviewer, receipts>>

\* The UPDATE of advance names the run and nothing else.
WriteStatus(k) ==
    /\ clerk[k] # Idle
    /\ MoveTo(clerk[k].run, clerk[k].to)
    /\ clerk' = [clerk EXCEPT ![k] = Idle]
    /\ UNCHANGED <<queue, reviewer, receipts>>

\* A lock that is not granted or an INSERT that fails: the transaction rolls back.
AdvanceFails(k) ==
    /\ clerk[k] # Idle
    /\ clerk' = [clerk EXCEPT ![k] = Idle]
    /\ UNCHANGED <<flow, trail, queue, reviewer, receipts>>

RequestApproval(a) ==
    /\ queue[a] = "none"
    /\ queue' = [queue EXCEPT ![a] = "pending"]
    /\ UNCHANGED <<flow, trail, clerk, reviewer, receipts>>

\* Mutant: the UPDATE names the request and not the status it must have.
MatchesTheId(a) == queue[a] # "none"

\* The condition of the UPDATE of resolve.
Matches(a) == queue[a] = "pending"

Resolve(k, a, decision) ==
    /\ Matches(a)
    /\ queue' = [queue EXCEPT ![a] = decision]
    /\ reviewer' = [reviewer EXCEPT ![a] = k]
    /\ receipts' = receipts \cup {[request |-> a, decision |-> decision, by |-> k]}
    /\ UNCHANGED <<flow, trail, clerk>>

WorkflowNext ==
    \/ \E r \in FlowRuns : CreateRun(r)
    \/ \E k \in Clerks, r \in FlowRuns, s \in FlowStatuses : ReadStatus(k, r, s)
    \/ \E k \in Clerks : WriteStatus(k) \/ AdvanceFails(k)
    \/ \E a \in ApprovalRequests : RequestApproval(a)
    \/ \E k \in Clerks, a \in ApprovalRequests, d \in Decisions : Resolve(k, a, d)

WorkflowSpec == WorkflowInit /\ [][WorkflowNext]_workflowVars

-----------------------------------------------------------------------------
\* Of the reviewers who race to resolve a request, one is told it is done, and
\* the queue keeps that reviewer's decision (resolve in approvals.py).
OneDecision ==
    \A x \in receipts :
        /\ queue[x.request] = x.decision
        /\ reviewer[x.request] = x.by
        /\ \A y \in receipts : y.request = x.request => y = x

\* A run moves only along VALID_TRANSITIONS, so it never leaves completed,
\* failed or rejected (the table and the docstring of advance in workflow.py).
\* Two concurrent calls of advance do not keep this (README, 5).
MovesAreLegal ==
    \A r \in FlowRuns : \A i \in 1..(Len(trail[r]) - 1) :
        trail[r][i + 1] \in Successors[trail[r][i]]
=============================================================================
