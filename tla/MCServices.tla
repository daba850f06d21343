----------------------------- MODULE MCServices -----------------------------
(***************************************************************************)
(* One instance of the components that serve requests in a process: each   *)
(* behaviour exercises one of them, named by service, while the others     *)
(* stay in an initial state.  They share no state.                         *)
(***************************************************************************)
EXTENDS McpHttp, LocalBootstrap, EmbeddingFallback, ActionWorkflow, FileLock, TLC

VARIABLE service    \* the component that moves

-----------------------------------------------------------------------------
(* HTTP: one client sends any of ten kinds of message, from one without a   *)
(* token to a batch of three calls, the other a write.                       *)
CONSTANTS
    hr1, hr2, hul, hur, htl, htr,    \* requests, users and their tokens
    rdTool, wrTool, loTool           \* a tool of each tier

MCAccountOf == htl :> hul @@ htr :> hur
MCAccess == rdTool :> "READ" @@ wrTool :> "WRITE" @@ loTool :> "LOCAL"
ToolCall(t) == [tool |-> t, forged |-> FALSE]
Message(s, form, batch, id, made) ==
  [secret |-> s, origin |-> TRUE, form |-> form, batch |-> batch, id |-> id, calls |-> made]
MCAsks1 == {
  [Message(htl, "legacy", FALSE, TRUE, <<>>) EXCEPT !.origin = FALSE],
  Message(NoSecret, "legacy", FALSE, TRUE, <<>>),
  Message(htl, "modern", FALSE, TRUE, <<ToolCall(loTool)>>),
  Message(htr, "modern", FALSE, TRUE, <<ToolCall(loTool)>>),
  Message(htr, "modern", FALSE, FALSE, <<ToolCall(wrTool)>>),
  Message(htr, "legacy", TRUE, TRUE,
          <<ToolCall(rdTool), [tool |-> wrTool, forged |-> TRUE], ToolCall(wrTool)>>),
  Message(htr, "modern", FALSE, TRUE, <<ToolCall(rdTool)>>),
  Message(htr, "malformed", FALSE, TRUE, <<ToolCall(wrTool)>>),
  Message(htl, "mismatched", FALSE, TRUE, <<ToolCall(loTool)>>),
  Message(htl, "legacy", FALSE, FALSE, <<ToolCall(NotATool)>>)}
MCAsks2 == {Message(htr, "legacy", FALSE, TRUE, <<ToolCall(wrTool)>>)}
MCAsks == hr1 :> MCAsks1 @@ hr2 :> MCAsks2

-----------------------------------------------------------------------------
(* File locks: two threads of one process. *)
CONSTANTS t1, t2, p1, p2

MCOneProcess == t1 :> p1 @@ t2 :> p1

-----------------------------------------------------------------------------
serviceVars == <<httpVars, bootVars, embedVars, workflowVars, lockVars, service>>

ServicesInit ==
    /\ service \in {"http", "bootstrap", "embedding", "workflow", "locks"}
    /\ HttpInit /\ BootstrapInit /\ EmbedInit /\ WorkflowInit /\ LockInit
    /\ service = "http" \/ /\ versions = {"modern"} /\ disabled = {}
                           /\ ask = [r \in Requests |-> CHOOSE x \in Asks[r] : TRUE]
    /\ service = "bootstrap" \/ dbTables

ServicesNext ==
    /\ UNCHANGED service
    /\ \/ /\ service = "http" /\ HttpNext
          /\ UNCHANGED <<bootVars, embedVars, workflowVars, lockVars>>
       \/ /\ service = "bootstrap" /\ BootstrapNext
          /\ UNCHANGED <<httpVars, embedVars, workflowVars, lockVars>>
       \/ /\ service = "embedding" /\ EmbedNext
          /\ UNCHANGED <<httpVars, bootVars, workflowVars, lockVars>>
       \/ /\ service = "workflow" /\ WorkflowNext
          /\ UNCHANGED <<httpVars, bootVars, embedVars, lockVars>>
       \/ /\ service = "locks" /\ LockNext
          /\ UNCHANGED <<httpVars, bootVars, embedVars, workflowVars>>

\* In a resting component no action that is fair is enabled.
ServicesSpec ==
    /\ ServicesInit /\ [][ServicesNext]_serviceVars
    /\ HttpFairness /\ EmbedFairness /\ LockFairness

-----------------------------------------------------------------------------
(* Properties.                                                             *)

\* Every component's variables keep their types.
ServicesTypesOK ==
    HttpTypeOK /\ BootstrapTypeOK /\ EmbedTypeOK /\ WorkflowTypeOK /\ LockTypeOK

\* What each component decides once stays decided once: one local user however
\* many servers start, one model at work however many callers fall back to it,
\* one decision per approval request.
DecidedOnce == OneLocalUser /\ ModelIsSound /\ OneDecision

\* Nothing that waits waits for ever: a request is answered, a model nobody
\* uses is released, and an acquisition of a file lock returns.
NobodyWaitsForEver == RequestsAreAnswered /\ IdleIsReleased /\ CallsEnd
=============================================================================
