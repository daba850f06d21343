--------------------------- MODULE EmbeddingFallback ---------------------------
(***************************************************************************)
(* The local embedding model of stores/llamacpp_embedding.py: loaded on    *)
(* first use, shared by the threads of a server, closed by a timer thread  *)
(* once it has been idle, and loaded again.                                *)
(*                                                                         *)
(* Time is not counted: the idle time may pass at any moment after the     *)
(* last use.                                                               *)
(***************************************************************************)
EXTENDS Integers, FiniteSets

CONSTANTS
    Embedders,    \* threads that embed
    MaxCalls,     \* bound: calls
    MaxModels,    \* bound: models loaded
    MaxTimers     \* bound: timer threads that have not ended

NoOne == "none"

ASSUME EmbeddingAssumption ==
    /\ MaxCalls \in Nat /\ MaxModels \in Nat /\ MaxTimers \in Nat
    /\ {NoOne, "timer"} \cap Embedders = {}

VARIABLES
    embAt,     \* where each thread is
    calls,
    model,     \* _llm: the number of the model, 0 when there is none
    models,    \* models loaded so far
    alive,     \* models in memory, not closed
    lease,     \* the model each thread uses, 0 when none
    inflight,  \* _inflight
    llmLock,   \* who holds _llm_lock: a thread, a timer, or nobody
    inferLock, \* who holds _infer_lock
    used,      \* _last_used lies within idle_unload_seconds
    timer,     \* _timer, 0 when there is none
    timerGen,  \* the timer started last: what _timer_gen tells
    firing,    \* timers that have been started and not ended, with where they are
    closing    \* the model release_if_idle has taken out and not closed yet

timerVars == <<timer, timerGen, firing>>
embedVars == <<embAt, calls, model, models, alive, lease, inflight,
               llmLock, inferLock, used, timer, timerGen, firing, closing>>

-----------------------------------------------------------------------------
EmbedTypeOK ==
    /\ embAt \in [Embedders -> {"idle", "lease", "lock", "load", "use", "infer"}]
    /\ calls \in Nat
    /\ model \in 0 .. models /\ models \in Nat /\ alive \subseteq 1 .. models
    /\ lease \in [Embedders -> 0 .. models]
    /\ inflight \in Nat
    /\ llmLock \in Embedders \cup {NoOne, "timer"}
    /\ inferLock \in Embedders \cup {NoOne}
    /\ used \in BOOLEAN
    /\ timer \in Nat /\ timerGen \in Nat
    /\ firing \in [DOMAIN firing -> {"armed", "fired", "closing", "ended"}]
    /\ closing \in 0 .. models

EmbedInit ==
    /\ embAt = [t \in Embedders |-> "idle"]
    /\ calls = 0
    /\ model = 0 /\ models = 0 /\ alive = {}
    /\ lease = [t \in Embedders |-> 0] /\ inflight = 0
    /\ llmLock = NoOne /\ inferLock = NoOne
    /\ used = FALSE
    /\ timer = 0 /\ timerGen = 0 /\ firing = [g \in {} |-> "armed"]
    /\ closing = 0

-----------------------------------------------------------------------------
(* A lease of the model.                                                   *)

Steps(t, place) == embAt' = [embAt EXCEPT ![t] = place]

\* __call__ with some texts.
BeginCall(t) ==
    /\ embAt[t] = "idle" /\ calls < MaxCalls
    /\ calls' = calls + 1
    /\ Steps(t, "lease")
    /\ UNCHANGED <<model, models, alive, lease, inflight, llmLock, inferLock, used, timerVars,
                   closing>>

Leases(t, m) ==
    /\ lease' = [lease EXCEPT ![t] = m]
    /\ inflight' = inflight + 1
    /\ used' = TRUE
    /\ Steps(t, "use")

\* The fast path, under _state_lock.
LeaseLoaded(t) ==
    /\ embAt[t] = "lease" /\ model # 0
    /\ Leases(t, model)
    /\ UNCHANGED <<calls, model, models, alive, llmLock, inferLock, timerVars, closing>>

GoToLoad(t) ==
    /\ embAt[t] = "lease" /\ model = 0
    /\ Steps(t, "lock")
    /\ UNCHANGED <<calls, model, models, alive, lease, inflight, llmLock, inferLock, used,
                   timerVars, closing>>

\* Mutant: the second look under _llm_lock is missing.
LockThenLoad(t) ==
    /\ embAt[t] = "lock" /\ llmLock = NoOne
    /\ llmLock' = t
    /\ Steps(t, "load")
    /\ UNCHANGED <<calls, model, models, alive, lease, inflight, inferLock, used, timerVars,
                   closing>>

\* Under _llm_lock: another thread may have loaded it meanwhile.
LockAndLook(t) ==
    /\ embAt[t] = "lock" /\ llmLock = NoOne
    /\ IF model # 0 THEN Leases(t, model) /\ UNCHANGED llmLock
       ELSE /\ llmLock' = t
            /\ Steps(t, "load")
            /\ UNCHANGED <<lease, inflight, used>>
    /\ UNCHANGED <<calls, model, models, alive, inferLock, timerVars, closing>>

LoadModel(t) ==
    /\ embAt[t] = "load" /\ models < MaxModels
    /\ models' = models + 1
    /\ alive' = alive \cup {models + 1}
    /\ model' = models + 1
    /\ Leases(t, models + 1)
    /\ llmLock' = NoOne
    /\ UNCHANGED <<calls, inferLock, timerVars, closing>>

\* No file, no download, no memory: the call raises and holds nothing.
LoadFails(t) ==
    /\ embAt[t] = "load"
    /\ llmLock' = NoOne
    /\ Steps(t, "idle")
    /\ UNCHANGED <<calls, model, models, alive, lease, inflight, inferLock, used,
                   timerVars, closing>>

\* create_embedding of one text, under _infer_lock.
Infer(t) ==
    /\ embAt[t] = "use" /\ inferLock = NoOne
    /\ inferLock' = t
    /\ Steps(t, "infer")
    /\ UNCHANGED <<calls, model, models, alive, lease, inflight, llmLock, used, timerVars, closing>>

\* _arm_timer_locked, for the timers that are left and the value of _timer: a
\* new thread only when there is no timer.
Arms(left, here) ==
    LET new == CHOOSE g \in 1 .. Cardinality(DOMAIN left) + 1 : g \notin DOMAIN left
    IN IF here # 0 THEN timer' = here /\ firing' = left /\ UNCHANGED timerGen
       ELSE /\ timerGen' = new
            /\ timer' = new
            /\ firing' = [g \in DOMAIN left \cup {new} |-> IF g = new THEN "armed" ELSE left[g]]

\* The texts are embedded, or it raises; either way the lease is returned.
ReturnLease(t) ==
    /\ embAt[t] = "infer"
    /\ inferLock' = NoOne
    /\ lease' = [lease EXCEPT ![t] = 0]
    /\ inflight' = inflight - 1
    /\ used' = TRUE
    /\ Arms(firing, timer)
    /\ Steps(t, "idle")
    /\ UNCHANGED <<calls, model, models, alive, llmLock, closing>>

-----------------------------------------------------------------------------
(* The timer's thread.                                                     *)

FiringAt(g, place) == firing' = [firing EXCEPT ![g] = place]

\* It fires and takes _llm_lock; under _state_lock it is no longer the timer.
Fire(g) ==
    /\ firing[g] = "armed" /\ llmLock = NoOne /\ Cardinality(DOMAIN firing) < MaxTimers
    /\ llmLock' = "timer"
    /\ timer' = 0
    /\ FiringAt(g, "fired")
    /\ UNCHANGED <<embAt, calls, model, models, alive, lease, inflight, inferLock, used, timerGen,
                   closing>>

\* Mutant: calls under way are not counted.
TakeOutInUse(g) ==
    /\ firing[g] = "fired"
    /\ IF model # 0 /\ ~used
       THEN /\ closing' = model /\ model' = 0
            /\ firing' = [firing EXCEPT ![g] = "closing"]
            /\ UNCHANGED <<timer, timerGen, llmLock>>
       ELSE /\ llmLock' = NoOne
            /\ UNCHANGED <<model, closing, timer, timerGen>>
            /\ firing' = [firing EXCEPT ![g] = "ended"]
    /\ UNCHANGED <<embAt, calls, models, alive, lease, inflight, inferLock, used>>

\* The rest of that section: nothing to do, still in use, used too lately, or out.
TakeOut(g) ==
    /\ firing[g] = "fired"
    /\ \/ /\ model # 0 /\ inflight = 0 /\ ~used
          /\ closing' = model /\ model' = 0
          /\ FiringAt(g, "closing")
          /\ UNCHANGED <<timer, timerGen, llmLock>>
       \/ /\ model = 0
          /\ FiringAt(g, "ended")
          /\ llmLock' = NoOne
          /\ UNCHANGED <<model, closing, timer, timerGen>>
       \/ /\ model # 0 /\ (inflight > 0 \/ used)
          /\ llmLock' = NoOne
          /\ UNCHANGED <<model, closing>>
          /\ Arms([firing EXCEPT ![g] = "ended"], timer)
    /\ UNCHANGED <<embAt, calls, models, alive, lease, inflight, inferLock, used>>

\* llm.close(), which may raise, and the heap is trimmed.
CloseModel(g) ==
    /\ firing[g] = "closing"
    /\ alive' = alive \ {closing}
    /\ closing' = 0
    /\ llmLock' = NoOne
    /\ FiringAt(g, "ended")
    /\ UNCHANGED <<embAt, calls, model, models, lease, inflight, inferLock, used, timer, timerGen>>

\* _on_timer's finally: only the newest timer takes itself off.
EndTimer(g) ==
    /\ firing[g] = "ended"
    /\ timer' = IF timerGen = g THEN 0 ELSE timer
    /\ firing' = [h \in DOMAIN firing \ {g} |-> firing[h]]
    /\ UNCHANGED <<embAt, calls, model, models, alive, lease, inflight, llmLock, inferLock, used,
                   timerGen, closing>>

-----------------------------------------------------------------------------
IdleTimePasses ==
    /\ used
    /\ used' = FALSE
    /\ UNCHANGED <<embAt, calls, model, models, alive, lease, inflight, llmLock, inferLock,
                   timerVars, closing>>

EmbedderStep(t) ==
    \/ LeaseLoaded(t) \/ GoToLoad(t)
    \/ LockAndLook(t) \/ LoadModel(t) \/ LoadFails(t) \/ Infer(t) \/ ReturnLease(t)

TimerStep == \E g \in DOMAIN firing : Fire(g) \/ TakeOut(g) \/ CloseModel(g) \/ EndTimer(g)

EmbedNext ==
    \/ \E t \in Embedders : BeginCall(t) \/ EmbedderStep(t)
    \/ TimerStep
    \/ IdleTimePasses

EmbedSpec == EmbedInit /\ [][EmbedNext]_embedVars

\* Threads run, timers fire and time passes.
EmbedFairness ==
    /\ \A t \in Embedders : WF_embedVars(EmbedderStep(t))
    /\ WF_embedVars(TimerStep) /\ WF_embedVars(IdleTimePasses)

EmbedFairSpec == EmbedSpec /\ EmbedFairness

-----------------------------------------------------------------------------
(* Properties.                                                             *)

\* At most one model is in memory, the one being closed included; a thread that
\* embeds holds a model that is loaded, not closed and not about to be; and the
\* leases are counted.
ModelIsSound ==
    /\ Cardinality(alive) <= 1
    /\ \A t \in Embedders : embAt[t] \in {"use", "infer"} =>
          lease[t] = model /\ model \in alive /\ closing # model
    /\ inflight = Cardinality({t \in Embedders : lease[t] # 0})

\* A model nobody uses does not stay in memory: it is closed, or used again.
IdleIsReleased ==
    model # 0 /\ inflight = 0 ~> model = 0 \/ \E t \in Embedders : embAt[t] # "idle"
=============================================================================
