--------------------------- MODULE MCPackLifecycle ---------------------------
(* Instances of PackLifecycle for TLC: one directory's lock for everybody, *)
(* or a host and lock of its own for the forks and the repair pass.        *)
EXTENDS PackLifecycle

CONSTANTS s1, s2, create1, create2, fork1, repair1, promote1, restore1, u1, u2,
          src, here, there

MCOwner == [c \in Calls |-> IF c = create2 THEN u2 ELSE u1]
MCRequested == [c \in Calls |-> s1]
MCSource == [f \in Forkers |-> src]
MCOneHost == [p \in Procs |-> here]
MCTwoHosts == [p \in Procs |-> IF p \in {fork1, repair1} THEN there ELSE here]

-----------------------------------------------------------------------------
\* Nobody resolves a reservation for the call that is at it: the repair pass
\* keeps off young rows (pack/lifecycle), and only the pack_fork call that
\* wrote every leg makes a forked row ready (pack/fork).
CallsKeepTheirRows == RepairSparesYoung /\ OnlyTheForkPromotes

\* On two hosts as on one, as long as every INSERT is answered, the primary key
\* and the status-pinned updates alone keep a pack whole: visible only with its
\* anchor and its copy, registered, and what a caller was told (pack/ownership).
PacksAreSound == ReadyHasAnchor /\ ForkReadyIsComplete /\ NoOrphan /\ OkMeansReady

\* Every call ends and no row stays creating, though calls and the repair pass
\* wait for locks that others hold (mcp/tools/pack, pack/lifecycle).
CallsAndRowsEnd == CallsEnd /\ NoRowStaysCreating
=============================================================================
