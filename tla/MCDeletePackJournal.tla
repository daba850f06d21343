------------------------- MODULE MCDeletePackJournal -------------------------
(* Instances of DeletePackJournal for TLC: deleters of one user.           *)
EXTENDS DeletePackJournal

CONSTANTS d1, d2, u1, u2, n1, n2, c1, v1

MCPrincipal == [p \in Deleters |-> u1]
\* What an older version left: nothing, or a journal with the twins deleted.
MCOldJournals == {[state |-> "kept", created |-> NoSnapshot, done |-> {"twins"}]}
=============================================================================
