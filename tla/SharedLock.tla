------------------------------ MODULE SharedLock ------------------------------
(***************************************************************************)
(* What opencrab/locking.py promises to its callers: per lock file, either *)
(* one exclusive holder or any number of shared ones.  A holder is a with  *)
(* block of a thread or a handle kept for the life of a store.  How the    *)
(* lock is waited for, and who gets it next, is not promised.              *)
(***************************************************************************)
EXTENDS FiniteSets

CONSTANTS
    Paths,    \* lock files
    Holders,  \* with blocks and long-lived handles
    Groups    \* the holders of each process: they die together

VARIABLES
    readers,  \* shared holders of each path
    writer    \* the exclusive holder of each path, as a set

vars == <<readers, writer>>

Init ==
    /\ readers = [p \in Paths |-> {}]
    /\ writer = [p \in Paths |-> {}]

AcquireShared(p, h) ==
    /\ writer[p] = {}
    /\ readers' = [readers EXCEPT ![p] = @ \cup {h}]
    /\ UNCHANGED writer

AcquireExclusive(p, h) ==
    /\ writer[p] = {}
    /\ readers[p] = {}
    /\ writer' = [writer EXCEPT ![p] = {h}]
    /\ UNCHANGED readers

Release(p, h) ==
    /\ h \in readers[p] \cup writer[p]
    /\ readers' = [readers EXCEPT ![p] = @ \ {h}]
    /\ writer' = [writer EXCEPT ![p] = @ \ {h}]

\* A process dies: everything its threads held is free at once.
Die(hs) ==
    /\ readers' = [p \in Paths |-> readers[p] \ hs]
    /\ writer' = [p \in Paths |-> writer[p] \ hs]

Next ==
    \/ \E p \in Paths, h \in Holders :
          AcquireShared(p, h) \/ AcquireExclusive(p, h) \/ Release(p, h)
    \/ \E hs \in Groups : Die(hs)

Spec == Init /\ [][Next]_vars

-----------------------------------------------------------------------------
\* An exclusive holder is alone: nobody else, shared or exclusive, is inside.
Exclusion ==
    \A p \in Paths : \A h, g \in Holders :
        h \in writer[p] => (g \in readers[p] \cup writer[p] => g = h /\ g \notin readers[p])
=============================================================================
