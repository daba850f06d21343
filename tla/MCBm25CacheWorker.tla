------------------------- MODULE MCBm25CacheWorker -------------------------
(* Model-checking instances of Bm25CacheWorker.                              *)
EXTENDS Bm25CacheWorker

CONSTANT MCEdit   \* the write that leaves (COUNT, MAX(updated_at)) as it was

\* Every write changes the fingerprint except MCEdit, an in-place edit.
MCFp == [v \in 0..MaxDb |-> IF v = MCEdit THEN v - 1 ELSE v]
=============================================================================
