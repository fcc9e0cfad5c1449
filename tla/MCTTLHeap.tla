----------------------------- MODULE MCTTLHeap -----------------------------
(* TTLHeap for TLC.  Keys are only compared, so they are symmetric. *)
EXTENDS TTLHeap, TLC

Symmetry == Permutations(Key)
=============================================================================
