---------------------------- MODULE MCHashTable ----------------------------
(***************************************************************************)
(* HashTable and the loop of its rehashStep for TLC.                       *)
(***************************************************************************)
EXTENDS RehashLoop, TLC

CONSTANTS k1, k2, k3, k4, k5

\* In a table of 2 slots k1, k2 and k3 share a chain; in one of 4 so do k1 and k2,
\* and k4 and k5, and slot 1 stays empty.
MCHash == k1 :> 0 @@ k2 :> 4 @@ k3 :> 6 @@ k4 :> 7 @@ k5 :> 3
=============================================================================
