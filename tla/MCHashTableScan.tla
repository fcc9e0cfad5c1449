-------------------------- MODULE MCHashTableScan --------------------------
(***************************************************************************)
(* HashTableScan for TLC, with the constants of MCHashTable.  With         *)
(* kMaxLoadFactor = 1 the table of 4 slots, with two chains of two and an  *)
(* empty slot, is rehashed into one of 8.                                  *)
(***************************************************************************)
EXTENDS HashTableScan, MCHashTable
=============================================================================
