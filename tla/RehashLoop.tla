----------------------------- MODULE RehashLoop -----------------------------
(***************************************************************************)
(* The loop of HashTable::rehashStep as the code has it, one slot at a     *)
(* time, to compare with the closed form the specification uses.           *)
(***************************************************************************)
EXTENDS HashTable

\* The while loop that skips empty slots: where it stops.
skipEmpty(t, i) ==
    CHOOSE to \in i..t.capacity :
        /\ \A j \in i..(to - 1) : t.slots[j] = {}
        /\ to < t.capacity => t.slots[to] # {}

completed(p) ==
    [primary |-> p, rehash |-> NullTable, isRehashing |-> FALSE, rehashIdx |-> 0]

\* Empty slots are skipped, then one chain is moved, or there is none left.
migrateOneSlot(h) ==
    LET i     == skipEmpty(h.rehash, h.rehashIdx)
        chain == h.rehash.slots[i]
        p     == insertAll(h.primary, chain)
        r     == clearSlots(h.rehash, i, i + 1, chain)
    IN  IF i >= h.rehash.capacity THEN completed(h.primary)
        ELSE IF r.size = 0 THEN completed(p)
        ELSE [primary |-> p, rehash |-> r, isRehashing |-> TRUE, rehashIdx |-> i + 1]

\* One turn of the loop, which ends early once there is nothing to migrate.
turn(h) == IF h.isRehashing THEN migrateOneSlot(h) ELSE h

\* The object after each of the first n turns.
turns(h, n) == LET s[i \in 0..n] == IF i = 0 THEN h ELSE turn(s[i - 1]) IN s

\* The loop of rehashStep over migrateOneSlot, with its early exits, ends in the
\* state the closed form of the specification gives, whatever slots are empty.
LoopAgrees == rehashStep(ht) = turns(ht, kRehashBatchSize)[kRehashBatchSize]
=============================================================================
