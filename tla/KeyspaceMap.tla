---------------------------- MODULE KeyspaceMap ----------------------------
(***************************************************************************)
(* What store/HashTable promises its caller: a finite map from keys to     *)
(* entries (value, deadline).  The slots, the two tables and incremental   *)
(* rehashing are invisible at this level.                                  *)
(***************************************************************************)
EXTENDS Integers

CONSTANTS Key, Value, Deadline

VARIABLE store      \* the set of entries, one per key that is present

\* HTEntry::expireAt = -1 means "no expiry" (HashTable.h:15).
NoExpiry == -1

Entry == [key : Key, value : Value, expireAt : Deadline \cup {NoExpiry}]

At(k) == {e \in store : e.key = k}

TypeOK == store \in SUBSET Entry

KeysUnique == \A e, f \in store : e.key = f.key => e = f

Init == store = {}

\* HashTable::set: a present key takes the new value.  Its deadline is kept
\* when the entry is overwritten in place and dropped when the entry is
\* recreated; the table does not promise which.
Put(k, v) ==
    \E d \in {NoExpiry} \cup {e.expireAt : e \in At(k)} :
        store' = (store \ At(k)) \cup {[key |-> k, value |-> v, expireAt |-> d]}

\* HashTable::del.
Remove(k) == store' = store \ At(k)

\* A write through the HTEntry* that HashTable::find returned.
Assign(k, v, d) ==
    /\ At(k) # {}
    /\ store' = (store \ At(k)) \cup {[key |-> k, value |-> v, expireAt |-> d]}

\* HashTable::flushAll.
Clear == store' = {}

Next ==
    \/ \E k \in Key, v \in Value : Put(k, v)
    \/ \E k \in Key : Remove(k)
    \/ \E k \in Key, v \in Value, d \in Deadline \cup {NoExpiry} : Assign(k, v, d)
    \/ Clear

Spec == Init /\ [][Next]_store
=============================================================================
