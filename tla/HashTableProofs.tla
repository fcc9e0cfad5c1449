-------------------------- MODULE HashTableProofs --------------------------
(***************************************************************************)
(* HashTable keeps its inductive invariant and implements KeyspaceMap, for *)
(* every set of keys, every hash function, capacity, load factor and batch;*)
(* and an iteration with SCAN that no rehash overlaps after its first call *)
(* returns every key that stays in the table, for every COUNT too.  The    *)
(* closed form of rehashStep is what its loop computes.                    *)
(***************************************************************************)
EXTENDS HashTableScan, RehashLoop, NatLemmas, FiniteSetTheorems, TLAPS

-----------------------------------------------------------------------------
(* Arithmetic. *)

\* The slot of a key is an index of the table.
LEMMA SlotInRange ==
    ASSUME NEW k \in Key, NEW cap \in Nat \ {0}
    PROVE  slotOf(k, cap) \in 0..(cap - 1)
  BY HashAssumption DEF slotOf

-----------------------------------------------------------------------------
(* One table. *)

LEMMA NullTableGood ==
    /\ GoodTable(NullTable)
    /\ tableEntries(NullTable) = {}
  <1>1. tableEntries(NullTable) = {}
    BY DEF tableEntries, NullTable
  <1>2. Table(NullTable) /\ InSlot(NullTable)
    BY DEF Table, InSlot, NullTable
  <1>3. NullTable.size = 0
    BY DEF NullTable
  <1> QED
    BY <1>1, <1>2, <1>3, FS_EmptySet DEF GoodTable, SizeExact

LEMMA AllocTableGood ==
    ASSUME NEW cap \in Nat
    PROVE  /\ GoodTable(allocTable(cap))
           /\ tableEntries(allocTable(cap)) = {}
           /\ allocTable(cap).capacity = cap
           /\ allocTable(cap).size = 0
  <1>1. tableEntries(allocTable(cap)) = {}
    BY DEF tableEntries, allocTable
  <1>2. Table(allocTable(cap)) /\ InSlot(allocTable(cap))
    BY DEF Table, InSlot, allocTable
  <1>3. allocTable(cap).size = 0 /\ allocTable(cap).capacity = cap
    BY DEF allocTable
  <1> QED
    BY <1>1, <1>2, <1>3, FS_EmptySet DEF GoodTable, SizeExact

\* The entries of a good table are entries.
LEMMA TableEntriesType ==
    ASSUME NEW t, Table(t)
    PROVE  tableEntries(t) \subseteq Entry
  BY DEF Table, tableEntries

\* findInTable looks into one slot and misses nothing.
LEMMA FindInTable ==
    ASSUME NEW t, Table(t), InSlot(t), NEW k \in Key
    PROVE  findInTable(t, k) = {e \in tableEntries(t) : e.key = k}
  <1>1. CASE t.capacity = 0
    BY <1>1 DEF findInTable, tableEntries, Table
  <1>2. CASE t.capacity # 0
    <2>1. slotOf(k, t.capacity) \in DOMAIN t.slots
      BY <1>2, SlotInRange DEF Table
    <2>2. \A i \in DOMAIN t.slots : \A e \in t.slots[i] :
              e.key = k => i = slotOf(k, t.capacity)
      BY DEF InSlot
    <2> QED
      BY <1>2, <2>1, <2>2 DEF findInTable, tableEntries
  <1> QED
    BY <1>1, <1>2

\* Moving fresh entries into a table adds them to its contents.
LEMMA InsertAllGood ==
    ASSUME NEW t, GoodTable(t), t.capacity # 0,
           NEW moved \in SUBSET Entry, IsFiniteSet(moved),
           moved \cap tableEntries(t) = {}
    PROVE  /\ GoodTable(insertAll(t, moved))
           /\ tableEntries(insertAll(t, moved)) = tableEntries(t) \cup moved
           /\ insertAll(t, moved).capacity = t.capacity
           /\ insertAll(t, moved).size = t.size + Cardinality(moved)
  <1> DEFINE u == insertAll(t, moved)
  <1>1. /\ u.capacity = t.capacity
        /\ u.size = t.size + Cardinality(moved)
        /\ DOMAIN u.slots = DOMAIN t.slots
        /\ \A i \in DOMAIN t.slots :
              u.slots[i] = t.slots[i] \cup {e \in moved : slotOf(e.key, t.capacity) = i}
    BY DEF insertAll
  <1>2. \A e \in moved : slotOf(e.key, t.capacity) \in DOMAIN t.slots
    BY SlotInRange DEF GoodTable, Table, Entry
  <1> HIDE DEF u
  <1>3. tableEntries(u) = tableEntries(t) \cup moved
    BY <1>1, <1>2 DEF tableEntries
  <1>4. Cardinality(moved) \in Nat
    BY FS_CardinalityType
  <1>5. u.slots \in [0..(u.capacity - 1) -> SUBSET Entry]
    <2>1. u.slots = [i \in DOMAIN t.slots |->
             t.slots[i] \cup {e \in moved : slotOf(e.key, t.capacity) = i}]
      BY DEF u, insertAll
    <2> QED
      BY <1>1, <2>1 DEF GoodTable, Table
  <1>6. Table(u)
    BY <1>1, <1>4, <1>5 DEF GoodTable, Table
  <1>7. InSlot(u)
    BY <1>1 DEF GoodTable, InSlot
  <1>8. /\ IsFiniteSet(tableEntries(u))
        /\ Cardinality(tableEntries(u)) =
              Cardinality(tableEntries(t)) + Cardinality(moved)
    <2>1. Cardinality(tableEntries(t) \cap moved) = 0
      BY FS_EmptySet
    <2>2. Cardinality(tableEntries(t)) \in Nat
      BY FS_CardinalityType DEF GoodTable, SizeExact
    <2>3. IsFiniteSet(tableEntries(t))
      BY DEF GoodTable, SizeExact
    <2>4. /\ IsFiniteSet(tableEntries(t) \cup moved)
          /\ Cardinality(tableEntries(t) \cup moved) =
                Cardinality(tableEntries(t)) + Cardinality(moved)
                   - Cardinality(tableEntries(t) \cap moved)
      BY <2>3, FS_Union
    <2> QED
      BY <1>3, <1>4, <2>1, <2>2, <2>4
  <1>9. SizeExact(u)
    BY <1>1, <1>8 DEF GoodTable, SizeExact
  <1> QED
    BY <1>1, <1>3, <1>6, <1>7, <1>9 DEF GoodTable, u

\* Emptying a range of slots removes exactly the entries that were in it.
LEMMA ClearSlotsGood ==
    ASSUME NEW t, GoodTable(t), NEW from \in Nat, NEW to \in Nat, to <= t.capacity,
           NEW moved, moved = slotRange(t, from, to)
    PROVE  /\ GoodTable(clearSlots(t, from, to, moved))
           /\ tableEntries(clearSlots(t, from, to, moved)) = tableEntries(t) \ moved
           /\ clearSlots(t, from, to, moved).capacity = t.capacity
           /\ clearSlots(t, from, to, moved).size = t.size - Cardinality(moved)
           /\ moved \subseteq tableEntries(t)
           /\ moved \subseteq Entry
           /\ IsFiniteSet(moved)
  <1> DEFINE u == clearSlots(t, from, to, moved)
  <1>1. /\ u.capacity = t.capacity
        /\ u.size = t.size - Cardinality(moved)
        /\ u.slots = [i \in DOMAIN t.slots |->
                        IF i \in from..(to - 1) THEN {} ELSE t.slots[i]]
    BY DEF clearSlots
  <1>2. from..(to - 1) \subseteq DOMAIN t.slots
    BY DEF GoodTable, Table
  <1> HIDE DEF u
  <1>3. moved \subseteq tableEntries(t)
    BY <1>2 DEF slotRange, tableEntries
  <1>4. \A i, j \in DOMAIN t.slots : i # j => t.slots[i] \cap t.slots[j] = {}
    BY DEF GoodTable, InSlot
  <1>5. tableEntries(u) = tableEntries(t) \ moved
    <2>1. ASSUME NEW e \in tableEntries(u) PROVE e \in tableEntries(t) \ moved
      <3>1. PICK i \in DOMAIN t.slots : e \in t.slots[i] /\ i \notin from..(to - 1)
        BY <1>1 DEF tableEntries
      <3>2. \A j \in from..(to - 1) : e \notin t.slots[j]
        BY <3>1, <1>2, <1>4
      <3> QED
        BY <3>1, <3>2 DEF slotRange, tableEntries
    <2>2. ASSUME NEW e \in tableEntries(t) \ moved PROVE e \in tableEntries(u)
      <3>1. PICK i \in DOMAIN t.slots : e \in t.slots[i]
        BY DEF tableEntries
      <3>2. i \notin from..(to - 1)
        BY <3>1 DEF slotRange
      <3> QED
        BY <3>1, <3>2, <1>1 DEF tableEntries
    <2> QED
      BY <2>1, <2>2
  <1>6. moved \subseteq Entry
    BY <1>3, TableEntriesType DEF GoodTable
  <1>7. IsFiniteSet(moved) /\ Cardinality(moved) \in Nat
    BY <1>3, FS_Subset, FS_CardinalityType DEF GoodTable, SizeExact
  <1>8. /\ IsFiniteSet(tableEntries(u))
        /\ Cardinality(tableEntries(u)) = Cardinality(tableEntries(t)) - Cardinality(moved)
        /\ Cardinality(tableEntries(u)) \in Nat
    <2>1. tableEntries(t) \cap moved = moved
      BY <1>3
    <2>2. IsFiniteSet(tableEntries(t))
      BY DEF GoodTable, SizeExact
    <2>3. /\ IsFiniteSet(tableEntries(t) \ moved)
          /\ Cardinality(tableEntries(t) \ moved) =
                Cardinality(tableEntries(t)) - Cardinality(tableEntries(t) \cap moved)
      BY <2>2, FS_Difference
    <2>4. Cardinality(tableEntries(t) \ moved) \in Nat
      BY <2>3, FS_CardinalityType
    <2> QED
      BY <1>5, <2>1, <2>3, <2>4
  <1>9. u.size = Cardinality(tableEntries(u))
    BY <1>1, <1>8 DEF GoodTable, SizeExact
  <1>10. u.slots \in [0..(u.capacity - 1) -> SUBSET Entry]
    BY <1>1 DEF GoodTable, Table
  <1>11. Table(u)
    BY <1>1, <1>8, <1>9, <1>10 DEF GoodTable, Table
  <1>12. InSlot(u)
    BY <1>1 DEF GoodTable, InSlot
  <1> QED
    BY <1>1, <1>3, <1>5, <1>6, <1>7, <1>8, <1>9, <1>11, <1>12
       DEF GoodTable, SizeExact, u

\* Deleting a key removes its entry, and the counter follows.
LEMMA DelFromTableGood ==
    ASSUME NEW t, GoodTable(t), NEW k \in Key,
           \A e, f \in tableEntries(t) : e.key = f.key => e = f
    PROVE  /\ GoodTable(delFromTable(t, k))
           /\ tableEntries(delFromTable(t, k)) =
                 tableEntries(t) \ {e \in tableEntries(t) : e.key = k}
           /\ delFromTable(t, k).capacity = t.capacity
           /\ delFromTable(t, k).size <= t.size
           /\ \A i \in DOMAIN t.slots :
                 delFromTable(t, k).slots[i] \subseteq t.slots[i]
  <1> DEFINE hit == findInTable(t, k)
             u == delFromTable(t, k)
             i == slotOf(k, t.capacity)
  <1>1. hit = {e \in tableEntries(t) : e.key = k}
    BY FindInTable DEF GoodTable
  <1>2. CASE hit = {}
    <2>1. u = t
      BY <1>2 DEF delFromTable
    <2> HIDE DEF u
    <2>2. t.size <= t.size
      BY DEF GoodTable, Table
    <2> QED
      BY <1>1, <1>2, <2>1, <2>2 DEF u
  <1>3. CASE hit # {}
    <2>1. /\ u.slots = [t.slots EXCEPT ![i] = t.slots[i] \ hit]
          /\ u.capacity = t.capacity
          /\ u.size = t.size - 1
      BY <1>3 DEF delFromTable
    <2>2. t.capacity # 0
      BY <1>3 DEF findInTable
    <2>3. i \in DOMAIN t.slots
      BY <2>2, SlotInRange DEF GoodTable, Table
    <2>4. hit \subseteq t.slots[i]
      BY <2>2 DEF findInTable
    <2>5. PICK e \in tableEntries(t) : hit = {e}
      BY <1>1, <1>3
    <2> HIDE DEF u, hit, i
    <2>6. tableEntries(u) = tableEntries(t) \ {e}
      <3>1. \A j \in DOMAIN t.slots : j # i => e \notin t.slots[j]
        BY <2>3, <2>4, <2>5 DEF GoodTable, InSlot
      <3>2. DOMAIN u.slots = DOMAIN t.slots
        BY <2>1
      <3>3. \A j \in DOMAIN t.slots : u.slots[j] = t.slots[j] \ {e}
        BY <3>1, <2>1, <2>5
      <3> QED
        BY <3>2, <3>3 DEF tableEntries
    <2>7. /\ IsFiniteSet(tableEntries(u))
          /\ Cardinality(tableEntries(u)) = Cardinality(tableEntries(t)) - 1
          /\ Cardinality(tableEntries(u)) \in Nat
      <3>1. IsFiniteSet(tableEntries(t))
        BY DEF GoodTable, SizeExact
      <3>2. /\ IsFiniteSet(tableEntries(t) \ {e})
            /\ Cardinality(tableEntries(t) \ {e}) = Cardinality(tableEntries(t)) - 1
        BY <3>1, FS_RemoveElement
      <3>3. Cardinality(tableEntries(t) \ {e}) \in Nat
        BY <3>2, FS_CardinalityType
      <3> QED
        BY <2>6, <3>2, <3>3
    <2>8. SizeExact(u)
      BY <2>1, <2>7 DEF GoodTable, SizeExact
    <2>9. Table(u)
      BY <2>1, <2>3, <2>7, <2>8 DEF GoodTable, Table, SizeExact
    <2>10. \A j \in DOMAIN t.slots : u.slots[j] \subseteq t.slots[j]
      BY <2>1
    <2>11. InSlot(u)
      BY <2>1, <2>10 DEF GoodTable, InSlot
    <2>12. u.size <= t.size
      BY <2>1 DEF GoodTable, Table
    <2> QED
      BY <1>1, <2>1, <2>5, <2>6, <2>8, <2>9, <2>10, <2>11, <2>12 DEF GoodTable, u
  <1> QED
    BY <1>2, <1>3

\* Rewriting a key's entry in place replaces it and nothing else.
LEMMA ReplaceEntryGood ==
    ASSUME NEW t, GoodTable(t), NEW old \in tableEntries(t),
           \A e, f \in tableEntries(t) : e.key = f.key => e = f,
           NEW new \in Entry, new.key = old.key
    PROVE  /\ GoodTable(replaceEntry(t, old.key, new))
           /\ tableEntries(replaceEntry(t, old.key, new)) =
                 (tableEntries(t) \ {old}) \cup {new}
           /\ replaceEntry(t, old.key, new).capacity = t.capacity
           /\ replaceEntry(t, old.key, new).size = t.size
           /\ \A i \in DOMAIN t.slots :
                 t.slots[i] = {} => replaceEntry(t, old.key, new).slots[i] = {}
  <1> DEFINE u == replaceEntry(t, old.key, new)
  <1>1. /\ u.slots = [i \in DOMAIN t.slots |->
                        {IF e.key = old.key THEN new ELSE e : e \in t.slots[i]}]
        /\ u.capacity = t.capacity
        /\ u.size = t.size
    BY DEF replaceEntry
  <1>2. DOMAIN u.slots = DOMAIN t.slots
    BY <1>1
  <1> HIDE DEF u
  <1>3. \A i \in DOMAIN t.slots : \A e \in t.slots[i] :
            e \in tableEntries(t) /\ (e.key = old.key <=> e = old)
    BY DEF tableEntries
  <1>4. \A i \in DOMAIN t.slots :
            u.slots[i] = {IF e = old THEN new ELSE e : e \in t.slots[i]}
    BY <1>1, <1>3
  <1>5. PICK p \in DOMAIN t.slots : old \in t.slots[p]
    BY DEF tableEntries
  <1>a. \A i \in DOMAIN t.slots : i # p => old \notin t.slots[i]
    BY <1>5 DEF GoodTable, InSlot
  <1>b. u.slots[p] = (t.slots[p] \ {old}) \cup {new}
    BY <1>4, <1>5
  <1>c. ASSUME NEW i \in DOMAIN t.slots, i # p
        PROVE  u.slots[i] = t.slots[i]
    <2>1. \A e \in t.slots[i] : e # old
      BY <1>a, <1>c
    <2>2. u.slots[i] = {IF e = old THEN new ELSE e : e \in t.slots[i]}
      BY <1>4
    <2>3. \A x : x \in {IF e = old THEN new ELSE e : e \in t.slots[i]} <=> x \in t.slots[i]
      BY <2>1
    <2> QED
      BY <2>2, <2>3
  <1>6. \A i \in DOMAIN t.slots :
            u.slots[i] = IF i = p THEN (t.slots[i] \ {old}) \cup {new} ELSE t.slots[i]
    BY <1>b, <1>c
  <1>7. tableEntries(u) = (tableEntries(t) \ {old}) \cup {new}
    <2>1. ASSUME NEW e \in tableEntries(u) PROVE e \in (tableEntries(t) \ {old}) \cup {new}
      <3>1. PICK i \in DOMAIN t.slots : e \in u.slots[i]
        BY <1>2 DEF tableEntries
      <3> QED
        BY <3>1, <1>6, <1>a DEF tableEntries
    <2>2. ASSUME NEW e \in (tableEntries(t) \ {old}) PROVE e \in tableEntries(u)
      <3>1. PICK i \in DOMAIN t.slots : e \in t.slots[i]
        BY DEF tableEntries
      <3>2. e \in u.slots[i]
        BY <3>1, <1>6
      <3> QED
        BY <3>2, <1>2 DEF tableEntries
    <2>3. new \in tableEntries(u)
      BY <1>b, <1>2, <1>5 DEF tableEntries
    <2> QED
      BY <2>1, <2>2, <2>3
  <1>8. new \notin tableEntries(t) \ {old}
    OBVIOUS
  <1>9. /\ IsFiniteSet(tableEntries(u))
        /\ Cardinality(tableEntries(u)) = Cardinality(tableEntries(t))
    <2>1. IsFiniteSet(tableEntries(t)) /\ Cardinality(tableEntries(t)) \in Nat
      BY FS_CardinalityType DEF GoodTable, SizeExact
    <2>2. /\ IsFiniteSet(tableEntries(t) \ {old})
          /\ Cardinality(tableEntries(t) \ {old}) = Cardinality(tableEntries(t)) - 1
      BY <2>1, FS_RemoveElement
    <2> DEFINE S == tableEntries(t) \ {old}
    <2>3. /\ IsFiniteSet(S \cup {new})
          /\ Cardinality(S \cup {new}) =
                IF new \in S THEN Cardinality(S) ELSE Cardinality(S) + 1
      BY <2>2, FS_AddElement
    <2> QED
      BY <1>7, <1>8, <2>1, <2>2, <2>3
  <1>10. Table(u)
    <2>1. \A i \in DOMAIN t.slots : u.slots[i] \in SUBSET Entry
      BY <1>6 DEF GoodTable, Table
    <2> QED
      BY <1>1, <2>1 DEF GoodTable, Table
  <1>11. InSlot(u)
    BY <1>1, <1>2, <1>5, <1>6 DEF GoodTable, InSlot
  <1>12. SizeExact(u)
    BY <1>1, <1>9 DEF GoodTable, SizeExact
  <1>13. \A i \in DOMAIN t.slots : t.slots[i] = {} => u.slots[i] = {}
    BY <1>4
  <1> QED
    BY <1>1, <1>7, <1>10, <1>11, <1>12, <1>13 DEF GoodTable, u

-----------------------------------------------------------------------------
(* Incremental rehashing. *)

\* A batch ends inside the old table and, if the table is not at its end,
\* advances.
LEMMA BatchEndProgress ==
    ASSUME NEW h, h.rehashIdx \in Nat, h.rehash.capacity \in Nat,
           h.rehashIdx < h.rehash.capacity
    PROVE  batchEnd(h) \in (h.rehashIdx + 1)..h.rehash.capacity
  <1> DEFINE occupied(to) == {j \in h.rehashIdx..(to - 1) : h.rehash.slots[j] # {}}
             reached(to)  == \/ to = h.rehash.capacity
                             \/ Cardinality(occupied(to)) = kRehashBatchSize
             T == {to \in h.rehashIdx..h.rehash.capacity : reached(to)}
             first(to) == /\ reached(to)
                          /\ \A j \in h.rehashIdx..(to - 1) : ~reached(j)
  <1>1. batchEnd(h) = CHOOSE to \in h.rehashIdx..h.rehash.capacity : first(to)
    BY DEF batchEnd
  <1>2. h.rehash.capacity \in T
    OBVIOUS
  <1>3. \E to \in h.rehashIdx..h.rehash.capacity : first(to)
    <2>1. PICK m \in T : \A y \in T : m <= y
      <3>1. T \in SUBSET Nat /\ T # {}
        BY <1>2
      <3> QED
        BY <3>1, LeastNat
    <2>2. ASSUME NEW j \in h.rehashIdx..(m - 1) PROVE ~reached(j)
      <3>1. j \in h.rehashIdx..h.rehash.capacity /\ ~(m <= j)
        BY <2>1
      <3>2. j \notin T
        BY <2>1, <3>1
      <3> QED
        BY <3>1, <3>2
    <2>3. first(m)
      BY <2>1, <2>2
    <2> QED
      BY <2>3
  <1>4. ~reached(h.rehashIdx)
    <2>1. occupied(h.rehashIdx) = {}
      OBVIOUS
    <2> QED
      BY <2>1, FS_EmptySet, BatchAssumption
  <1> HIDE DEF first, reached
  <1>5. batchEnd(h) \in h.rehashIdx..h.rehash.capacity /\ first(batchEnd(h))
    BY <1>1, <1>3
  <1>6. batchEnd(h) # h.rehashIdx
    BY <1>4, <1>5 DEF first
  <1> QED
    BY <1>5, <1>6

\* A step of a rehash moves entries from one table to the other: it keeps the
\* contents and the size, and it advances or ends the rehash.
LEMMA RehashStepSound ==
    ASSUME NEW h, Sound(h)
    PROVE  /\ Sound(rehashStep(h))
           /\ entries(rehashStep(h)) = entries(h)
           /\ size(rehashStep(h)) = size(h)
           /\ rehashStep(h).primary.capacity = h.primary.capacity
           /\ rehashStep(h).isRehashing =>
                 /\ h.isRehashing
                 /\ rehashStep(h).rehash.capacity = h.rehash.capacity
                 /\ rehashStep(h).rehashIdx >= h.rehashIdx + 1
  <1>1. CASE ~h.isRehashing
    <2>1. rehashStep(h) = h
      BY <1>1 DEF rehashStep
    <2> QED
      BY <1>1, <2>1
  <1>2. CASE h.isRehashing
    <2> DEFINE to    == batchEnd(h)
               moved == slotRange(h.rehash, h.rehashIdx, to)
               p     == insertAll(h.primary, moved)
               r     == clearSlots(h.rehash, h.rehashIdx, to, moved)
               g     == rehashStep(h)
    <2>1. g = IF r.size = 0
              THEN [primary |-> p, rehash |-> freeTable(r),
                    isRehashing |-> FALSE, rehashIdx |-> 0]
              ELSE [primary |-> p, rehash |-> r,
                    isRehashing |-> TRUE, rehashIdx |-> to]
      BY <1>2 DEF rehashStep
    <2>2. /\ h.rehashIdx \in Nat
          /\ h.rehash.capacity \in Nat
          /\ h.rehashIdx < h.rehash.capacity
          /\ h.primary.capacity = 2 * h.rehash.capacity
          /\ h.primary.capacity # 0
          /\ GoodTable(h.primary) /\ GoodTable(h.rehash)
          /\ \A i \in 0..(h.rehashIdx - 1) : h.rehash.slots[i] = {}
          /\ \A e, f \in entries(h) : e.key = f.key => e = f
          /\ tableEntries(h.primary) \cap tableEntries(h.rehash) = {}
      BY <1>2 DEF Sound, Shape, GoodTable, Table, Progress, Unique
    <2>3. to \in (h.rehashIdx + 1)..h.rehash.capacity
      BY <2>2, BatchEndProgress
    <2> HIDE DEF to, g
    <2>4. to \in Nat /\ to <= h.rehash.capacity
      BY <2>2, <2>3
    <2>5. /\ GoodTable(r)
          /\ tableEntries(r) = tableEntries(h.rehash) \ moved
          /\ r.capacity = h.rehash.capacity
          /\ r.size = h.rehash.size - Cardinality(moved)
          /\ moved \subseteq tableEntries(h.rehash)
          /\ moved \subseteq Entry
          /\ IsFiniteSet(moved)
      BY <2>2, <2>4, ClearSlotsGood
    <2>a. r.slots = [i \in DOMAIN h.rehash.slots |->
              IF i \in h.rehashIdx..(to - 1) THEN {} ELSE h.rehash.slots[i]]
      BY DEF clearSlots
    <2> HIDE DEF moved, r
    <2>6. moved \cap tableEntries(h.primary) = {}
      BY <2>2, <2>5
    <2>7. /\ GoodTable(p)
          /\ tableEntries(p) = tableEntries(h.primary) \cup moved
          /\ p.capacity = h.primary.capacity
          /\ p.size = h.primary.size + Cardinality(moved)
      BY <2>2, <2>5, <2>6, InsertAllGood
    <2> HIDE DEF p
    <2>8. Cardinality(moved) \in Nat
      BY <2>5, FS_CardinalityType
    <2>9. tableEntries(p) \cup tableEntries(r) = entries(h)
      BY <2>5, <2>7 DEF entries
    <2>10. tableEntries(p) \cap tableEntries(r) = {}
      BY <2>2, <2>5, <2>7
    <2>11. p.size + r.size = h.primary.size + h.rehash.size
      BY <2>2, <2>5, <2>7, <2>8 DEF GoodTable, Table
    <2>12. CASE r.size = 0
      <3>1. /\ g.primary = p /\ g.rehash = NullTable
            /\ g.isRehashing = FALSE /\ g.rehashIdx = 0
        BY <2>1, <2>12 DEF freeTable
      <3>a. g = [primary |-> g.primary, rehash |-> g.rehash,
                 isRehashing |-> g.isRehashing, rehashIdx |-> g.rehashIdx]
        BY <2>1, <2>12
      <3>2. tableEntries(r) = {}
        BY <2>5, <2>12, FS_EmptySet DEF GoodTable, SizeExact
      <3>3. entries(g) = entries(h)
        BY <3>1, <3>2, <2>9, NullTableGood DEF entries
      <3>4. size(g) = size(h)
        <4>1. p.size \in Nat
          BY <2>7 DEF GoodTable, Table
        <4> QED
          BY <3>1, <2>11, <2>12, <4>1 DEF size, NullTable
      <3>5. Unique(g)
        BY <3>1, <3>3, <2>2, NullTableGood DEF Unique
      <3>6. Sound(g)
        <4>1. ~g.isRehashing
          BY <3>1
        <4>2. Progress(g)
          BY <3>1, <4>1 DEF Progress
        <4>3. Shape(g)
          <5>1. g.isRehashing \in BOOLEAN
            BY <3>1, Zenon
          <5>2. g.rehashIdx \in Nat
            BY <3>1
          <5> QED
            BY <3>a, <5>1, <5>2, Zenon DEF Shape
        <4>4. GoodTable(g.primary) /\ GoodTable(g.rehash)
          BY <3>1, <2>7, NullTableGood
        <4> QED
          BY <3>5, <4>2, <4>3, <4>4 DEF Sound
      <3> QED
        BY <3>1, <3>3, <3>4, <3>6, <2>7 DEF g
    <2>13. CASE r.size # 0
      <3>1. /\ g.primary = p /\ g.rehash = r
            /\ g.isRehashing = TRUE /\ g.rehashIdx = to
        BY <2>1, <2>13
      <3>a. g = [primary |-> g.primary, rehash |-> g.rehash,
                 isRehashing |-> g.isRehashing, rehashIdx |-> g.rehashIdx]
        BY <2>1, <2>13
      <3>2. entries(g) = entries(h)
        BY <3>1, <2>9 DEF entries
      <3>3. size(g) = size(h)
        BY <3>1, <2>11 DEF size
      <3>4. Unique(g)
        BY <3>1, <3>2, <2>2, <2>10 DEF Unique
      <3>5. \A i \in 0..(to - 1) : r.slots[i] = {}
        <4>1. ASSUME NEW i \in 0..(to - 1) PROVE r.slots[i] = {}
          <5>1. i \in DOMAIN h.rehash.slots
            BY <2>2, <2>4 DEF GoodTable, Table
          <5>2. i \in 0..(h.rehashIdx - 1) \/ i \in h.rehashIdx..(to - 1)
            BY <2>2, <2>4
          <5> QED
            BY <5>1, <5>2, <2>a, <2>2
        <4> QED
          BY <4>1
      <3>6. to < h.rehash.capacity
        <4>1. ASSUME to = h.rehash.capacity PROVE FALSE
          <5>1. \A i \in DOMAIN r.slots : r.slots[i] = {}
            BY <3>5, <4>1, <2>5 DEF GoodTable, Table
          <5>2. tableEntries(r) = {}
            BY <5>1 DEF tableEntries
          <5> QED
            BY <5>2, <2>5, <2>13, FS_EmptySet DEF GoodTable, SizeExact
        <4> QED
          BY <4>1, <2>2, <2>4
      <3>7. Progress(g)
        BY <3>1, <3>5, <3>6, <2>2, <2>5, <2>7 DEF Progress
      <3>8. Sound(g)
        BY <3>1, <3>a, <3>4, <3>7, <2>4, <2>5, <2>7 DEF Sound, Shape
      <3>9. to >= h.rehashIdx + 1
        BY <2>2, <2>3
      <3>10. /\ g.primary.capacity = h.primary.capacity
             /\ g.rehash.capacity = h.rehash.capacity
             /\ g.rehashIdx >= h.rehashIdx + 1
        BY <3>1, <3>9, <2>5, <2>7
      <3> QED
        BY <1>2, <3>2, <3>3, <3>8, <3>10 DEF g
    <2> QED
      BY <2>12, <2>13
  <1> QED
    BY <1>1, <1>2 DEF Sound, Shape

-----------------------------------------------------------------------------
(* The operations. *)

\* The fields of a table pair put together from its parts.
LEMMA WithTables ==
    ASSUME NEW h, Shape(h), NEW p, NEW r
    PROVE  /\ Shape(withTables(h, p, r))
           /\ withTables(h, p, r).primary = p
           /\ withTables(h, p, r).rehash = r
           /\ withTables(h, p, r).isRehashing = h.isRehashing
           /\ withTables(h, p, r).rehashIdx = h.rehashIdx
  BY DEF withTables, Shape

\* What the load must satisfy for one more entry to be allowed in.
Room(h) ==
    IF h.isRehashing
    THEN size(h) <= kMaxLoadFactor * h.rehash.capacity + h.rehashIdx
    ELSE size(h) <= kMaxLoadFactor * h.primary.capacity

\* A step of a rehash makes room: it advances rehashIdx, and when it ends the
\* rehash the doubled table has more room than the insertions have used.
LEMMA RehashStepMakesRoom ==
    ASSUME NEW h, Sound(h), Load(h)
    PROVE  Room(rehashStep(h))
  <1> DEFINE g == rehashStep(h)
  <1>1. /\ Sound(g)
        /\ size(g) = size(h)
        /\ g.primary.capacity = h.primary.capacity
        /\ g.isRehashing => /\ h.isRehashing
                            /\ g.rehash.capacity = h.rehash.capacity
                            /\ g.rehashIdx >= h.rehashIdx + 1
    BY RehashStepSound
  <1> DEFINE c == h.rehash.capacity
             M == kMaxLoadFactor
  <1>2. c \in Nat /\ M \in Nat /\ M >= 1 /\ h.rehashIdx \in Nat /\ size(h) \in Nat
        /\ g.rehashIdx \in Nat
    BY <1>1, LoadFactorAssumption DEF Sound, Shape, GoodTable, Table, size
  <1>3. M * c \in Nat /\ M * c >= c /\ M * (2 * c) = 2 * (M * c)
    BY <1>2
  <1>4. CASE ~h.isRehashing
    <2>1. g = h
      BY <1>4 DEF rehashStep
    <2> QED
      BY <1>4, <2>1 DEF Load, Room
  <1>5. CASE h.isRehashing /\ g.isRehashing
    <2>1. size(h) <= M * c + 1 + h.rehashIdx
      BY <1>5 DEF Load
    <2> HIDE DEF g, c, M
    <2>2. size(g) <= M * c + g.rehashIdx
      BY <1>1, <1>2, <1>3, <1>5, <2>1
    <2> QED
      BY <1>1, <1>5, <2>2 DEF Room, g, c, M
  <1>6. CASE h.isRehashing /\ ~g.isRehashing
    <2>1. size(h) <= M * c + 1 + h.rehashIdx
      BY <1>6 DEF Load
    <2>2. h.rehashIdx < c /\ g.primary.capacity = 2 * c
      BY <1>1, <1>6 DEF Sound, Progress
    <2> HIDE DEF g, c, M
    <2>3. size(g) <= 2 * (M * c)
      BY <1>1, <1>2, <1>3, <2>1, <2>2
    <2> QED
      BY <1>3, <1>6, <2>2, <2>3 DEF Room, g, c, M
  <1> QED
    BY <1>4, <1>5, <1>6

\* The numbers the load is computed from.
LEMMA SoundNumbers ==
    ASSUME NEW h, Sound(h)
    PROVE  /\ size(h) \in Nat
           /\ h.rehashIdx \in Nat
           /\ h.rehash.capacity \in Nat
           /\ h.primary.capacity \in Nat
           /\ kMaxLoadFactor * h.rehash.capacity \in Nat
           /\ kMaxLoadFactor * h.primary.capacity \in Nat
  BY LoadFactorAssumption DEF Sound, Shape, GoodTable, Table, size

\* Room is more than Load asks for.
LEMMA RoomImpliesLoad ==
    ASSUME NEW h, Sound(h), Room(h)
    PROVE  Load(h)
  BY SoundNumbers DEF Room, Load

\* Uniqueness of keys, table by table.
LEMMA UniqueParts ==
    ASSUME NEW h, Unique(h)
    PROVE  /\ \A e, f \in tableEntries(h.primary) : e.key = f.key => e = f
           /\ \A e, f \in tableEntries(h.rehash) : e.key = f.key => e = f
           /\ \A e \in tableEntries(h.primary), f \in tableEntries(h.rehash) :
                 e.key # f.key
  <1>1. tableEntries(h.primary) \subseteq entries(h)
        /\ tableEntries(h.rehash) \subseteq entries(h)
    BY DEF entries
  <1> QED
    BY <1>1 DEF Unique

\* Shrinking the old table keeps the pair sound.
LEMMA ShrinkRehashSound ==
    ASSUME NEW h, Sound(h), h.isRehashing, NEW k \in Key
    PROVE  LET g == withTables(h, h.primary, delFromTable(h.rehash, k)) IN
           /\ Sound(g)
           /\ entries(g) = entries(h) \ {e \in tableEntries(h.rehash) : e.key = k}
           /\ tableEntries(g.rehash) =
                 tableEntries(h.rehash) \ {e \in tableEntries(h.rehash) : e.key = k}
           /\ size(g) <= size(h)
           /\ g.rehash.capacity = h.rehash.capacity
  <1> DEFINE r == delFromTable(h.rehash, k)
             g == withTables(h, h.primary, r)
             K == {e \in tableEntries(h.rehash) : e.key = k}
  <1>1. /\ GoodTable(r)
        /\ tableEntries(r) = tableEntries(h.rehash) \ K
        /\ r.capacity = h.rehash.capacity
        /\ r.size <= h.rehash.size
        /\ \A i \in DOMAIN h.rehash.slots : r.slots[i] \subseteq h.rehash.slots[i]
    BY UniqueParts, DelFromTableGood DEF Sound
  <1> HIDE DEF r
  <1>a. Shape(h)
    BY DEF Sound
  <1>2. /\ Shape(g)
        /\ g.primary = h.primary
        /\ g.rehash = r
        /\ g.isRehashing
        /\ g.rehashIdx = h.rehashIdx
    <2>1. /\ Shape(g)
          /\ g.primary = h.primary
          /\ g.rehash = r
          /\ g.rehashIdx = h.rehashIdx
      BY <1>a, WithTables
    <2>2. g.isRehashing
      BY DEF withTables
    <2> QED
      BY <2>1, <2>2
  <1> HIDE DEF g
  <1>3. entries(g) = entries(h) \ K
    BY <1>1, <1>2 DEF entries, Sound, Unique
  <1>4. Unique(g)
    BY <1>1, <1>2, <1>3 DEF Sound, Unique
  <1>5. Progress(g)
    <2>1. \A i \in 0..(h.rehashIdx - 1) : i \in DOMAIN h.rehash.slots /\ h.rehash.slots[i] = {}
      BY DEF Sound, Shape, Progress, GoodTable, Table
    <2>2. \A i \in 0..(h.rehashIdx - 1) : r.slots[i] = {}
      BY <1>1, <2>1
    <2> QED
      BY <1>1, <1>2, <2>2 DEF Sound, Progress
  <1>6. Sound(g)
    BY <1>1, <1>2, <1>4, <1>5 DEF Sound
  <1>7. size(g) <= size(h)
    BY <1>1, <1>2 DEF size, Sound, GoodTable, Table
  <1> QED
    BY <1>1, <1>2, <1>3, <1>6, <1>7 DEF g, r

\* A table without slots holds nothing.
LEMMA NoSlotsNoEntries ==
    ASSUME NEW t, GoodTable(t), t.capacity = 0
    PROVE  tableEntries(t) = {} /\ t.size = 0
  <1>1. tableEntries(t) = {}
    BY DEF GoodTable, Table, tableEntries
  <1> QED
    BY <1>1, FS_EmptySet DEF GoodTable, SizeExact

\* The first half of set: afterwards primary has slots and the old table does
\* not hold the key.
LEMMA BeforeInsertSound ==
    ASSUME NEW h, Sound(h), Room(h), NEW k \in Key
    PROVE  /\ Sound(beforeInsert(h, k))
           /\ Room(beforeInsert(h, k))
           /\ beforeInsert(h, k).primary.capacity # 0
           /\ tableEntries(beforeInsert(h, k).primary) = tableEntries(h.primary)
           /\ tableEntries(beforeInsert(h, k).rehash) =
                 tableEntries(h.rehash) \ {e \in tableEntries(h.rehash) : e.key = k}
  <1> DEFINE b == beforeInsert(h, k)
             K == {e \in tableEntries(h.rehash) : e.key = k}
  <1>1. CASE h.isRehashing
    <2>1. h.primary.capacity # 0
      BY <1>1 DEF Sound, Progress, GoodTable, Table
    <2>2. b = withTables(h, h.primary, delFromTable(h.rehash, k))
      BY <1>1, <2>1 DEF beforeInsert
    <2>3. /\ Sound(b)
          /\ tableEntries(b.rehash) = tableEntries(h.rehash) \ K
          /\ size(b) <= size(h)
          /\ b.rehash.capacity = h.rehash.capacity
      BY <1>1, <2>2, ShrinkRehashSound
    <2>4. b.primary = h.primary /\ b.isRehashing = h.isRehashing /\ b.rehashIdx = h.rehashIdx
      BY <2>2, WithTables DEF Sound
    <2> HIDE DEF b
    <2>5. Room(b)
      <3>1. size(b) \in Nat /\ size(h) \in Nat /\ h.rehashIdx \in Nat
            /\ kMaxLoadFactor * h.rehash.capacity \in Nat
        BY <2>3, SoundNumbers
      <3>2. size(h) <= kMaxLoadFactor * h.rehash.capacity + h.rehashIdx
        BY <1>1 DEF Room
      <3>3. size(b) <= kMaxLoadFactor * h.rehash.capacity + h.rehashIdx
        BY <2>3, <3>1, <3>2
      <3> QED
        BY <1>1, <2>3, <2>4, <3>3 DEF Room
    <2> QED
      BY <2>1, <2>3, <2>4, <2>5 DEF b
  <1>2. CASE ~h.isRehashing
    <2>1. h.rehash = NullTable /\ h.rehashIdx = 0
      BY <1>2 DEF Sound, Progress
    <2>2. K = {} /\ tableEntries(h.rehash) = {}
      BY <2>1, NullTableGood
    <2>3. CASE h.primary.capacity # 0
      <3>1. b = withTables(h, h.primary, h.rehash)
        BY <1>2, <2>3 DEF beforeInsert
      <3>2. b = h
        BY <3>1 DEF withTables, Sound, Shape
      <3> QED
        BY <2>2, <2>3, <3>2
    <2>4. CASE h.primary.capacity = 0
      <3> DEFINE p == allocTable(kInitialCapacity)
      <3>1. b = withTables(h, p, h.rehash)
        BY <1>2, <2>4 DEF beforeInsert
      <3>2. GoodTable(p) /\ tableEntries(p) = {} /\ p.capacity = kInitialCapacity /\ p.size = 0
        BY AllocTableGood, CapacityAssumption
      <3> HIDE DEF p
      <3>3. /\ Shape(b) /\ b.primary = p /\ b.rehash = h.rehash
            /\ b.isRehashing = h.isRehashing /\ b.rehashIdx = h.rehashIdx
        BY <3>1, WithTables DEF Sound
      <3>4. tableEntries(h.primary) = {} /\ h.primary.size = 0
        BY <2>4, NoSlotsNoEntries DEF Sound
      <3> HIDE DEF b
      <3>5. Unique(b)
        BY <3>2, <3>3, <2>2 DEF Unique, entries
      <3>6. Sound(b)
        BY <1>2, <3>2, <3>3, <3>5, <2>1, NullTableGood DEF Sound, Progress
      <3>7. Room(b)
        <4>1. size(b) = 0
          BY <3>2, <3>3, <2>1 DEF size, NullTable
        <4>2. kMaxLoadFactor * b.primary.capacity \in Nat
          BY <3>2, <3>3, CapacityAssumption, LoadFactorAssumption
        <4> QED
          BY <1>2, <3>3, <4>1, <4>2 DEF Room
      <3> QED
        BY <2>2, <3>2, <3>3, <3>4, <3>6, <3>7, CapacityAssumption DEF b
    <2> QED
      BY <2>3, <2>4
  <1> QED
    BY <1>1, <1>2 DEF Sound, Shape

Fresh(k, v) == [key |-> k, value |-> v, expireAt |-> NoExpiry]

LEMMA FreshIsEntry ==
    ASSUME NEW k \in Key, NEW v \in Value
    PROVE  Fresh(k, v) \in Entry /\ Fresh(k, v).key = k
  BY DEF Fresh, Entry

\* Putting a new key into primary keeps the pair sound.
LEMMA AddToPrimarySound ==
    ASSUME NEW h, Sound(h), h.primary.capacity # 0, NEW n \in Entry,
           \A e \in entries(h) : e.key # n.key
    PROVE  LET g == withTables(h, insertAll(h.primary, {n}), h.rehash) IN
           /\ Sound(g)
           /\ entries(g) = entries(h) \cup {n}
           /\ size(g) = size(h) + 1
           /\ g.primary.capacity = h.primary.capacity
  <1> DEFINE p == insertAll(h.primary, {n})
             g == withTables(h, p, h.rehash)
  <1>1. n \notin entries(h)
    OBVIOUS
  <1>2. IsFiniteSet({n}) /\ Cardinality({n}) = 1
    BY FS_Singleton
  <1>3. /\ GoodTable(p)
        /\ tableEntries(p) = tableEntries(h.primary) \cup {n}
        /\ p.capacity = h.primary.capacity
        /\ p.size = h.primary.size + 1
    <2>1. {n} \cap tableEntries(h.primary) = {}
      BY <1>1 DEF entries
    <2>2. GoodTable(h.primary)
      BY DEF Sound
    <2> QED
      BY <1>2, <2>1, <2>2, InsertAllGood
  <1> HIDE DEF p
  <1>a. Shape(h)
    BY DEF Sound
  <1>4. /\ Shape(g)
        /\ g.primary = p
        /\ g.rehash = h.rehash
        /\ g.rehashIdx = h.rehashIdx
    BY <1>a, WithTables
  <1>5. g.isRehashing <=> h.isRehashing
    BY DEF withTables
  <1> HIDE DEF g
  <1>6. entries(g) = entries(h) \cup {n}
    BY <1>3, <1>4 DEF entries
  <1>7. Unique(g)
    <2>1. \A e, f \in entries(g) : e.key = f.key => e = f
      BY <1>6 DEF Sound, Unique
    <2>2. tableEntries(g.primary) \cap tableEntries(g.rehash) = {}
      BY <1>1, <1>3, <1>4 DEF Sound, Unique, entries
    <2> QED
      BY <2>1, <2>2 DEF Unique
  <1>8. Progress(g)
    BY <1>3, <1>4, <1>5 DEF Sound, Progress
  <1>9. Sound(g)
    BY <1>3, <1>4, <1>7, <1>8 DEF Sound
  <1>10. size(g) = size(h) + 1
    BY <1>3, <1>4 DEF size, Sound, GoodTable, Table
  <1> QED
    BY <1>3, <1>4, <1>6, <1>9, <1>10 DEF g, p

\* A table that becomes the old one: the pair stays sound.
LEMMA TriggerRehashSound ==
    ASSUME NEW h, Sound(h), ~h.isRehashing, h.primary.capacity # 0
    PROVE  /\ Sound(triggerRehash(h))
           /\ entries(triggerRehash(h)) = entries(h)
           /\ size(triggerRehash(h)) = size(h)
           /\ triggerRehash(h).isRehashing
           /\ triggerRehash(h).rehashIdx = 0
           /\ triggerRehash(h).rehash.capacity = h.primary.capacity
  <1> DEFINE g == triggerRehash(h)
             p == allocTable(2 * h.primary.capacity)
  <1>1. h.primary.capacity \in Nat /\ GoodTable(h.primary) /\ h.rehash = NullTable
    BY DEF Sound, GoodTable, Table, Progress
  <1>2. /\ GoodTable(p) /\ tableEntries(p) = {} /\ p.size = 0
        /\ p.capacity = 2 * h.primary.capacity
    BY <1>1, AllocTableGood
  <1>3. g = [primary |-> p, rehash |-> h.primary, isRehashing |-> TRUE, rehashIdx |-> 0]
    BY DEF triggerRehash
  <1> HIDE DEF p, g
  <1>4. g.primary = p /\ g.rehash = h.primary /\ g.isRehashing /\ g.rehashIdx = 0
    BY <1>3
  <1>5. Shape(g)
    BY <1>3 DEF Shape
  <1>6. entries(g) = entries(h)
    BY <1>1, <1>2, <1>4, NullTableGood DEF entries
  <1>7. Unique(g)
    BY <1>2, <1>4, <1>6 DEF Sound, Unique
  <1>8. Progress(g)
    BY <1>1, <1>2, <1>4 DEF Progress
  <1>9. size(g) = size(h)
    BY <1>1, <1>2, <1>4 DEF size, NullTable, GoodTable, Table
  <1> QED
    BY <1>1, <1>2, <1>4, <1>5, <1>6, <1>7, <1>8, <1>9 DEF Sound, g

\* The second half of set for a new key.
LEMMA InsertNewSound ==
    ASSUME NEW h, Sound(h), Room(h), h.primary.capacity # 0,
           NEW k \in Key, NEW v \in Value, \A e \in entries(h) : e.key # k
    PROVE  /\ Sound(insertNew(h, k, v))
           /\ Load(insertNew(h, k, v))
           /\ entries(insertNew(h, k, v)) = entries(h) \cup {Fresh(k, v)}
  <1> DEFINE n == Fresh(k, v)
             g == withTables(h, insertAll(h.primary, {n}), h.rehash)
  <1>1. n \in Entry /\ n.key = k
    BY FreshIsEntry
  <1> HIDE DEF n
  <1>2. /\ Sound(g)
        /\ entries(g) = entries(h) \cup {n}
        /\ size(g) = size(h) + 1
        /\ g.primary.capacity = h.primary.capacity
    BY <1>1, AddToPrimarySound
  <1>3. g.isRehashing <=> h.isRehashing
    BY DEF withTables
  <1>4. g.rehash = h.rehash /\ g.rehashIdx = h.rehashIdx
    BY DEF withTables
  <1>5. insertNew(h, k, v) =
            IF ~g.isRehashing /\ g.primary.size > kMaxLoadFactor * g.primary.capacity
            THEN triggerRehash(g) ELSE g
    BY DEF insertNew, n, Fresh
  <1> HIDE DEF g
  <1>6. /\ size(h) \in Nat /\ h.rehashIdx \in Nat
        /\ kMaxLoadFactor * h.rehash.capacity \in Nat
        /\ kMaxLoadFactor * h.primary.capacity \in Nat
    BY SoundNumbers
  <1>7. CASE g.isRehashing
    <2>1. size(h) <= kMaxLoadFactor * h.rehash.capacity + h.rehashIdx
      BY <1>3, <1>7 DEF Room
    <2>2. size(g) <= kMaxLoadFactor * g.rehash.capacity + 1 + g.rehashIdx
      BY <1>2, <1>4, <1>6, <2>1
    <2>3. Load(g)
      BY <1>7, <2>2 DEF Load
    <2> QED
      BY <1>2, <1>5, <1>7, <2>3 DEF n
  <1>8. CASE ~g.isRehashing /\ g.primary.size > kMaxLoadFactor * g.primary.capacity
    <2>1. /\ Sound(triggerRehash(g))
          /\ entries(triggerRehash(g)) = entries(g)
          /\ size(triggerRehash(g)) = size(g)
          /\ triggerRehash(g).isRehashing
          /\ triggerRehash(g).rehashIdx = 0
          /\ triggerRehash(g).rehash.capacity = g.primary.capacity
      BY <1>2, <1>8, TriggerRehashSound
    <2>2. size(h) <= kMaxLoadFactor * h.primary.capacity
      BY <1>3, <1>8 DEF Room
    <2>3. size(g) <= kMaxLoadFactor * g.primary.capacity + 1 + 0
      BY <1>2, <1>6, <2>2
    <2>4. Load(triggerRehash(g))
      BY <2>1, <2>3 DEF Load
    <2> QED
      BY <1>2, <1>5, <1>8, <2>1, <2>4 DEF n
  <1>9. CASE ~g.isRehashing /\ ~(g.primary.size > kMaxLoadFactor * g.primary.capacity)
    <2>1. g.rehash = NullTable
      BY <1>2, <1>9 DEF Sound, Progress
    <2>2. size(g) = g.primary.size /\ g.primary.size \in Nat
      BY <1>2, <2>1 DEF size, NullTable, Sound, GoodTable, Table
    <2>3. Load(g)
      BY <1>2, <1>6, <1>9, <2>2 DEF Load
    <2> QED
      BY <1>2, <1>5, <1>9, <2>3 DEF n
  <1> QED
    BY <1>7, <1>8, <1>9

\* Two pairs of tables of the same sizes and capacities have the same load.
LEMMA SameLoad ==
    ASSUME NEW g, NEW h, g.isRehashing <=> h.isRehashing, size(g) = size(h),
           g.rehash.capacity = h.rehash.capacity,
           g.primary.capacity = h.primary.capacity, g.rehashIdx = h.rehashIdx
    PROVE  /\ Load(h) => Load(g)
           /\ Room(h) => Room(g)
  BY DEF Load, Room

\* Rewriting an entry of primary in place.
LEMMA ReplaceInPrimarySound ==
    ASSUME NEW h, Sound(h), NEW old \in tableEntries(h.primary),
           NEW new \in Entry, new.key = old.key
    PROVE  LET g == withTables(h, replaceEntry(h.primary, old.key, new), h.rehash) IN
           /\ Sound(g)
           /\ entries(g) = (entries(h) \ {old}) \cup {new}
           /\ Load(h) => Load(g)
  <1> DEFINE p == replaceEntry(h.primary, old.key, new)
             g == withTables(h, p, h.rehash)
  <1>a. Shape(h) /\ Unique(h) /\ GoodTable(h.primary) /\ GoodTable(h.rehash) /\ Progress(h)
    BY DEF Sound
  <1>1. /\ \A e, f \in tableEntries(h.primary) : e.key = f.key => e = f
        /\ \A e \in tableEntries(h.primary), f \in tableEntries(h.rehash) : e.key # f.key
    BY <1>a, UniqueParts
  <1>2. /\ GoodTable(p)
        /\ tableEntries(p) = (tableEntries(h.primary) \ {old}) \cup {new}
        /\ p.capacity = h.primary.capacity
        /\ p.size = h.primary.size
    BY <1>a, <1>1, ReplaceEntryGood
  <1> HIDE DEF p
  <1>3. Shape(g) /\ g.primary = p /\ g.rehash = h.rehash /\ g.rehashIdx = h.rehashIdx
    BY <1>a, WithTables
  <1>4. g.isRehashing <=> h.isRehashing
    BY DEF withTables
  <1> HIDE DEF g
  <1>5. entries(g) = (entries(h) \ {old}) \cup {new}
    BY <1>1, <1>2, <1>3 DEF entries
  <1>6. Unique(g)
    <2>1. \A e, f \in entries(g) : e.key = f.key => e = f
      <3>1. old \in entries(h)
        BY DEF entries
      <3> QED
        BY <1>5, <1>a, <3>1 DEF Unique
    <2>2. tableEntries(g.primary) \cap tableEntries(g.rehash) = {}
      BY <1>1, <1>2, <1>3, <1>a DEF Unique
    <2> QED
      BY <2>1, <2>2 DEF Unique
  <1>7. Progress(g)
    BY <1>2, <1>3, <1>4, <1>a DEF Progress
  <1>8. Sound(g)
    BY <1>2, <1>3, <1>6, <1>7, <1>a DEF Sound
  <1>9. size(g) = size(h)
    BY <1>2, <1>3 DEF size
  <1>10. Load(h) => Load(g)
    BY <1>2, <1>3, <1>4, <1>9, SameLoad
  <1> QED
    BY <1>5, <1>8, <1>10 DEF g, p

\* Rewriting an entry of the old table in place.
LEMMA ReplaceInRehashSound ==
    ASSUME NEW h, Sound(h), h.isRehashing, NEW old \in tableEntries(h.rehash),
           NEW new \in Entry, new.key = old.key
    PROVE  LET g == withTables(h, h.primary, replaceEntry(h.rehash, old.key, new)) IN
           /\ Sound(g)
           /\ entries(g) = (entries(h) \ {old}) \cup {new}
           /\ Load(h) => Load(g)
  <1> DEFINE r == replaceEntry(h.rehash, old.key, new)
             g == withTables(h, h.primary, r)
  <1>a. Shape(h) /\ Unique(h) /\ GoodTable(h.primary) /\ GoodTable(h.rehash) /\ Progress(h)
    BY DEF Sound
  <1>1. /\ \A e, f \in tableEntries(h.rehash) : e.key = f.key => e = f
        /\ \A e \in tableEntries(h.primary), f \in tableEntries(h.rehash) : e.key # f.key
    BY <1>a, UniqueParts
  <1>2. /\ GoodTable(r)
        /\ tableEntries(r) = (tableEntries(h.rehash) \ {old}) \cup {new}
        /\ r.capacity = h.rehash.capacity
        /\ r.size = h.rehash.size
        /\ \A i \in DOMAIN h.rehash.slots : h.rehash.slots[i] = {} => r.slots[i] = {}
    BY <1>a, <1>1, ReplaceEntryGood
  <1> HIDE DEF r
  <1>3. Shape(g) /\ g.primary = h.primary /\ g.rehash = r /\ g.rehashIdx = h.rehashIdx
    BY <1>a, WithTables
  <1>4. g.isRehashing
    BY DEF withTables
  <1> HIDE DEF g
  <1>5. entries(g) = (entries(h) \ {old}) \cup {new}
    BY <1>1, <1>2, <1>3 DEF entries
  <1>6. Unique(g)
    <2>1. \A e, f \in entries(g) : e.key = f.key => e = f
      <3>1. old \in entries(h)
        BY DEF entries
      <3> QED
        BY <1>5, <1>a, <3>1 DEF Unique
    <2>2. tableEntries(g.primary) \cap tableEntries(g.rehash) = {}
      BY <1>1, <1>2, <1>3, <1>a DEF Unique
    <2> QED
      BY <2>1, <2>2 DEF Unique
  <1>7. Progress(g)
    <2>1. \A i \in 0..(h.rehashIdx - 1) : i \in DOMAIN h.rehash.slots /\ h.rehash.slots[i] = {}
      BY <1>a DEF Shape, Progress, GoodTable, Table
    <2>2. \A i \in 0..(h.rehashIdx - 1) : r.slots[i] = {}
      BY <1>2, <2>1
    <2> QED
      BY <1>2, <1>3, <1>4, <1>a, <2>2 DEF Progress
  <1>8. Sound(g)
    BY <1>2, <1>3, <1>6, <1>7, <1>a DEF Sound
  <1>9. size(g) = size(h)
    BY <1>2, <1>3 DEF size
  <1>10. Load(h) => Load(g)
    BY <1>2, <1>3, <1>4, <1>9, SameLoad
  <1> QED
    BY <1>5, <1>8, <1>10 DEF g, r

\* find's answer, in terms of the contents.
LEMMA FindIsAt ==
    ASSUME NEW h, Sound(h), NEW k \in Key
    PROVE  /\ find(h, k) = {e \in entries(h) : e.key = k}
           /\ findInTable(h.primary, k) = {e \in tableEntries(h.primary) : e.key = k}
           /\ findInTable(h.rehash, k) = {e \in tableEntries(h.rehash) : e.key = k}
  <1>a. Shape(h) /\ Unique(h) /\ GoodTable(h.primary) /\ GoodTable(h.rehash) /\ Progress(h)
    BY DEF Sound
  <1>1. /\ findInTable(h.primary, k) = {e \in tableEntries(h.primary) : e.key = k}
        /\ findInTable(h.rehash, k) = {e \in tableEntries(h.rehash) : e.key = k}
    BY <1>a, FindInTable DEF GoodTable
  <1>2. \A e \in tableEntries(h.primary), f \in tableEntries(h.rehash) : e.key # f.key
    BY <1>a, UniqueParts
  <1>3. CASE findInTable(h.primary, k) # {}
    <2>1. find(h, k) = findInTable(h.primary, k)
      BY <1>3 DEF find
    <2> QED
      BY <1>1, <1>2, <1>3, <2>1 DEF entries
  <1>4. CASE findInTable(h.primary, k) = {} /\ h.isRehashing
    <2>1. find(h, k) = findInTable(h.rehash, k)
      BY <1>4 DEF find
    <2> QED
      BY <1>1, <1>4, <2>1 DEF entries
  <1>5. CASE findInTable(h.primary, k) = {} /\ ~h.isRehashing
    <2>1. find(h, k) = {}
      BY <1>5 DEF find
    <2>2. tableEntries(h.rehash) = {}
      BY <1>5, <1>a, NullTableGood DEF Progress
    <2> QED
      BY <1>1, <1>5, <2>1, <2>2 DEF entries
  <1> QED
    BY <1>1, <1>3, <1>4, <1>5

EntriesOf(h, k) == {e \in entries(h) : e.key = k}

\* set writes one entry, with the old deadline or none, and touches no other.
LEMMA SetSound ==
    ASSUME NEW h, Sound(h), Load(h), NEW k \in Key, NEW v \in Value
    PROVE  /\ Sound(set(h, k, v))
           /\ Load(set(h, k, v))
           /\ \E d \in {NoExpiry} \cup {e.expireAt : e \in EntriesOf(h, k)} :
                 entries(set(h, k, v)) =
                   (entries(h) \ EntriesOf(h, k))
                      \cup {[key |-> k, value |-> v, expireAt |-> d]}
  <1> DEFINE s == rehashStep(h)
             g == beforeInsert(s, k)
  <1>1. Sound(s) /\ entries(s) = entries(h)
    BY RehashStepSound
  <1>2. Room(s)
    BY RehashStepMakesRoom
  <1> HIDE DEF s
  <1>3. /\ Sound(g) /\ Room(g) /\ g.primary.capacity # 0
        /\ tableEntries(g.primary) = tableEntries(s.primary)
        /\ tableEntries(g.rehash) =
              tableEntries(s.rehash) \ {e \in tableEntries(s.rehash) : e.key = k}
    BY <1>1, <1>2, BeforeInsertSound
  <1>4. set(h, k, v) = IF findInTable(g.primary, k) # {}
                       THEN withTables(g, overwrite(g.primary, k, v), g.rehash)
                       ELSE insertNew(g, k, v)
    BY DEF set, s
  <1> HIDE DEF g
  <1>5. findInTable(g.primary, k) = {e \in tableEntries(g.primary) : e.key = k}
    BY <1>3, FindIsAt
  <1>6. CASE findInTable(g.primary, k) # {}
    <2> DEFINE old == CHOOSE e \in findInTable(g.primary, k) : TRUE
               new == [old EXCEPT !.value = v]
    <2>1. old \in tableEntries(g.primary) /\ old.key = k
      BY <1>5, <1>6
    <2>2. old \in Entry
      BY <1>3, <2>1, TableEntriesType DEF Sound, GoodTable
    <2>3. withTables(g, overwrite(g.primary, k, v), g.rehash) =
          withTables(g, replaceEntry(g.primary, k, new), g.rehash)
      BY DEF overwrite
    <2> HIDE DEF old
    <2>4. /\ new = [key |-> k, value |-> v, expireAt |-> old.expireAt]
          /\ new \in Entry /\ new.key = old.key
      BY <2>1, <2>2 DEF Entry
    <2> HIDE DEF new
    <2>5. /\ Sound(set(h, k, v))
          /\ entries(set(h, k, v)) = (entries(g) \ {old}) \cup {new}
          /\ Load(set(h, k, v))
      <3>1. Load(g)
        BY <1>3, RoomImpliesLoad
      <3>2. set(h, k, v) = withTables(g, replaceEntry(g.primary, old.key, new), g.rehash)
        BY <1>4, <1>6, <2>1, <2>3
      <3> QED
        BY <1>3, <2>1, <2>4, <3>1, <3>2, ReplaceInPrimarySound
    <2>6. entries(g) = entries(h) /\ EntriesOf(h, k) = {old}
      <3>1. Unique(s)
        BY <1>1 DEF Sound
      <3>2. old \in entries(s)
        BY <1>3, <2>1 DEF entries
      <3>3. EntriesOf(h, k) = {old}
        BY <1>1, <2>1, <3>1, <3>2 DEF EntriesOf, Unique
      <3>4. {e \in tableEntries(s.rehash) : e.key = k} = {}
        BY <1>3, <2>1, <3>1, UniqueParts
      <3> QED
        BY <1>1, <1>3, <3>3, <3>4 DEF entries
    <2> QED
      BY <2>4, <2>5, <2>6
  <1>7. CASE findInTable(g.primary, k) = {}
    <2>1. entries(g) = entries(h) \ EntriesOf(h, k)
      BY <1>1, <1>3, <1>5, <1>7 DEF entries, EntriesOf
    <2>2. \A e \in entries(g) : e.key # k
      BY <2>1 DEF EntriesOf
    <2>3. /\ Sound(insertNew(g, k, v))
          /\ Load(insertNew(g, k, v))
          /\ entries(insertNew(g, k, v)) = entries(g) \cup {Fresh(k, v)}
      BY <1>3, <2>2, InsertNewSound
    <2> QED
      BY <1>4, <1>7, <2>1, <2>3 DEF Fresh
  <1> QED
    BY <1>6, <1>7

\* del removes the key's entry, whichever table holds it, and no other.
LEMMA DelSound ==
    ASSUME NEW h, Sound(h), Load(h), NEW k \in Key
    PROVE  /\ Sound(del(h, k))
           /\ Load(del(h, k))
           /\ entries(del(h, k)) = entries(h) \ EntriesOf(h, k)
  <1> DEFINE g == rehashStep(h)
  <1>1. Sound(g) /\ entries(g) = entries(h)
    BY RehashStepSound
  <1>2. Load(g)
    BY <1>1, RehashStepMakesRoom, RoomImpliesLoad
  <1>3. del(h, k) = IF findInTable(g.primary, k) # {} \/ ~g.isRehashing
                    THEN withTables(g, delFromTable(g.primary, k), g.rehash)
                    ELSE withTables(g, g.primary, delFromTable(g.rehash, k))
    BY DEF del
  <1> HIDE DEF g
  <1>a. Shape(g) /\ Unique(g) /\ GoodTable(g.primary) /\ GoodTable(g.rehash) /\ Progress(g)
    BY <1>1 DEF Sound
  <1>b. /\ \A e, f \in tableEntries(g.primary) : e.key = f.key => e = f
        /\ \A e \in tableEntries(g.primary), f \in tableEntries(g.rehash) : e.key # f.key
    BY <1>a, UniqueParts
  <1>c. findInTable(g.primary, k) = {e \in tableEntries(g.primary) : e.key = k}
    BY <1>1, FindIsAt
  <1>n. /\ size(g) \in Nat /\ g.rehashIdx \in Nat
        /\ kMaxLoadFactor * g.rehash.capacity \in Nat
        /\ kMaxLoadFactor * g.primary.capacity \in Nat
    BY <1>1, SoundNumbers
  <1>4. CASE findInTable(g.primary, k) # {} \/ ~g.isRehashing
    <2> DEFINE p == delFromTable(g.primary, k)
               d == withTables(g, p, g.rehash)
    <2>1. /\ GoodTable(p)
          /\ tableEntries(p) =
                tableEntries(g.primary) \ {e \in tableEntries(g.primary) : e.key = k}
          /\ p.capacity = g.primary.capacity
          /\ p.size <= g.primary.size
      BY <1>a, <1>b, DelFromTableGood
    <2> HIDE DEF p
    <2>2. Shape(d) /\ d.primary = p /\ d.rehash = g.rehash /\ d.rehashIdx = g.rehashIdx
      BY <1>a, WithTables
    <2>3. d.isRehashing <=> g.isRehashing
      BY DEF withTables
    <2>4. del(h, k) = d
      BY <1>3, <1>4 DEF p
    <2> HIDE DEF d
    <2>5. {e \in tableEntries(g.rehash) : e.key = k} = {}
      <3>1. CASE findInTable(g.primary, k) # {}
        BY <1>b, <1>c, <3>1
      <3>2. CASE ~g.isRehashing
        BY <1>a, <3>2, NullTableGood DEF Progress
      <3> QED
        BY <1>4, <3>1, <3>2
    <2>6. entries(d) = entries(h) \ EntriesOf(h, k)
      BY <1>1, <2>1, <2>2, <2>5 DEF entries, EntriesOf
    <2>7. Unique(d)
      BY <1>a, <1>1, <2>1, <2>2, <2>6 DEF Unique
    <2>8. Progress(d)
      BY <1>a, <2>1, <2>2, <2>3 DEF Progress
    <2>9. Sound(d)
      BY <1>a, <2>1, <2>2, <2>7, <2>8 DEF Sound
    <2>10. size(d) <= size(g) /\ size(d) \in Nat
      BY <1>a, <2>1, <2>2 DEF size, GoodTable, Table
    <2>11. Load(d)
      <3>1. CASE g.isRehashing
        BY <1>2, <1>n, <2>2, <2>3, <2>10, <3>1 DEF Load
      <3>2. CASE ~g.isRehashing
        BY <1>2, <1>n, <2>1, <2>2, <2>3, <2>10, <3>2 DEF Load
      <3> QED
        BY <3>1, <3>2
    <2> QED
      BY <2>4, <2>6, <2>9, <2>11
  <1>5. CASE findInTable(g.primary, k) = {} /\ g.isRehashing
    <2> DEFINE d == withTables(g, g.primary, delFromTable(g.rehash, k))
    <2>1. /\ Sound(d)
          /\ entries(d) = entries(g) \ {e \in tableEntries(g.rehash) : e.key = k}
          /\ size(d) <= size(g)
          /\ d.rehash.capacity = g.rehash.capacity
      BY <1>1, <1>5, ShrinkRehashSound
    <2>2. d.rehashIdx = g.rehashIdx
      BY DEF withTables
    <2>3. d.isRehashing
      BY <1>5 DEF withTables
    <2>4. del(h, k) = d
      BY <1>3, <1>5
    <2> HIDE DEF d
    <2>5. entries(d) = entries(h) \ EntriesOf(h, k)
      BY <1>1, <1>5, <1>c, <2>1 DEF entries, EntriesOf
    <2>6. size(d) \in Nat
      BY <2>1, SoundNumbers
    <2>7. Load(d)
      BY <1>2, <1>5, <1>n, <2>1, <2>2, <2>3, <2>6 DEF Load
    <2> QED
      BY <2>1, <2>4, <2>5, <2>7
  <1> QED
    BY <1>4, <1>5

\* A write through an entry pointer changes that entry and no other.
LEMMA AssignSound ==
    ASSUME NEW h, Sound(h), Load(h), NEW k \in Key, NEW v \in Value,
           NEW d \in Deadline \cup {NoExpiry}, find(h, k) # {}
    PROVE  /\ Sound(assign(h, k, v, d))
           /\ Load(assign(h, k, v, d))
           /\ entries(assign(h, k, v, d)) =
                 (entries(h) \ EntriesOf(h, k))
                    \cup {[key |-> k, value |-> v, expireAt |-> d]}
  <1> DEFINE new == [key |-> k, value |-> v, expireAt |-> d]
  <1>1. new \in Entry /\ new.key = k
    BY DEF Entry
  <1> HIDE DEF new
  <1>a. Unique(h) /\ Progress(h)
    BY DEF Sound
  <1>2. /\ find(h, k) = {e \in entries(h) : e.key = k}
        /\ findInTable(h.primary, k) = {e \in tableEntries(h.primary) : e.key = k}
    BY FindIsAt
  <1>3. CASE findInTable(h.primary, k) # {}
    <2>1. PICK old \in tableEntries(h.primary) : old.key = k
      BY <1>2, <1>3
    <2>2. EntriesOf(h, k) = {old}
      BY <1>a, <2>1 DEF EntriesOf, Unique, entries
    <2>3. assign(h, k, v, d) = withTables(h, replaceEntry(h.primary, old.key, new), h.rehash)
      BY <1>3, <2>1 DEF assign, new
    <2> QED
      BY <1>1, <2>1, <2>2, <2>3, ReplaceInPrimarySound DEF new
  <1>4. CASE findInTable(h.primary, k) = {}
    <2>1. PICK old \in tableEntries(h.rehash) : old.key = k
      BY <1>2, <1>4 DEF entries
    <2>2. h.isRehashing
      BY <1>a, <2>1, NullTableGood DEF Progress
    <2>3. EntriesOf(h, k) = {old}
      BY <1>a, <2>1 DEF EntriesOf, Unique, entries
    <2>4. assign(h, k, v, d) = withTables(h, h.primary, replaceEntry(h.rehash, old.key, new))
      BY <1>4, <2>1 DEF assign, new
    <2> QED
      BY <1>1, <2>1, <2>2, <2>3, <2>4, ReplaceInRehashSound DEF new
  <1> QED
    BY <1>3, <1>4

\* The empty table.
LEMMA EmptySound ==
    /\ Sound(EmptyHT) /\ Load(EmptyHT) /\ entries(EmptyHT) = {}
  <1>1. /\ EmptyHT.primary = NullTable /\ EmptyHT.rehash = NullTable
        /\ EmptyHT.rehashIdx = 0
    BY DEF EmptyHT
  <1>2. ~EmptyHT.isRehashing
    BY DEF EmptyHT
  <1>3. Shape(EmptyHT)
    BY DEF EmptyHT, Shape
  <1>4. entries(EmptyHT) = {}
    BY <1>1, NullTableGood DEF entries
  <1>5. Unique(EmptyHT)
    BY <1>1, <1>4, NullTableGood DEF Unique
  <1>6. Load(EmptyHT)
    BY <1>1, <1>2, LoadFactorAssumption DEF Load, size, NullTable
  <1> QED
    BY <1>1, <1>2, <1>3, <1>4, <1>5, <1>6, NullTableGood DEF Sound, Progress

LEMMA FlushAllIsEmpty ==
    ASSUME NEW h
    PROVE  flushAll(h) = EmptyHT
  BY DEF flushAll, EmptyHT, freeTable

-----------------------------------------------------------------------------
(* The specification. *)

\* Every call keeps the inductive invariant and does what the abstract map's
\* operation does.
LEMMA CallSteps ==
    ASSUME IInv
    PROVE  /\ \A k \in Key, v \in Value : Set(k, v) => IInv' /\ Map!Put(k, v)
           /\ \A k \in Key : Del(k) => IInv' /\ Map!Remove(k)
           /\ \A k \in Key, v \in Value, d \in Deadline \cup {NoExpiry} :
                 Assign(k, v, d) => IInv' /\ Map!Assign(k, v, d)
           /\ Tick => IInv' /\ entries(ht') = entries(ht)
           /\ FlushAll => IInv' /\ Map!Clear
  <1> USE DEF IInv
  <1>1. ASSUME NEW k \in Key, NEW v \in Value, Set(k, v)
        PROVE  IInv' /\ Map!Put(k, v)
    <2>1. ht' = set(ht, k, v)
      BY <1>1 DEF Set
    <2>2. /\ Sound(ht') /\ Load(ht')
          /\ \E d \in {NoExpiry} \cup {e.expireAt : e \in EntriesOf(ht, k)} :
                entries(ht') = (entries(ht) \ EntriesOf(ht, k))
                                 \cup {[key |-> k, value |-> v, expireAt |-> d]}
      BY <2>1, SetSound
    <2>3. Map!Put(k, v)
      BY <2>2 DEF Map!Put, Map!At, Map!NoExpiry, NoExpiry, EntriesOf
    <2> QED
      BY <2>2, <2>3
  <1>2. ASSUME NEW k \in Key, Del(k)
        PROVE  IInv' /\ Map!Remove(k)
    <2>1. /\ Sound(ht') /\ Load(ht')
          /\ entries(ht') = entries(ht) \ EntriesOf(ht, k)
      BY <1>2, DelSound DEF Del
    <2>2. Map!Remove(k)
      BY <2>1 DEF Map!Remove, Map!At, EntriesOf
    <2> QED
      BY <2>1, <2>2
  <1>3. ASSUME NEW k \in Key, NEW v \in Value, NEW d \in Deadline \cup {NoExpiry},
               Assign(k, v, d)
        PROVE  IInv' /\ Map!Assign(k, v, d)
    <2>1. /\ Sound(ht') /\ Load(ht')
          /\ entries(ht') = (entries(ht) \ EntriesOf(ht, k))
                              \cup {[key |-> k, value |-> v, expireAt |-> d]}
      BY <1>3, AssignSound DEF Assign
    <2>2. EntriesOf(ht, k) # {}
      BY <1>3, FindIsAt DEF Assign, EntriesOf
    <2>3. Map!Assign(k, v, d)
      BY <2>1, <2>2 DEF Map!Assign, Map!At, EntriesOf
    <2> QED
      BY <2>1, <2>3
  <1>4. ASSUME Tick PROVE IInv' /\ entries(ht') = entries(ht)
    <2>1. Sound(ht') /\ entries(ht') = entries(ht)
      BY <1>4, RehashStepSound DEF Tick
    <2>2. Load(ht')
      BY <1>4, <2>1, RehashStepMakesRoom, RoomImpliesLoad DEF Tick
    <2> QED
      BY <2>1, <2>2
  <1>5. ASSUME FlushAll PROVE IInv' /\ Map!Clear
    <2>1. ht' = EmptyHT
      BY <1>5, FlushAllIsEmpty DEF FlushAll
    <2>2. Sound(ht') /\ Load(ht') /\ entries(ht') = {}
      BY <2>1, EmptySound
    <2>3. Map!Clear
      BY <2>2 DEF Map!Clear
    <2> QED
      BY <2>2, <2>3
  <1> QED
    BY <1>1, <1>2, <1>3, <1>4, <1>5

\* Every step keeps the invariant and is a step of the map, or none.
LEMMA NextStep ==
    ASSUME IInv, Next
    PROVE  IInv' /\ [Map!Next]_(entries(ht))
  BY CallSteps DEF Next, Map!Next, Map!NoExpiry, NoExpiry

\* HashTable keeps its inductive invariant: exact counters, every entry in its
\* slot, one entry per key, no entry behind the migration, a bounded load.
THEOREM Invariance == Spec => []IInv
  <1>1. Init => IInv
    BY EmptySound DEF Init, IInv
  <1>2. IInv /\ [Next]_ht => IInv'
    <2>1. CASE Next
      BY <2>1, NextStep
    <2>2. CASE UNCHANGED ht
      BY <2>2 DEF IInv
    <2> QED
      BY <2>1, <2>2
  <1> QED
    BY <1>1, <1>2, PTL DEF Spec

\* HashTable is type correct; no table counter wraps below zero.
THEOREM TypeCorrect == Spec => []TypeOK
  <1>1. IInv => TypeOK
    BY DEF IInv, TypeOK, Sound, GoodTable
  <1> QED
    BY <1>1, Invariance, PTL

\* At every point of a rehash find returns the stored entry of every key, and
\* size() is the number of stored keys.
THEOREM ReadsCorrect == Spec => []ReadsAgree
  <1>1. IInv => ReadsAgree
    <2> SUFFICES ASSUME IInv PROVE ReadsAgree
      OBVIOUS
    <2>a. Sound(ht) /\ Unique(ht) /\ GoodTable(ht.primary) /\ GoodTable(ht.rehash)
      BY DEF IInv, Sound
    <2>1. \A k \in Key : find(ht, k) = {e \in entries(ht) : e.key = k}
      BY <2>a, FindIsAt
    <2> DEFINE P == tableEntries(ht.primary)
               R == tableEntries(ht.rehash)
    <2>2. /\ IsFiniteSet(P) /\ IsFiniteSet(R)
          /\ ht.primary.size = Cardinality(P) /\ ht.rehash.size = Cardinality(R)
      BY <2>a DEF GoodTable, SizeExact
    <2>3. Cardinality(P \cap R) = 0
      BY <2>a, FS_EmptySet DEF Unique
    <2>4. Cardinality(P) \in Nat /\ Cardinality(R) \in Nat
      BY <2>2, FS_CardinalityType
    <2> HIDE DEF P, R
    <2>5. Cardinality(P \cup R) = Cardinality(P) + Cardinality(R)
      BY <2>2, <2>3, <2>4, FS_Union
    <2>6. size(ht) = Cardinality(entries(ht))
      BY <2>2, <2>5 DEF size, entries, P, R
    <2> QED
      BY <2>1, <2>6 DEF ReadsAgree
  <1> QED
    BY <1>1, Invariance, PTL

\* No schedule of operations overloads the table, although only one rehash can
\* run at a time.
THEOREM LoadCorrect == Spec => []LoadBounded
  <1>1. IInv => LoadBounded
    <2> SUFFICES ASSUME IInv PROVE LoadBounded
      OBVIOUS
    <2> DEFINE c == ht.rehash.capacity
               M == kMaxLoadFactor
    <2>a. Sound(ht) /\ Load(ht)
      BY DEF IInv
    <2>1. size(ht) \in Nat /\ ht.rehashIdx \in Nat /\ c \in Nat /\ M \in Nat /\ M >= 1
      BY <2>a, SoundNumbers, LoadFactorAssumption
    <2>2. M * c \in Nat /\ M * c >= c /\ M * (2 * c) = 2 * (M * c)
      BY <2>1
    <2>3. CASE ht.isRehashing
      <3>1. size(ht) <= M * c + 1 + ht.rehashIdx
        BY <2>a, <2>3 DEF Load
      <3>2. ht.rehashIdx < c /\ ht.primary.capacity = 2 * c
        BY <2>a, <2>3 DEF Sound, Progress
      <3> HIDE DEF c, M
      <3>3. size(ht) <= 2 * (M * c)
        BY <2>1, <2>2, <3>1, <3>2
      <3> QED
        BY <2>2, <3>2, <3>3 DEF LoadBounded, M
    <2>4. CASE ~ht.isRehashing
      BY <2>a, <2>4 DEF Load, LoadBounded
    <2> QED
      BY <2>3, <2>4
  <1> QED
    BY <1>1, Invariance, PTL

\* HashTable implements the abstract map: rehashing is invisible, and no
\* operation changes an entry it was not asked to change.
THEOREM Refinement == Spec => MapSpec
  <1>1. Init => Map!Init
    BY EmptySound DEF Init, Map!Init
  <1>2. IInv /\ [Next]_ht => [Map!Next]_(entries(ht))
    <2>1. CASE Next
      BY <2>1, NextStep
    <2>2. CASE UNCHANGED ht
      BY <2>2 DEF entries, tableEntries
    <2> QED
      BY <2>1, <2>2
  <1> QED
    BY <1>1, <1>2, Invariance, PTL DEF Spec, MapSpec, Map!Spec

\* Each call has exactly the effect the map's operation of that name has, at every
\* point of a rehash.
THEOREM CallsCorrect == Spec => CallsAgree
  <1>1. IInv /\ [Next]_ht =>
          [/\ \A k \in Key, v \in Value : Set(k, v) => Map!Put(k, v)
           /\ \A k \in Key : Del(k) => Map!Remove(k)
           /\ \A k \in Key, v \in Value, d \in Deadline \cup {NoExpiry} :
                 Assign(k, v, d) => Map!Assign(k, v, d)
           /\ Tick => entries(ht') = entries(ht)
           /\ FlushAll => Map!Clear]_ht
    BY CallSteps
  <1> QED
    BY <1>1, Invariance, PTL DEF Spec, CallsAgree

-----------------------------------------------------------------------------
(* Slots in a table of twice the size. *)

\* Quotient and remainder are unique.
LEMMA DivisionUnique ==
    ASSUME NEW c \in Nat \ {0}, NEW a \in Int, NEW b \in Int, NEW r \in 0..(c - 1),
           NEW s \in 0..(c - 1), c * a + r = c * b + s
    PROVE  r = s
  <1>1. ASSUME NEW x \in Int, NEW y \in Int, x > y PROVE c * x >= c * y + c
    <2>1. x - y - 1 \in Nat
      BY <1>1
    <2>2. c * (x - y - 1) >= 0
      BY <2>1
    <2>3. c * (x - y - 1) = c * x - c * y - c
      OBVIOUS
    <2> QED
      BY <2>2, <2>3
  <1>2. ~ (a > b)
    BY <1>1
  <1>3. ~ (b > a)
    BY <1>1
  <1> QED
    BY <1>2, <1>3

LEMMA Division ==
    ASSUME NEW x \in Nat, NEW c \in Nat \ {0}
    PROVE  \E q \in Int : \E r \in 0..(c - 1) : x = c * q + r /\ r = x % c
  <1> c \in Nat /\ c > 0
    OBVIOUS
  <1>1. x % c \in 0..(c - 1)
    OBVIOUS
  <1>2. x \div c \in Int
    OBVIOUS
  <1>3. x = (x \div c) * c + (x % c)
    OBVIOUS
  <1> DEFINE q == x \div c
             r == x % c
  <1>4. q \in Int /\ r \in 0..(c - 1) /\ x = q * c + r
    BY <1>1, <1>2, <1>3
  <1>5. r = x % c
    OBVIOUS
  <1> HIDE DEF q, r
  <1>6. x = c * q + r
    BY <1>4
  <1> QED
    BY <1>4, <1>5, <1>6

\* Doubling the table moves no key to an earlier slot.
LEMMA SlotDoubles ==
    ASSUME NEW k \in Key, NEW cap \in Nat \ {0}
    PROVE  slotOf(k, 2 * cap) >= slotOf(k, cap)
  <1> DEFINE x == Hash[k]
  <1>1. x \in Nat /\ 2 * cap \in Nat \ {0}
    BY HashAssumption
  <1> HIDE DEF x
  <1>2. PICK q \in Int, r \in 0..(2 * cap - 1) : x = (2 * cap) * q + r /\ r = x % (2 * cap)
    BY <1>1, Division
  <1>3. PICK a \in Int, s \in 0..(cap - 1) : x = cap * a + s /\ s = x % cap
    BY <1>1, Division
  <1>4. CASE r < cap
    <2>1. r \in 0..(cap - 1) /\ 2 * q \in Int /\ x = cap * (2 * q) + r
      BY <1>2, <1>4
    <2>2. s = r
      BY <1>3, <2>1, DivisionUnique
    <2> QED
      BY <1>2, <1>3, <2>2 DEF slotOf, x
  <1>5. CASE r >= cap
    <2>1. s <= r
      BY <1>2, <1>3, <1>5
    <2> QED
      BY <1>2, <1>3, <2>1 DEF slotOf, x
  <1> QED
    BY <1>2, <1>4, <1>5

-----------------------------------------------------------------------------
(* The walk. *)

\* The walk over primary stops behind where it began, and not before the end unless
\* it has met an entry.
LEMMA ScanEndFacts ==
    ASSUME NEW t, t.capacity \in Nat, NEW cursor \in Nat, cursor < t.capacity,
           NEW count \in Count
    PROVE  scanEnd(t, cursor, count) \in (cursor + 1)..t.capacity
  <1> DEFINE enough(j) == j = t.capacity \/ Cardinality(slotRange(t, cursor, j)) >= count
             S == {j \in cursor..t.capacity : enough(j)}
             P(to) == enough(to) /\ \A j \in cursor..(to - 1) : ~enough(j)
             end == CHOOSE to \in cursor..t.capacity : P(to)
  <1>1. slotRange(t, cursor, cursor) = {}
    BY DEF slotRange
  <1>2. ~ enough(cursor)
    <2>1. count > 0 /\ count \in Nat
      BY CountAssumption
    <2>2. Cardinality(slotRange(t, cursor, cursor)) = 0
      BY <1>1, FS_EmptySet
    <2> QED
      BY <2>1, <2>2
  <1>3. t.capacity \in S /\ S \in SUBSET Nat
    OBVIOUS
  <1>4. PICK x \in S : \A y \in S : x <= y
    <2> HIDE DEF S
    <2> QED
      BY <1>3, LeastNat
  <1> HIDE DEF enough
  <1>5. x \in cursor..t.capacity /\ P(x)
    BY <1>4
  <1>6. end \in cursor..t.capacity /\ P(end)
    <2> HIDE DEF P
    <2> QED
      BY <1>5
  <1>7. end # cursor
    BY <1>2, <1>6
  <1>8. scanEnd(t, cursor, count) = end
    BY DEF scanEnd, enough
  <1> HIDE DEF end
  <1> QED
    BY <1>6, <1>7, <1>8

\* Before the end of the walk no slot is left out.
LEMMA WalkedSlots ==
    ASSUME NEW t, Table(t), InSlot(t), NEW e \in tableEntries(t),
           NEW from \in Nat, NEW to \in Nat,
           slotOf(e.key, t.capacity) >= from, slotOf(e.key, t.capacity) < to
    PROVE  e \in slotRange(t, from, to)
  <1>1. PICK i \in DOMAIN t.slots : e \in t.slots[i]
    BY DEF tableEntries
  <1>2. slotOf(e.key, t.capacity) = i /\ i \in Nat
    BY <1>1 DEF InSlot, Table
  <1>3. i \in from..(to - 1)
    BY <1>2
  <1> QED
    BY <1>1, <1>3 DEF slotRange

\* A key of the table has a slot in it, of primary when no rehash is under way.
LEMMA KeySlot ==
    ASSUME NEW h, Sound(h), NEW k \in keysOf(h)
    PROVE  /\ k \in Key
           /\ h.primary.capacity \in Nat \ {0}
           /\ slotOf(k, h.primary.capacity) \in 0..(h.primary.capacity - 1)
           /\ ~h.isRehashing => k \in {e.key : e \in tableEntries(h.primary)}
  <1>1. PICK e \in entries(h) : e.key = k
    BY DEF keysOf
  <1>2. GoodTable(h.primary) /\ GoodTable(h.rehash) /\ Table(h.primary) /\ Table(h.rehash)
        /\ h.primary.capacity \in Nat
    BY DEF Sound, GoodTable, Table
  <1>3. k \in Key
    <2>1. e \in Entry
      BY <1>1, <1>2, TableEntriesType DEF entries
    <2> QED
      BY <1>1, <2>1 DEF Entry
  <1>4. ~h.isRehashing => e \in tableEntries(h.primary)
    <2>1. ~h.isRehashing => h.rehash = NullTable
      BY DEF Sound, Progress
    <2> QED
      BY <1>1, <2>1, NullTableGood DEF entries
  <1>5. h.primary.capacity # 0
    <2>1. CASE h.isRehashing
      BY <1>2, <2>1 DEF Sound, Progress, Table
    <2>2. CASE ~h.isRehashing
      BY <1>2, <1>4, <2>2, NoSlotsNoEntries
    <2> QED
      BY <2>1, <2>2
  <1> QED
    BY <1>1, <1>2, <1>3, <1>4, <1>5, SlotInRange

\* What a call returns of a table without holes: everything before its end.
LEMMA ScanReturns ==
    ASSUME NEW h, Sound(h), NEW cursor \in Nat, NEW count \in Count, NEW k \in keysOf(h),
           h.isRehashing => cursor = 0,
           slotOf(k, h.primary.capacity) >= cursor,
           k \notin scan(h, cursor, count).keys
    PROVE  /\ scan(h, cursor, count).next # 0
           /\ slotOf(k, h.primary.capacity) >= scan(h, cursor, count).next
  <1> DEFINE p == h.primary
             s == slotOf(k, p.capacity)
             end == scanEnd(p, cursor, count)
             old == IF h.isRehashing /\ cursor = 0 THEN tableEntries(h.rehash) ELSE {}
  <1>1. k \in Key /\ p.capacity \in Nat \ {0} /\ s \in 0..(p.capacity - 1)
    BY KeySlot
  <1>2. cursor < p.capacity
    BY <1>1
  <1>3. end \in (cursor + 1)..p.capacity
    BY <1>1, <1>2, ScanEndFacts
  <1>4. scan(h, cursor, count)
          = [next |-> IF end >= p.capacity THEN 0 ELSE end,
             keys |-> {e.key : e \in slotRange(p, cursor, end) \cup old}]
    BY <1>1 DEF scan
  <1> HIDE DEF end, old
  <1>5. PICK e \in entries(h) : e.key = k
    BY DEF keysOf
  <1>6. e \notin slotRange(p, cursor, end) /\ e \notin old
    BY <1>4, <1>5
  <1>7. e \in tableEntries(p)
    <2>1. CASE h.isRehashing
      BY <1>5, <1>6, <2>1 DEF old, entries
    <2>2. CASE ~h.isRehashing
      <3>1. h.rehash = NullTable
        BY <2>2 DEF Sound, Progress
      <3> QED
        BY <1>5, <3>1, NullTableGood DEF entries
    <2> QED
      BY <2>1, <2>2
  <1>8. ~ (s < end)
    <2>1. Table(p) /\ InSlot(p)
      BY DEF Sound, GoodTable
    <2>2. end \in Nat
      BY <1>3
    <2>3. slotOf(e.key, p.capacity) = s /\ s >= cursor
      BY <1>5
    <2> HIDE DEF p, s
    <2> QED
      BY <1>6, <1>7, <2>1, <2>2, <2>3, WalkedSlots
  <1>9. s >= end /\ end < p.capacity /\ end # 0
    BY <1>1, <1>3, <1>8
  <1>10. scan(h, cursor, count).next = end
    <2>1. ~ (end >= p.capacity)
      BY <1>1, <1>3, <1>9
    <2> QED
      BY <1>4, <2>1
  <1> QED
    BY <1>9, <1>10

-----------------------------------------------------------------------------
(* The capacity as other commands run. *)

\* It stays or doubles, unless the table is emptied.
LEMMA CapacityStep ==
    ASSUME IInv, Next, ht.primary.capacity # 0, keysOf(ht') # {}
    PROVE  ht'.primary.capacity \in {ht.primary.capacity, 2 * ht.primary.capacity}
  <1> DEFINE cap == ht.primary.capacity
             g == rehashStep(ht)
  <1>0. Sound(ht) /\ Sound(g) /\ g.primary.capacity = cap
    BY RehashStepSound DEF IInv
  <1>1. ASSUME NEW k \in Key, NEW v \in Value, Set(k, v)
        PROVE  ht'.primary.capacity \in {cap, 2 * cap}
    <2> DEFINE b == beforeInsert(g, k)
    <2>1. b.primary.capacity = cap
      BY <1>0 DEF beforeInsert, withTables
    <2>2. ht' = IF findInTable(b.primary, k) # {}
                THEN withTables(b, overwrite(b.primary, k, v), b.rehash)
                ELSE insertNew(b, k, v)
      BY <1>1 DEF Set, set
    <2> HIDE DEF b, g
    <2>3. CASE findInTable(b.primary, k) # {}
      BY <2>1, <2>2, <2>3 DEF withTables, overwrite, replaceEntry
    <2>4. CASE findInTable(b.primary, k) = {}
      <3>1. ht' = insertNew(b, k, v)
        BY <2>2, <2>4
      <3> DEFINE c == withTables(b, insertAll(b.primary, {[key |-> k, value |-> v, expireAt |-> NoExpiry]}),
                                 b.rehash)
      <3>2. c.primary.capacity = cap
        BY <2>1 DEF withTables, insertAll
      <3>3. ht' = c \/ ht' = triggerRehash(c)
        BY <3>1 DEF insertNew
      <3> HIDE DEF c
      <3> QED
        BY <3>2, <3>3 DEF triggerRehash, allocTable
    <2> QED
      BY <2>3, <2>4
  <1>2. ASSUME NEW k \in Key, Del(k)
        PROVE  ht'.primary.capacity = cap
    <2>1. delFromTable(g.primary, k).capacity = g.primary.capacity
      BY DEF delFromTable
    <2> HIDE DEF g
    <2>2. ht'.primary \in {g.primary, delFromTable(g.primary, k)}
      BY <1>2 DEF Del, del, withTables, g
    <2> QED
      BY <1>0, <2>1, <2>2
  <1>3. ASSUME NEW k \in Key, NEW v \in Value, NEW d \in Deadline \cup {NoExpiry}, Assign(k, v, d)
        PROVE  ht'.primary.capacity = cap
    BY <1>3 DEF Assign, assign, withTables, replaceEntry
  <1>4. CASE Tick
    BY <1>0, <1>4 DEF Tick
  <1>5. CASE FlushAll
    <2>1. entries(ht') = {}
      BY <1>5, FlushAllIsEmpty, EmptySound DEF FlushAll
    <2> QED
      BY <2>1 DEF keysOf
  <1> QED
    BY <1>1, <1>2, <1>3, <1>4, <1>5 DEF Next

-----------------------------------------------------------------------------
(* The iteration. *)

Iteration == [running : BOOLEAN, cursor : Nat, seen : SUBSET Key, kept : SUBSET Key,
              overlapped : BOOLEAN]

\* The keys that are still owed to the client lie at or behind its cursor.
Ahead ==
    it.running /\ ~it.overlapped =>
        \A k \in it.kept \ it.seen : slotOf(k, ht.primary.capacity) >= it.cursor

\* The inductive invariant of ScanCompleteQuiet.
ScanInv ==
    /\ IInv
    /\ it \in Iteration
    /\ ~it.running => it.cursor = 0
    /\ it.running => it.cursor > 0 /\ it.kept \subseteq keysOf(ht)
    /\ Ahead
    /\ ScanCompleteQuiet

LEMMA ScanInitially == ScanInit => ScanInv
  <1> SUFFICES ASSUME ScanInit PROVE ScanInv
    OBVIOUS
  <1>1. IInv
    BY EmptySound DEF ScanInit, Init, IInv
  <1>2. it \in Iteration /\ ~it.running /\ it.cursor = 0 /\ it.kept = {}
    BY DEF ScanInit, Idle, Iteration
  <1> QED
    BY <1>1, <1>2 DEF ScanInv, Ahead, ScanCompleteQuiet

LEMMA ScanKeys ==
    ASSUME NEW h, Sound(h), NEW cursor \in Nat, NEW count \in Count
    PROVE  /\ scan(h, cursor, count).keys \subseteq Key
           /\ scan(h, cursor, count).next \in Nat
           /\ keysOf(h) \subseteq Key
  <1> DEFINE p == h.primary
             end == scanEnd(p, cursor, count)
             old == IF h.isRehashing /\ cursor = 0 THEN tableEntries(h.rehash) ELSE {}
  <1>1. Table(p) /\ Table(h.rehash) /\ p.capacity \in Nat
    BY DEF Sound, GoodTable, Table
  <1>2. tableEntries(p) \subseteq Entry /\ tableEntries(h.rehash) \subseteq Entry
    BY <1>1, TableEntriesType
  <1>3. \A e \in Entry : e.key \in Key
    BY DEF Entry
  <1>4. end \in Nat /\ (cursor < p.capacity => end <= p.capacity) /\ (cursor >= p.capacity => end = cursor)
    <2>1. CASE cursor < p.capacity
      BY <1>1, <2>1, ScanEndFacts
    <2>2. CASE cursor >= p.capacity
      <3>1. end = cursor
        BY <2>2 DEF scanEnd
      <3> QED
        BY <1>1, <2>2, <3>1
    <2> QED
      BY <1>1, <2>1, <2>2
  <1> HIDE DEF end
  <1>5. slotRange(p, cursor, end) \subseteq tableEntries(p)
    <2> SUFFICES ASSUME NEW e \in slotRange(p, cursor, end) PROVE e \in tableEntries(p)
      OBVIOUS
    <2>1. PICK i \in cursor..(end - 1) : e \in p.slots[i]
      BY DEF slotRange
    <2>2. i \in 0..(p.capacity - 1)
      BY <1>1, <1>4, <2>1
    <2> QED
      BY <1>1, <2>1, <2>2 DEF Table, tableEntries
  <1>6. CASE p.capacity = 0
    <2>1. scan(h, cursor, count) = [next |-> 0, keys |-> {}]
      BY <1>6 DEF scan
    <2> QED
      BY <1>2, <1>3, <2>1 DEF keysOf, entries
  <1>7. CASE p.capacity # 0
    <2>1. scan(h, cursor, count)
            = [next |-> IF end >= p.capacity THEN 0 ELSE end,
               keys |-> {e.key : e \in slotRange(p, cursor, end) \cup old}]
      BY <1>7 DEF scan, end
    <2>2. slotRange(p, cursor, end) \cup old \subseteq Entry
      BY <1>2, <1>5
    <2> HIDE DEF old
    <2> QED
      BY <1>2, <1>3, <1>4, <2>1, <2>2 DEF keysOf, entries
  <1> QED
    BY <1>6, <1>7

LEMMA ScanCallStep ==
    ASSUME ScanInv, NEW count \in Count, ScanCall(count)
    PROVE  ScanInv'
  <1> DEFINE h == rehashStep(ht)
             r == scan(h, it.cursor, count)
  <1>1. Sound(ht) /\ Sound(h) /\ IInv'
        /\ h.primary.capacity = ht.primary.capacity /\ entries(h) = entries(ht)
    <2>1. Sound(ht) /\ Load(ht)
      BY DEF ScanInv, IInv
    <2>2. Sound(h) /\ h.primary.capacity = ht.primary.capacity /\ entries(h) = entries(ht)
      BY <2>1, RehashStepSound
    <2>3. Load(h)
      BY <2>1, <2>2, RehashStepMakesRoom, RoomImpliesLoad
    <2> QED
      BY <2>1, <2>2, <2>3 DEF ScanCall, IInv
  <1>2. it.running \in BOOLEAN /\ it.cursor \in Nat /\ it.seen \subseteq Key /\ it.kept \subseteq Key
        /\ it.overlapped \in BOOLEAN
    BY DEF ScanInv, Iteration
  <1>3. ht' = h
        /\ it' = [running    |-> r.next # 0,
                  cursor     |-> r.next,
                  seen       |-> r.keys \cup IF it.running THEN it.seen ELSE {},
                  kept       |-> IF it.running THEN it.kept ELSE keysOf(h),
                  overlapped |-> it.running /\ (it.overlapped \/ h.isRehashing)]
    BY DEF ScanCall
  <1>4. r.keys \subseteq Key /\ r.next \in Nat /\ keysOf(h) \subseteq Key /\ keysOf(h) = keysOf(ht)
    BY <1>1, <1>2, ScanKeys DEF keysOf
  <1>5. h.isRehashing \in BOOLEAN
    BY <1>1 DEF Sound, Shape
  <1> HIDE DEF h
  <1>6. ASSUME ~it'.overlapped, NEW k \in it'.kept \ it'.seen
        PROVE  /\ r.next # 0
               /\ slotOf(k, h.primary.capacity) >= r.next
    <2>1. k \in keysOf(h) /\ k \notin r.keys
      BY <1>3, <1>4, <1>6 DEF ScanInv
    <2>2. (h.isRehashing => it.cursor = 0) /\ slotOf(k, h.primary.capacity) >= it.cursor
      <3>1. CASE it.running
        <4>1. ~it.overlapped /\ ~h.isRehashing /\ k \in it.kept \ it.seen
          BY <1>3, <1>6, <3>1
        <4> QED
          BY <1>1, <3>1, <4>1 DEF ScanInv, Ahead
      <3>2. CASE ~it.running
        BY <1>1, <2>1, <3>2, KeySlot DEF ScanInv
      <3> QED
        BY <1>2, <3>1, <3>2
    <2> QED
      BY <1>1, <1>2, <2>1, <2>2, ScanReturns
  <1> HIDE DEF r
  <1>7. it' \in Iteration
    <2>1. (r.next # 0) \in BOOLEAN /\ (it.running /\ (it.overlapped \/ h.isRehashing)) \in BOOLEAN
      OBVIOUS
    <2>2. (r.keys \cup IF it.running THEN it.seen ELSE {}) \in SUBSET Key
          /\ (IF it.running THEN it.kept ELSE keysOf(h)) \in SUBSET Key
      BY <1>2, <1>4
    <2> QED
      BY <1>3, <1>4, <2>1, <2>2 DEF Iteration
  <1>8. it'.running <=> r.next # 0
    BY <1>3
  <1>9. it'.cursor = r.next /\ it'.kept \subseteq keysOf(h)
    BY <1>3, <1>4 DEF ScanInv
  <1>10. Ahead'
    BY <1>3, <1>6, <1>9 DEF Ahead
  <1>11. ScanCompleteQuiet'
    BY <1>6, <1>8 DEF ScanCompleteQuiet
  <1> QED
    BY <1>1, <1>3, <1>4, <1>7, <1>8, <1>9, <1>10, <1>11 DEF ScanInv

LEMMA OtherCallStep ==
    ASSUME ScanInv, OtherCall
    PROVE  ScanInv'
  <1>1. IInv /\ IInv' /\ Sound(ht)
    BY NextStep DEF ScanInv, OtherCall, IInv
  <1>2. CASE ~it.running
    <2>1. it' = Idle
      BY <1>2 DEF OtherCall
    <2>2. it' \in Iteration /\ ~it'.running /\ it'.cursor = 0 /\ it'.kept = {}
      BY <2>1 DEF Idle, Iteration
    <2> QED
      BY <1>1, <2>2 DEF ScanInv, Ahead, ScanCompleteQuiet
  <1>3. CASE it.running
    <2> DEFINE kept == it.kept \cap keysOf(ht')
    <2>1. it \in Iteration /\ it.cursor > 0 /\ it.cursor \in Nat /\ it.kept \subseteq keysOf(ht)
          /\ it.kept \subseteq Key
      BY <1>3 DEF ScanInv, Iteration
    <2>2. it' = [it EXCEPT !.kept = kept]
      BY <1>3 DEF OtherCall
    <2>3. it' \in Iteration /\ it'.running = it.running /\ it'.cursor = it.cursor /\ it'.seen = it.seen
          /\ it'.overlapped = it.overlapped /\ it'.kept = kept
      BY <2>1, <2>2 DEF Iteration
    <2>4. ASSUME ~it.overlapped, NEW k \in kept \ it.seen
          PROVE  slotOf(k, ht'.primary.capacity) >= it.cursor
      <3> DEFINE cap == ht.primary.capacity
      <3>1. cap \in Nat \ {0} /\ k \in Key /\ slotOf(k, cap) \in 0..(cap - 1)
        BY <1>1, <2>1, <2>4, KeySlot
      <3>2. ht'.primary.capacity \in {cap, 2 * cap}
        BY <1>1, <2>4, <3>1, CapacityStep DEF OtherCall
      <3>3. slotOf(k, cap) >= it.cursor
        BY <1>3, <2>4 DEF ScanInv, Ahead
      <3>4. slotOf(k, 2 * cap) >= slotOf(k, cap) /\ slotOf(k, 2 * cap) \in Int
        <4>1. 2 * cap \in Nat \ {0}
          BY <3>1
        <4> QED
          BY <3>1, <4>1, SlotDoubles, SlotInRange
      <3> HIDE DEF cap
      <3> QED
        BY <2>1, <3>1, <3>2, <3>3, <3>4
    <2>5. Ahead'
      BY <2>3, <2>4 DEF Ahead
    <2> QED
      BY <1>1, <1>3, <2>1, <2>3, <2>5 DEF ScanInv, ScanCompleteQuiet
  <1> QED
    BY <1>2, <1>3 DEF ScanInv, Iteration

LEMMA ScanInvariance == ScanSpec => []ScanInv
  <1>1. ScanInv /\ [ScanNext]_vars => ScanInv'
    <2> SUFFICES ASSUME ScanInv, [ScanNext]_vars PROVE ScanInv'
      OBVIOUS
    <2>1. CASE UNCHANGED vars
      BY <2>1 DEF vars, ScanInv, IInv, Ahead, ScanCompleteQuiet
    <2>2. CASE ScanNext
      BY <2>2, ScanCallStep, OtherCallStep DEF ScanNext
    <2> QED
      BY <2>1, <2>2
  <1> QED
    BY <1>1, ScanInitially, PTL DEF ScanSpec

\* A finished iteration that no rehash overlapped after its first call has returned
\* every key that was in the table all along: HashTable::scan with any COUNT, whatever
\* other clients do between its calls.
THEOREM ScanCorrect == ScanSpec => []ScanCompleteQuiet
  <1>1. ScanInv => ScanCompleteQuiet
    BY DEF ScanInv
  <1> QED
    BY <1>1, ScanInvariance, PTL

-----------------------------------------------------------------------------
(* The loop of rehashStep. *)

\* What the first n turns compute.
LEMMA TurnsDef ==
    ASSUME NEW h, NEW n \in Nat
    PROVE  /\ turns(h, n)[0] = h
           /\ \A i \in 1..n : turns(h, n)[i] = turn(turns(h, n)[i - 1])
  <1> DEFINE runs(m, f) == /\ f = [i \in 0..m |-> f[i]]
                           /\ f[0] = h /\ \A i \in 1..m : f[i] = turn(f[i - 1])
             T == {m \in 0..n : \E f : runs(m, f)}
             eq(s) == s = [i \in 0..n |-> IF i = 0 THEN h ELSE turn(s[i - 1])]
  <1>1. 0 \in T
    <2>1. PICK f : f = [i \in 0..0 |-> h]
      OBVIOUS
    <2>2. runs(0, f)
      BY <2>1
    <2> QED
      BY <2>2
  <1>2. ASSUME NEW m \in 1..n, m - 1 \in T PROVE m \in T
    <2>1. PICK f : runs(m - 1, f)
      BY <1>2
    <2>2. PICK w : w = turn(f[m - 1])
      OBVIOUS
    <2>3. PICK g : g = [i \in 0..m |-> IF i = m THEN w ELSE f[i]]
      OBVIOUS
    <2>4. \A i \in 0..(m - 1) : g[i] = f[i]
      BY <2>3
    <2>5. g[m] = w
      BY <2>3
    <2>6. ASSUME NEW i \in 1..m PROVE g[i] = turn(g[i - 1])
      <3>1. g[i - 1] = f[i - 1]
        BY <2>4
      <3>2. CASE i = m
        BY <2>2, <2>5, <3>1, <3>2
      <3>3. CASE i # m
        <4>1. i \in 1..(m - 1) /\ i \in 0..(m - 1)
          BY <3>3
        <4>2. f[i] = turn(f[i - 1])
          BY <2>1, <4>1
        <4> QED
          BY <2>4, <3>1, <4>1, <4>2
      <3> QED
        BY <3>2, <3>3
    <2>7. g[0] = h
      BY <2>1, <2>4
    <2>8. g = [i \in 0..m |-> g[i]]
      BY <2>3
    <2>9. runs(m, g)
      BY <2>6, <2>7, <2>8
    <2> HIDE DEF runs
    <2> QED
      BY <2>9
  <1>3. n \in T
    <2> HIDE DEF T
    <2>1. \A i \in 0..n : i \in T
      BY <1>1, <1>2, UpTo
    <2> QED
      BY <2>1
  <1>4. PICK f : runs(n, f)
    <2> HIDE DEF runs
    <2> QED
      BY <1>3
  <1>5. eq(f)
    <2>1. ASSUME NEW i \in 0..n PROVE f[i] = IF i = 0 THEN h ELSE turn(f[i - 1])
      <3>1. i = 0 \/ (i # 0 /\ i \in 1..n)
        OBVIOUS
      <3>2. f[0] = h /\ \A j \in 1..n : f[j] = turn(f[j - 1])
        BY <1>4
      <3> QED
        BY <3>1, <3>2, Zenon
    <2>2. f = [i \in 0..n |-> f[i]]
      BY <1>4
    <2> HIDE DEF runs
    <2> QED
      BY <2>1, <2>2, Zenon
  <1>6. turns(h, n) = CHOOSE s : eq(s)
    BY DEF turns
  <1> HIDE DEF eq
  <1>7. eq(turns(h, n))
    BY <1>5, <1>6
  <1>8. PICK s : s = turns(h, n)
    OBVIOUS
  <1>9. s = [i \in 0..n |-> IF i = 0 THEN h ELSE turn(s[i - 1])]
    BY <1>7, <1>8 DEF eq
  <1>10. s[0] = h
    BY <1>9
  <1>11. \A i \in 1..n : s[i] = turn(s[i - 1])
    <2> TAKE i \in 1..n
    <2>1. i \in 0..n /\ i # 0
      OBVIOUS
    <2> QED
      BY <1>9, <2>1, Zenon
  <1> QED
    BY <1>8, <1>10, <1>11

LEMMA SkipEmptyStops ==
    ASSUME NEW t, t.capacity \in Nat, NEW i \in 0..t.capacity
    PROVE  /\ skipEmpty(t, i) \in i..t.capacity
           /\ \A j \in i..(skipEmpty(t, i) - 1) : t.slots[j] = {}
           /\ skipEmpty(t, i) < t.capacity => t.slots[skipEmpty(t, i)] # {}
  <1> DEFINE cap == t.capacity
             T == {j \in i..cap : j < cap => t.slots[j] # {}}
             stops(to) == /\ \A j \in i..(to - 1) : t.slots[j] = {}
                          /\ to < cap => t.slots[to] # {}
  <1>1. T \in SUBSET Nat /\ cap \in T
    OBVIOUS
  <1>2. PICK x \in T : \A y \in T : x <= y
    <2> HIDE DEF T, cap
    <2> QED
      BY <1>1, LeastNat
  <1>3. ASSUME NEW j \in i..(x - 1) PROVE t.slots[j] = {}
    <2>1. j \notin T
      BY <1>2
    <2> QED
      BY <2>1
  <1>4. x \in i..cap /\ stops(x)
    BY <1>3
  <1>5. skipEmpty(t, i) = CHOOSE to \in i..cap : stops(to)
    BY DEF skipEmpty
  <1> HIDE DEF stops, cap, T
  <1>6. skipEmpty(t, i) \in i..cap /\ stops(skipEmpty(t, i))
    BY <1>4, <1>5
  <1> QED
    BY <1>6 DEF stops, cap

\* The occupied slots from..to-1.
Occupied(t, from, to) == {j \in from..(to - 1) : t.slots[j] # {}}

LEMMA OccupiedFinite ==
    ASSUME NEW t, NEW from \in Nat, NEW to \in Nat
    PROVE  IsFiniteSet(Occupied(t, from, to)) /\ Cardinality(Occupied(t, from, to)) \in Nat
  <1>1. IsFiniteSet(from..(to - 1))
    BY FS_Interval
  <1>2. Occupied(t, from, to) \in SUBSET (from..(to - 1))
    BY DEF Occupied
  <1> QED
    BY <1>1, <1>2, FS_Subset, FS_CardinalityType

\* The first occupied slot from a on is i.
NextOccupied(t, a, i) ==
    /\ a <= i /\ i < t.capacity
    /\ \A j \in a..(i - 1) : t.slots[j] = {}
    /\ t.slots[i] # {}

\* Then the slots up to i hold one chain more than those below a.
LEMMA RangeExtends ==
    ASSUME NEW t, GoodTable(t), NEW from \in Nat, NEW a \in Nat, NEW i \in Nat,
           from <= a, NextOccupied(t, a, i)
    PROVE  /\ slotRange(t, from, i + 1) = slotRange(t, from, a) \cup t.slots[i]
           /\ slotRange(t, from, a) \cap t.slots[i] = {}
           /\ IsFiniteSet(slotRange(t, from, a)) /\ IsFiniteSet(t.slots[i])
           /\ Cardinality(slotRange(t, from, i + 1))
                = Cardinality(slotRange(t, from, a)) + Cardinality(t.slots[i])
           /\ Cardinality(slotRange(t, from, a)) \in Nat /\ Cardinality(t.slots[i]) \in Nat
           /\ Cardinality(Occupied(t, from, i + 1)) = Cardinality(Occupied(t, from, a)) + 1
  <1> DEFINE R == slotRange(t, from, a)
             c == t.slots[i]
  <1>0. /\ a <= i /\ i < t.capacity /\ c # {}
        /\ \A j \in a..(i - 1) : t.slots[j] = {}
    BY DEF NextOccupied
  <1> USE <1>0
  <1>1. slotRange(t, from, i + 1) = R \cup c
    <2>1. ASSUME NEW e PROVE e \in slotRange(t, from, i + 1) <=> \E j \in from..i : e \in t.slots[j]
      <3>1. (i + 1) - 1 = i
        OBVIOUS
      <3> QED
        BY <3>1 DEF slotRange
    <2>2. ASSUME NEW e PROVE e \in R <=> \E j \in from..(a - 1) : e \in t.slots[j]
      BY DEF slotRange
    <2>3. \A j \in from..i : j \in from..(a - 1) \/ j \in a..(i - 1) \/ j = i
      OBVIOUS
    <2>4. i \in from..i /\ \A j \in from..(a - 1) : j \in from..i
      OBVIOUS
    <2> HIDE DEF R
    <2> QED
      BY <2>1, <2>2, <2>3, <2>4
  <1>2. R \subseteq tableEntries(t) /\ IsFiniteSet(R)
    BY ClearSlotsGood DEF GoodTable, Table
  <1>3. i \in DOMAIN t.slots
    BY DEF GoodTable, Table
  <1>4. c \in SUBSET tableEntries(t) /\ IsFiniteSet(tableEntries(t))
    BY <1>3 DEF tableEntries, GoodTable, SizeExact
  <1>5. IsFiniteSet(c)
    <2> HIDE DEF c
    <2> QED
      BY <1>4, FS_Subset
  <1>6. R \cap c = {}
    <2> SUFFICES ASSUME NEW e \in R, e \in c PROVE FALSE
      OBVIOUS
    <2>1. PICK j \in from..(a - 1) : e \in t.slots[j]
      BY DEF slotRange
    <2>2. j \in DOMAIN t.slots /\ j # i
      BY DEF GoodTable, Table
    <2> QED
      BY <1>3, <2>1, <2>2 DEF GoodTable, InSlot
  <1>7. Cardinality(R) \in Nat /\ Cardinality(c) \in Nat
    BY <1>2, <1>5, FS_CardinalityType
  <1>8. Cardinality(R \cup c) = Cardinality(R) + Cardinality(c)
    <2>1. Cardinality(R \cup c) = Cardinality(R) + Cardinality(c) - Cardinality(R \cap c)
      <3> HIDE DEF R, c
      <3> QED
        BY <1>2, <1>5, FS_Union
    <2>2. Cardinality(R \cap c) = 0
      BY <1>6, FS_EmptySet
    <2> QED
      BY <1>7, <2>1, <2>2
  <1>9. Cardinality(Occupied(t, from, i + 1)) = Cardinality(Occupied(t, from, a)) + 1
    <2>1. Occupied(t, from, i + 1) = Occupied(t, from, a) \cup {i}
      BY DEF Occupied
    <2>2. i \notin Occupied(t, from, a)
      BY DEF Occupied
    <2> QED
      BY <2>1, <2>2, OccupiedFinite, FS_AddElement
  <1> QED
    BY <1>1, <1>2, <1>5, <1>6, <1>7, <1>8, <1>9

\* A table is a record of its three fields and nothing else.
IsRecord(t) == t = [slots |-> t.slots, capacity |-> t.capacity, size |-> t.size]

\* The object when the slots below a have been moved.
MovedTo(h, a) ==
    LET moved == slotRange(h.rehash, h.rehashIdx, a)
    IN  [primary |-> insertAll(h.primary, moved),
         rehash |-> clearSlots(h.rehash, h.rehashIdx, a, moved),
         isRehashing |-> TRUE, rehashIdx |-> a]

Chains(h, a) == Cardinality(Occupied(h.rehash, h.rehashIdx, a))

\* After m turns: m chains have been moved, the last from the slot before a, and there
\* are entries left; or all have been moved, in at most m turns.
Under(h, m, s) ==
    \E a \in h.rehashIdx..h.rehash.capacity :
        /\ Chains(h, a) = m
        /\ \A k \in h.rehashIdx..(a - 1) : Chains(h, k) < m
        /\ s = MovedTo(h, a)
        /\ m > 0 => s.rehash.size # 0

Over(h, m, s) ==
    \E a \in h.rehashIdx..h.rehash.capacity :
        /\ Chains(h, a) <= m
        /\ \A j \in a..(h.rehash.capacity - 1) : h.rehash.slots[j] = {}
        /\ s = completed(insertAll(h.primary, slotRange(h.rehash, h.rehashIdx, a)))

\* What a sound object that is rehashing looks like.
Rehashing(h) ==
    /\ GoodTable(h.primary) /\ GoodTable(h.rehash)
    /\ IsRecord(h.primary) /\ IsRecord(h.rehash)
    /\ h = [primary |-> h.primary, rehash |-> h.rehash,
            isRehashing |-> TRUE, rehashIdx |-> h.rehashIdx]
    /\ h.rehashIdx \in Nat /\ h.rehash.capacity \in Nat /\ h.rehashIdx <= h.rehash.capacity
    /\ \A i \in 0..(h.rehashIdx - 1) : h.rehash.slots[i] = {}

LEMMA ChainsNat ==
    ASSUME NEW h, Rehashing(h), NEW a \in Nat
    PROVE  Chains(h, a) \in Nat
  BY OccupiedFinite DEF Chains, Rehashing

LEMMA ChainsGrow ==
    ASSUME NEW h, Rehashing(h), NEW a \in Nat, NEW b \in Nat, a <= b
    PROVE  /\ Chains(h, a) <= Chains(h, b)
           /\ Chains(h, a) = Chains(h, b) =>
                 Occupied(h.rehash, h.rehashIdx, a) = Occupied(h.rehash, h.rehashIdx, b)
  <1>0. h.rehashIdx \in Nat
    BY DEF Rehashing
  <1>1. Occupied(h.rehash, h.rehashIdx, a) \in SUBSET Occupied(h.rehash, h.rehashIdx, b)
    BY <1>0 DEF Occupied
  <1>2. IsFiniteSet(Occupied(h.rehash, h.rehashIdx, b))
    BY <1>0, OccupiedFinite
  <1> QED
    BY <1>1, <1>2, FS_Subset DEF Chains

LEMMA NothingMoved ==
    ASSUME NEW t, GoodTable(t), IsRecord(t)
    PROVE  insertAll(t, {}) = t /\ \A a \in Nat : clearSlots(t, a, a, {}) = t
  <1>0. t.slots = [i \in DOMAIN t.slots |-> t.slots[i]] /\ t.size \in Nat
    BY DEF GoodTable, Table
  <1>1. t.size + Cardinality({}) = t.size /\ t.size - Cardinality({}) = t.size
    BY <1>0, FS_EmptySet
  <1>2. [i \in DOMAIN t.slots |-> t.slots[i] \cup {e \in {} : slotOf(e.key, t.capacity) = i}] = t.slots
    BY <1>0
  <1>3. insertAll(t, {}) = [slots |-> t.slots, capacity |-> t.capacity, size |-> t.size]
    BY <1>1, <1>2, Zenon DEF insertAll
  <1>4. ASSUME NEW a \in Nat PROVE clearSlots(t, a, a, {}) = t
    <2>1. a..(a - 1) = {}
      OBVIOUS
    <2>2. [i \in DOMAIN t.slots |-> IF i \in a..(a - 1) THEN {} ELSE t.slots[i]] = t.slots
      BY <1>0, <2>1
    <2>3. clearSlots(t, a, a, {}) = [slots |-> t.slots, capacity |-> t.capacity, size |-> t.size]
      BY <1>1, <2>2, Zenon DEF clearSlots
    <2> QED
      BY <2>3 DEF IsRecord
  <1> QED
    BY <1>3, <1>4 DEF IsRecord

\* Before the first turn.
LEMMA StartsUnder ==
    ASSUME NEW h, Rehashing(h)
    PROVE  Under(h, 0, h)
  <1> DEFINE a == h.rehashIdx
  <1>0. a \in Nat /\ a \in a..h.rehash.capacity /\ a..(a - 1) = {}
    BY DEF Rehashing
  <1>1. slotRange(h.rehash, a, a) = {}
    BY <1>0 DEF slotRange
  <1>2. Chains(h, a) = 0
    BY <1>0, FS_EmptySet DEF Chains, Occupied
  <1>3. insertAll(h.primary, {}) = h.primary /\ clearSlots(h.rehash, a, a, {}) = h.rehash
    BY <1>0, NothingMoved DEF Rehashing
  <1>4. MovedTo(h, a) = [primary |-> h.primary, rehash |-> h.rehash,
                         isRehashing |-> TRUE, rehashIdx |-> a]
    BY <1>1, <1>3, Zenon DEF MovedTo
  <1>5. h = MovedTo(h, a)
    BY <1>4 DEF Rehashing
  <1> QED
    BY <1>0, <1>2, <1>5 DEF Under

\* Moving a chain after the slots below a is moving the slots up to it.
LEMMA MoveOneMore ==
    ASSUME NEW h, Rehashing(h), NEW a \in Nat, NEW i \in Nat, h.rehashIdx <= a,
           NextOccupied(h.rehash, a, i)
    PROVE  LET c == h.rehash.slots[i] IN
           /\ insertAll(MovedTo(h, a).primary, c) = MovedTo(h, i + 1).primary
           /\ clearSlots(MovedTo(h, a).rehash, i, i + 1, c) = MovedTo(h, i + 1).rehash
  <1>a. PICK t, p, b : t = h.rehash /\ p = h.primary /\ b = h.rehashIdx
    OBVIOUS
  <1> DEFINE c == t.slots[i]
             R == slotRange(t, b, a)
             S == slotRange(t, b, i + 1)
  <1>0. /\ b \in Nat /\ GoodTable(t) /\ GoodTable(p)
        /\ p.size \in Nat /\ t.size \in Nat
    BY <1>a DEF Rehashing, GoodTable, Table
  <1>b. b <= a /\ NextOccupied(t, a, i)
    BY <1>a
  <1>1. /\ S = R \cup c
        /\ Cardinality(S) = Cardinality(R) + Cardinality(c)
        /\ Cardinality(R) \in Nat /\ Cardinality(c) \in Nat
    BY <1>0, <1>b, RangeExtends
  <1>2. /\ MovedTo(h, a).primary = insertAll(p, R) /\ MovedTo(h, i + 1).primary = insertAll(p, S)
        /\ MovedTo(h, a).rehash = clearSlots(t, b, a, R)
        /\ MovedTo(h, i + 1).rehash = clearSlots(t, b, i + 1, S)
    BY <1>a DEF MovedTo
  <1>3. /\ a <= i /\ i < t.capacity
        /\ \A j \in a..(i - 1) : t.slots[j] = {}
    BY <1>b DEF NextOccupied
  <1> HIDE DEF c, R, S
  <1>4. insertAll(insertAll(p, R), c) = insertAll(p, S)
    <2>1. PICK q : q = insertAll(p, R)
      OBVIOUS
    <2>2. /\ q.capacity = p.capacity /\ q.size = p.size + Cardinality(R)
          /\ q.slots = [j \in DOMAIN p.slots |->
                          p.slots[j] \cup {e \in R : slotOf(e.key, p.capacity) = j}]
      BY <2>1 DEF insertAll
    <2>3. q.size + Cardinality(c) = p.size + Cardinality(S)
      BY <1>0, <1>1, <2>2
    <2>4. [j \in DOMAIN q.slots |-> q.slots[j] \cup {e \in c : slotOf(e.key, p.capacity) = j}]
            = [j \in DOMAIN p.slots |-> p.slots[j] \cup {e \in S : slotOf(e.key, p.capacity) = j}]
      BY <1>1, <2>2
    <2>5. insertAll(q, c) =
            [slots |-> [j \in DOMAIN q.slots |-> q.slots[j] \cup {e \in c : slotOf(e.key, p.capacity) = j}],
             capacity |-> p.capacity, size |-> p.size + Cardinality(S)]
      <3>1. insertAll(q, c) =
              [slots |-> [j \in DOMAIN q.slots |-> q.slots[j] \cup {e \in c : slotOf(e.key, q.capacity) = j}],
               capacity |-> q.capacity, size |-> q.size + Cardinality(c)]
        BY Zenon DEF insertAll
      <3> QED
        <4>1. q.capacity = p.capacity /\ q.size + Cardinality(c) = p.size + Cardinality(S)
          BY <2>2, <2>3
        <4>2. PICK cap, n : cap = q.capacity /\ n = q.size + Cardinality(c)
          OBVIOUS
        <4>3. cap = p.capacity /\ n = p.size + Cardinality(S)
          BY <4>1, <4>2
        <4>4. insertAll(q, c) =
                [slots |-> [j \in DOMAIN q.slots |-> q.slots[j] \cup {e \in c : slotOf(e.key, cap) = j}],
                 capacity |-> cap, size |-> n]
          BY <3>1, <4>2, Zenon
        <4> QED
          BY <4>3, <4>4, Zenon
    <2> QED
      BY <2>1, <2>4, <2>5, Zenon DEF insertAll
  <1>5. clearSlots(clearSlots(t, b, a, R), i, i + 1, c) = clearSlots(t, b, i + 1, S)
    <2>1. PICK r : r = clearSlots(t, b, a, R)
      OBVIOUS
    <2>2. /\ r.capacity = t.capacity /\ r.size = t.size - Cardinality(R)
          /\ r.slots = [j \in DOMAIN t.slots |-> IF j \in b..(a - 1) THEN {} ELSE t.slots[j]]
      BY <2>1 DEF clearSlots
    <2>3. r.size - Cardinality(c) = t.size - Cardinality(S)
      BY <1>0, <1>1, <2>2
    <2>4. [j \in DOMAIN r.slots |-> IF j \in i..((i + 1) - 1) THEN {} ELSE r.slots[j]]
            = [j \in DOMAIN t.slots |-> IF j \in b..((i + 1) - 1) THEN {} ELSE t.slots[j]]
      <3>1. DOMAIN r.slots = DOMAIN t.slots /\ DOMAIN t.slots \subseteq Nat
        BY <1>0, <2>2 DEF GoodTable, Table
      <3>2. ASSUME NEW j \in DOMAIN t.slots
            PROVE  (IF j \in i..((i + 1) - 1) THEN {} ELSE r.slots[j])
                     = (IF j \in b..((i + 1) - 1) THEN {} ELSE t.slots[j])
        <4>0. j \in Nat /\ b <= a
          BY <1>b, <3>1
        <4>1. (j \in i..((i + 1) - 1) <=> j = i) /\ (j \in b..((i + 1) - 1) <=> b <= j /\ j <= i)
              /\ (j \in b..(a - 1) <=> b <= j /\ j < a)
          BY <1>0, <4>0
        <4>2. r.slots[j] = IF j \in b..(a - 1) THEN {} ELSE t.slots[j]
          BY <2>2
        <4>3. (a <= j /\ j < i) => t.slots[j] = {}
          BY <1>3, <4>0
        <4>4. CASE j = i
          BY <1>0, <1>3, <4>0, <4>1, <4>4
        <4>5. CASE j # i
          <5>1. CASE b <= j /\ j < a
            BY <1>3, <4>0, <4>1, <4>2, <4>5, <5>1
          <5>2. CASE a <= j /\ j < i
            BY <1>0, <4>0, <4>1, <4>2, <4>3, <4>5, <5>2
          <5>3. CASE j < b \/ i < j
            BY <1>0, <1>b, <1>3, <4>0, <4>1, <4>2, <4>5, <5>3
          <5> QED
            BY <1>0, <1>3, <4>0, <4>5, <5>1, <5>2, <5>3
        <4> QED
          BY <4>4, <4>5
      <3> QED
        BY <3>1, <3>2
    <2>5. clearSlots(r, i, i + 1, c) =
            [slots |-> [j \in DOMAIN r.slots |-> IF j \in i..((i + 1) - 1) THEN {} ELSE r.slots[j]],
             capacity |-> t.capacity, size |-> t.size - Cardinality(S)]
      BY <2>2, <2>3, Zenon DEF clearSlots
    <2> QED
      BY <2>1, <2>4, <2>5, Zenon DEF clearSlots
  <1> QED
    BY <1>a, <1>2, <1>4, <1>5 DEF c

\* When as many entries have been moved as the counter says there are, no slot from
\* `to' on holds any.
LEMMA AllMoved ==
    ASSUME NEW t, GoodTable(t), NEW from \in Nat, NEW to \in Nat, to <= t.capacity,
           Cardinality(slotRange(t, from, to)) = t.size
    PROVE  \A j \in to..(t.capacity - 1) : t.slots[j] = {}
  <1> DEFINE S == slotRange(t, from, to)
  <1>1. S \in SUBSET tableEntries(t)
    BY ClearSlotsGood
  <1>2. IsFiniteSet(tableEntries(t)) /\ t.size = Cardinality(tableEntries(t))
    BY DEF GoodTable, SizeExact
  <1>3. S = tableEntries(t)
    <2>1. Cardinality(tableEntries(t)) = Cardinality(S)
      BY <1>2
    <2> HIDE DEF S
    <2> QED
      BY <1>1, <1>2, <2>1, FS_Subset
  <1>4. SUFFICES ASSUME NEW j \in to..(t.capacity - 1), NEW e \in t.slots[j] PROVE FALSE
    OBVIOUS
  <1>5. j \in DOMAIN t.slots
    BY DEF GoodTable, Table
  <1>6. e \in S
    BY <1>3, <1>5 DEF tableEntries
  <1>7. PICK k \in from..(to - 1) : e \in t.slots[k]
    BY <1>6 DEF slotRange
  <1>8. k \in DOMAIN t.slots /\ k # j
    BY DEF GoodTable, Table
  <1> QED
    BY <1>5, <1>7, <1>8 DEF GoodTable, InSlot

\* A range beyond which both ways there is nothing has all entries.
LEMMA RangeIsAll ==
    ASSUME NEW t, GoodTable(t), NEW from \in Nat, NEW to \in Nat, to <= t.capacity,
           \A j \in 0..(from - 1) : t.slots[j] = {},
           \A j \in to..(t.capacity - 1) : t.slots[j] = {}
    PROVE  slotRange(t, from, to) = tableEntries(t)
  <1>0. DOMAIN t.slots = 0..(t.capacity - 1) /\ t.capacity \in Nat
    BY DEF GoodTable, Table
  <1>1. slotRange(t, from, to) \subseteq tableEntries(t)
    BY ClearSlotsGood
  <1>2. ASSUME NEW e \in tableEntries(t) PROVE e \in slotRange(t, from, to)
    <2>1. PICK j \in 0..(t.capacity - 1) : e \in t.slots[j]
      BY <1>0 DEF tableEntries
    <2>2. j \notin 0..(from - 1) /\ j \notin to..(t.capacity - 1)
      BY <2>1
    <2>3. j \in from..(to - 1)
      BY <1>0, <2>2
    <2> QED
      BY <2>1, <2>3 DEF slotRange
  <1> QED
    BY <1>1, <1>2

\* A turn with chains left moves one, or finds there is none, or moves the last.
LEMMA UnderStep ==
    ASSUME NEW h, Rehashing(h), NEW m \in Nat, NEW s, Under(h, m, s)
    PROVE  Under(h, m + 1, turn(s)) \/ Over(h, m + 1, turn(s))
  <1>a. PICK t, b, cap : t = h.rehash /\ b = h.rehashIdx /\ cap = h.rehash.capacity
    OBVIOUS
  <1>0. /\ b \in Nat /\ cap \in Nat /\ GoodTable(t) /\ cap = t.capacity
        /\ DOMAIN t.slots = 0..(cap - 1) /\ t.size \in Nat
    BY <1>a DEF Rehashing, GoodTable, Table
  <1>1. PICK a \in b..cap : Chains(h, a) = m /\ s = MovedTo(h, a)
    BY <1>a DEF Under
  <1>2. a \in Nat /\ b <= a /\ a <= cap
    BY <1>0
  <1>3. /\ s.isRehashing /\ s.rehashIdx = a
        /\ s.primary = insertAll(h.primary, slotRange(t, b, a))
        /\ s.rehash = clearSlots(t, b, a, slotRange(t, b, a))
    BY <1>a, <1>1 DEF MovedTo
  <1>4. /\ s.rehash.capacity = cap
        /\ \A j \in a..(cap - 1) : s.rehash.slots[j] = t.slots[j]
    <2>1. s.rehash.slots = [j \in DOMAIN t.slots |-> IF j \in b..(a - 1) THEN {} ELSE t.slots[j]]
      BY <1>3 DEF clearSlots
    <2>2. s.rehash.capacity = cap
      BY <1>0, <1>3 DEF clearSlots
    <2>3. \A j \in a..(cap - 1) : j \in DOMAIN t.slots /\ j \notin b..(a - 1)
      BY <1>0, <1>2
    <2> QED
      BY <2>1, <2>2, <2>3
  <1>5. PICK i : i = skipEmpty(s.rehash, a)
    OBVIOUS
  <1>6. /\ i \in a..cap /\ i \in Nat
        /\ \A j \in a..(i - 1) : s.rehash.slots[j] = {}
        /\ i < cap => s.rehash.slots[i] # {}
    <2>1. PICK q : q = s.rehash
      OBVIOUS
    <2>2. q.capacity \in Nat /\ a \in 0..q.capacity /\ q.capacity = cap
      BY <1>0, <1>2, <1>4, <2>1
    <2>3. i = skipEmpty(q, a)
      BY <1>5, <2>1
    <2>4. /\ i \in a..q.capacity
          /\ \A j \in a..(i - 1) : q.slots[j] = {}
          /\ i < q.capacity => q.slots[i] # {}
      BY <2>2, <2>3, SkipEmptyStops
    <2>5. i \in a..cap /\ i \in Nat
      BY <1>0, <1>2, <2>2, <2>4
    <2> QED
      BY <2>1, <2>2, <2>4, <2>5, Zenon
  <1>7. \A j \in a..(i - 1) : t.slots[j] = {}
    <2>1. \A j \in a..(i - 1) : j \in a..(cap - 1)
      BY <1>0, <1>2, <1>6
    <2> QED
      BY <1>4, <1>6, <2>1, Zenon
  <1>8. turn(s) = migrateOneSlot(s)
    BY <1>3 DEF turn
  <1>9. CASE i = cap
    <2>1. turn(s) = completed(s.primary)
      BY <1>0, <1>3, <1>4, <1>5, <1>8, <1>9 DEF migrateOneSlot
    <2>2. Chains(h, a) <= m + 1
      BY <1>1
    <2> QED
      BY <1>a, <1>1, <1>3, <1>7, <1>9, <2>1, <2>2 DEF Over
  <1>10. CASE i < cap
    <2>1. t.slots[i] = s.rehash.slots[i] /\ t.slots[i] # {}
      <3>1. i \in a..(cap - 1)
        BY <1>0, <1>2, <1>6, <1>10
      <3> QED
        BY <1>4, <1>6, <1>10, <3>1, Zenon
    <2>2. NextOccupied(t, a, i)
      BY <1>0, <1>6, <1>7, <1>10, <2>1 DEF NextOccupied
    <2>3. PICK p, r : /\ p = insertAll(s.primary, t.slots[i])
                      /\ r = clearSlots(s.rehash, i, i + 1, t.slots[i])
      OBVIOUS
    <2>4. p = MovedTo(h, i + 1).primary /\ r = MovedTo(h, i + 1).rehash
      BY <1>a, <1>1, <1>2, <1>6, <2>2, <2>3, MoveOneMore
    <2>5. /\ p = insertAll(h.primary, slotRange(t, b, i + 1))
          /\ r.size = t.size - Cardinality(slotRange(t, b, i + 1))
      BY <1>a, <2>4 DEF MovedTo, clearSlots
    <2>6. turn(s) = IF r.size = 0 THEN completed(p)
                    ELSE [primary |-> p, rehash |-> r, isRehashing |-> TRUE, rehashIdx |-> i + 1]
      <3>1. ~ (i >= s.rehash.capacity)
        BY <1>0, <1>4, <1>6, <1>10
      <3> QED
        BY <1>3, <1>5, <1>8, <2>1, <2>3, <3>1 DEF migrateOneSlot
    <2>7. /\ Chains(h, i + 1) = m + 1
          /\ Cardinality(slotRange(t, b, i + 1)) \in Nat
      <3>1. /\ Cardinality(Occupied(t, b, i + 1)) = Cardinality(Occupied(t, b, a)) + 1
            /\ Cardinality(slotRange(t, b, i + 1))
                 = Cardinality(slotRange(t, b, a)) + Cardinality(t.slots[i])
            /\ Cardinality(slotRange(t, b, a)) \in Nat /\ Cardinality(t.slots[i]) \in Nat
        BY <1>0, <1>2, <1>6, <2>2, RangeExtends
      <3>2. Cardinality(Occupied(t, b, a)) = m
        BY <1>a, <1>1 DEF Chains
      <3> QED
        BY <1>a, <3>1, <3>2 DEF Chains
    <2>8. i + 1 \in b..cap /\ i + 1 \in Nat /\ i + 1 <= cap
      BY <1>0, <1>2, <1>6, <1>10
    <2>9. CASE r.size = 0
      <3>1. Cardinality(slotRange(t, b, i + 1)) = t.size
        BY <1>0, <2>5, <2>7, <2>9
      <3>2. \A j \in (i + 1)..(cap - 1) : t.slots[j] = {}
        BY <1>0, <2>8, <3>1, AllMoved
      <3>3. turn(s) = completed(insertAll(h.primary, slotRange(t, b, i + 1)))
        BY <2>5, <2>6, <2>9
      <3>4. Chains(h, i + 1) <= m + 1
        BY <2>7
      <3> QED
        BY <1>a, <2>8, <3>2, <3>3, <3>4, Zenon DEF Over
    <2>10. CASE r.size # 0
      <3>1. turn(s) = MovedTo(h, i + 1)
        <4>1. turn(s) = [primary |-> p, rehash |-> r, isRehashing |-> TRUE, rehashIdx |-> i + 1]
          BY <2>6, <2>10
        <4> QED
          BY <2>4, <4>1 DEF MovedTo
      <3>2. turn(s).rehash.size # 0
        BY <2>4, <2>10, <3>1
      <3>3. Chains(h, i) = m
        <4>1. Occupied(t, b, i) = Occupied(t, b, a)
          BY <1>0, <1>2, <1>6, <1>7 DEF Occupied
        <4> QED
          BY <1>a, <1>1, <4>1 DEF Chains
      <3>4. ASSUME NEW k \in b..((i + 1) - 1) PROVE Chains(h, k) < m + 1
        <4>1. k \in Nat /\ k <= i
          BY <1>0, <1>6
        <4>2. Chains(h, k) <= m /\ Chains(h, k) \in Nat
          BY <1>6, <3>3, <4>1, ChainsGrow, ChainsNat
        <4> QED
          BY <4>2
      <3> QED
        BY <1>a, <2>7, <2>8, <3>1, <3>2, <3>4, Zenon DEF Under
    <2> QED
      BY <2>9, <2>10
  <1> QED
    BY <1>0, <1>6, <1>9, <1>10

LEMMA OverStep ==
    ASSUME NEW h, Rehashing(h), NEW m \in Nat, NEW s, Over(h, m, s)
    PROVE  Over(h, m + 1, turn(s))
  <1>1. PICK a \in h.rehashIdx..h.rehash.capacity :
           /\ Chains(h, a) <= m
           /\ \A j \in a..(h.rehash.capacity - 1) : h.rehash.slots[j] = {}
           /\ s = completed(insertAll(h.primary, slotRange(h.rehash, h.rehashIdx, a)))
    BY DEF Over
  <1>2. turn(s) = s
    BY <1>1 DEF turn, completed
  <1>3. a \in Nat
    BY DEF Rehashing
  <1>4. Chains(h, a) <= m + 1
    BY <1>1, <1>3, ChainsNat
  <1> QED
    BY <1>1, <1>2, <1>4, Zenon DEF Over

\* Where the closed form stops: at the first index that is reached.
LEMMA BatchEndIs ==
    ASSUME NEW h, Rehashing(h)
    PROVE  /\ batchEnd(h) \in h.rehashIdx..h.rehash.capacity
           /\ batchEnd(h) = h.rehash.capacity \/ Chains(h, batchEnd(h)) = kRehashBatchSize
           /\ \A a \in h.rehashIdx..h.rehash.capacity :
                 /\ Chains(h, a) = kRehashBatchSize
                 /\ \A j \in h.rehashIdx..(a - 1) : Chains(h, j) # kRehashBatchSize
                 => batchEnd(h) = a
  <1>a. PICK b, cap : b = h.rehashIdx /\ cap = h.rehash.capacity /\ b \in Nat /\ cap \in Nat /\ b <= cap
    BY DEF Rehashing
  <1> DEFINE reached(to) == to = cap \/ Chains(h, to) = kRehashBatchSize
             T == {to \in b..cap : reached(to)}
             first(to) == /\ reached(to)
                          /\ \A j \in b..(to - 1) : ~reached(j)
  <1>1. batchEnd(h) = CHOOSE to \in b..cap : first(to)
    BY <1>a, Zenon DEF batchEnd, Chains, Occupied
  <1>2. T \in SUBSET Nat /\ cap \in T
    BY <1>a
  <1> HIDE DEF reached
  <1>3. PICK x \in T : \A y \in T : x <= y
    <2> HIDE DEF T
    <2> QED
      BY <1>2, LeastNat
  <1>4. first(x)
    <2>1. ASSUME NEW j \in b..(x - 1) PROVE ~reached(j)
      <3>1. j \in b..cap /\ ~(x <= j)
        BY <1>a
      <3> QED
        BY <1>3, <3>1
    <2> QED
      BY <2>1
  <1>5. batchEnd(h) \in b..cap /\ first(batchEnd(h))
    <2> HIDE DEF first
    <2> QED
      BY <1>1, <1>4
  <1>6. ASSUME NEW a \in b..cap, Chains(h, a) = kRehashBatchSize,
               \A j \in b..(a - 1) : Chains(h, j) # kRehashBatchSize
        PROVE  batchEnd(h) = a
    <2>1. PICK e \in b..cap : e = batchEnd(h)
      BY <1>5
    <2>2. reached(e) /\ \A j \in b..(e - 1) : ~reached(j)
      BY <1>5, <2>1
    <2>3. reached(a)
      BY <1>6 DEF reached
    <2>4. ~ (a < e)
      BY <1>a, <2>2, <2>3
    <2>5. ~ (e < a)
      <3> SUFFICES ASSUME e < a PROVE FALSE
        OBVIOUS
      <3>1. e \in b..(a - 1) /\ e # cap
        BY <1>a
      <3> QED
        BY <1>6, <2>2, <3>1 DEF reached
    <2> QED
      BY <1>a, <2>1, <2>4, <2>5
  <1>7. batchEnd(h) = cap \/ Chains(h, batchEnd(h)) = kRehashBatchSize
    BY <1>5 DEF reached
  <1> QED
    BY <1>a, <1>5, <1>6, <1>7

LEMMA RehashStepIs ==
    ASSUME NEW h, Rehashing(h), NEW to, to = batchEnd(h),
           NEW moved, moved = slotRange(h.rehash, h.rehashIdx, to)
    PROVE  rehashStep(h) =
             IF h.rehash.size - Cardinality(moved) = 0
             THEN completed(insertAll(h.primary, moved)) ELSE MovedTo(h, to)
  <1>1. h.isRehashing
    BY DEF Rehashing
  <1>2. clearSlots(h.rehash, h.rehashIdx, to, moved).size = h.rehash.size - Cardinality(moved)
    BY DEF clearSlots
  <1>3. CASE h.rehash.size - Cardinality(moved) = 0
    BY <1>1, <1>2, <1>3 DEF rehashStep, completed, freeTable
  <1>4. CASE h.rehash.size - Cardinality(moved) # 0
    BY <1>1, <1>2, <1>4 DEF rehashStep, MovedTo
  <1> QED
    BY <1>3, <1>4

LEMMA UnderEnd ==
    ASSUME NEW h, Rehashing(h), NEW s, Under(h, kRehashBatchSize, s)
    PROVE  rehashStep(h) = s
  <1>0. kRehashBatchSize \in Nat /\ kRehashBatchSize > 0
    BY BatchAssumption
  <1>1. PICK a \in h.rehashIdx..h.rehash.capacity :
           /\ Chains(h, a) = kRehashBatchSize
           /\ \A k \in h.rehashIdx..(a - 1) : Chains(h, k) < kRehashBatchSize
           /\ s = MovedTo(h, a)
           /\ s.rehash.size # 0
    BY <1>0 DEF Under
  <1>2. \A k \in h.rehashIdx..(a - 1) : Chains(h, k) # kRehashBatchSize
    BY <1>0, <1>1
  <1>3. batchEnd(h) = a
    BY <1>1, <1>2, BatchEndIs
  <1>4. PICK moved : moved = slotRange(h.rehash, h.rehashIdx, a)
    OBVIOUS
  <1>5. s.rehash.size = h.rehash.size - Cardinality(moved)
    BY <1>1, <1>4 DEF MovedTo, clearSlots
  <1>6. h.rehash.size - Cardinality(moved) # 0
    BY <1>1, <1>5
  <1> QED
    BY <1>1, <1>3, <1>4, <1>6, RehashStepIs

LEMMA OverEnd ==
    ASSUME NEW h, Rehashing(h), NEW s, Over(h, kRehashBatchSize, s)
    PROVE  rehashStep(h) = s
  <1>a. PICK t, b, cap, B : t = h.rehash /\ b = h.rehashIdx /\ cap = t.capacity /\ B = kRehashBatchSize
    OBVIOUS
  <1>0. /\ b \in Nat /\ cap \in Nat /\ GoodTable(t) /\ B \in Nat
        /\ \A j \in 0..(b - 1) : t.slots[j] = {}
        /\ t.size = Cardinality(tableEntries(t)) /\ t.size \in Nat
    BY <1>a, BatchAssumption DEF Rehashing, GoodTable, SizeExact, Table
  <1>1. PICK a \in b..cap :
           /\ Chains(h, a) <= B
           /\ \A j \in a..(cap - 1) : t.slots[j] = {}
           /\ s = completed(insertAll(h.primary, slotRange(t, b, a)))
    BY <1>a, Zenon DEF Over
  <1>2. a \in Nat /\ a <= cap /\ b <= a
    BY <1>0
  <1>3. slotRange(t, b, a) = tableEntries(t)
    BY <1>a, <1>0, <1>1, <1>2, RangeIsAll
  <1>4. PICK to \in b..cap : to = batchEnd(h) /\ (to = cap \/ Chains(h, to) = B)
    BY <1>a, BatchEndIs
  <1>5. to \in Nat /\ to <= cap
    BY <1>0
  <1>6. \A j \in to..(cap - 1) : t.slots[j] = {}
    <2>1. CASE to = cap
      BY <1>0, <2>1
    <2>2. CASE to # cap
      <3>1. Occupied(t, b, a) = Occupied(t, b, cap)
        <4>1. \A j \in b..(cap - 1) : j \in b..(a - 1) \/ t.slots[j] = {}
          BY <1>0, <1>1, <1>2
        <4>2. \A j \in b..(a - 1) : j \in b..(cap - 1)
          BY <1>0, <1>2
        <4> QED
          BY <4>1, <4>2 DEF Occupied
      <3>2. Chains(h, cap) = Chains(h, a)
        BY <1>a, <3>1 DEF Chains
      <3>3. Chains(h, to) <= Chains(h, cap)
        BY <1>0, <1>5, ChainsGrow
      <3>4. Chains(h, to) \in Nat /\ Chains(h, cap) \in Nat
        BY <1>0, <1>5, ChainsNat
      <3>5. Chains(h, to) = Chains(h, cap)
        BY <1>0, <1>1, <1>4, <2>2, <3>2, <3>3, <3>4
      <3>6. Occupied(t, b, to) = Occupied(t, b, cap)
        BY <1>a, <1>0, <1>5, <3>5, ChainsGrow
      <3>7. ASSUME NEW j \in to..(cap - 1), t.slots[j] # {} PROVE FALSE
        <4>1. j \in b..(cap - 1) /\ j \notin b..(to - 1)
          BY <1>0, <1>4, <1>5
        <4> QED
          BY <3>6, <3>7, <4>1 DEF Occupied
      <3> QED
        BY <3>7
    <2> QED
      BY <2>1, <2>2
  <1>7. slotRange(t, b, to) = tableEntries(t)
    BY <1>a, <1>0, <1>5, <1>6, RangeIsAll
  <1>8. h.rehash.size - Cardinality(slotRange(t, b, to)) = 0
    BY <1>a, <1>0, <1>7
  <1>9. PICK moved : moved = slotRange(t, b, to)
    OBVIOUS
  <1>10. rehashStep(h) = completed(insertAll(h.primary, moved))
    BY <1>a, <1>4, <1>8, <1>9, RehashStepIs
  <1> QED
    BY <1>1, <1>3, <1>7, <1>9, <1>10

\* The loop ends where the closed form does.
LEMMA LoopIsClosedForm ==
    ASSUME NEW h, Sound(h), IsRecord(h.primary), IsRecord(h.rehash)
    PROVE  rehashStep(h) = turns(h, kRehashBatchSize)[kRehashBatchSize]
  <1>a. PICK B, f : B = kRehashBatchSize /\ f = turns(h, kRehashBatchSize)
    OBVIOUS
  <1>0. B \in Nat
    BY <1>a, BatchAssumption
  <1>1. f[0] = h /\ \A i \in 1..B : f[i] = turn(f[i - 1])
    BY <1>a, <1>0, TurnsDef
  <1>2. CASE h.isRehashing
    <2>1. Rehashing(h)
      BY <1>2 DEF Rehashing, Sound, Shape, Progress, GoodTable, Table
    <2> DEFINE T == {i \in 0..B : Under(h, i, f[i]) \/ Over(h, i, f[i])}
    <2>2. 0 \in T
      BY <1>0, <1>1, <2>1, StartsUnder
    <2>3. ASSUME NEW i \in 1..B, i - 1 \in T PROVE i \in T
      <3>1. PICK m \in Nat : m = i - 1 /\ m + 1 = i
        OBVIOUS
      <3>2. f[m + 1] = turn(f[m])
        BY <1>1, <3>1
      <3>3. Under(h, m, f[m]) \/ Over(h, m, f[m])
        BY <2>3, <3>1
      <3>4. Under(h, m + 1, f[m + 1]) \/ Over(h, m + 1, f[m + 1])
        BY <2>1, <3>2, <3>3, UnderStep, OverStep
      <3> QED
        BY <1>0, <3>1, <3>4
    <2>4. B \in T
      <3> HIDE DEF T
      <3>1. \A i \in 0..B : i \in T
        BY <1>0, <2>2, <2>3, UpTo
      <3> QED
        BY <1>0, <3>1
    <2>5. Under(h, B, f[B]) \/ Over(h, B, f[B])
      BY <2>4
    <2> QED
      BY <1>a, <2>1, <2>5, UnderEnd, OverEnd
  <1>3. CASE ~h.isRehashing
    <2> DEFINE T == {i \in 0..B : f[i] = h}
    <2>1. 0 \in T
      BY <1>0, <1>1
    <2>2. ASSUME NEW i \in 1..B, i - 1 \in T PROVE i \in T
      <3>1. f[i - 1] = h
        BY <2>2
      <3>2. f[i] = turn(h)
        BY <1>1, <3>1
      <3> QED
        BY <1>0, <1>3, <3>2 DEF turn
    <2>3. B \in T
      <3> HIDE DEF T
      <3>1. \A i \in 0..B : i \in T
        BY <1>0, <2>1, <2>2, UpTo
      <3> QED
        BY <1>0, <3>1
    <2> QED
      BY <1>a, <1>3, <2>3 DEF rehashStep
  <1> QED
    BY <1>2, <1>3

Records(h) == IsRecord(h.primary) /\ IsRecord(h.rehash)

LEMMA RecordsMade ==
    /\ IsRecord(NullTable)
    /\ \A cap : IsRecord(allocTable(cap))
    /\ \A t, moved : IsRecord(insertAll(t, moved))
    /\ \A t, from, to, moved : IsRecord(clearSlots(t, from, to, moved))
    /\ \A t, k : IsRecord(t) => IsRecord(delFromTable(t, k))
    /\ \A t, k, new : IsRecord(replaceEntry(t, k, new))
    /\ \A t, k, v : IsRecord(overwrite(t, k, v))
  BY DEF IsRecord, NullTable, allocTable, insertAll, clearSlots, delFromTable, replaceEntry,
         overwrite

\* No call leaves anything but tables behind.
LEMMA RecordsStep ==
    ASSUME Records(ht), Next
    PROVE  Records(ht')
  <1>1. \A h : Records(h) => Records(rehashStep(h))
    <2> SUFFICES ASSUME NEW h, Records(h) PROVE Records(rehashStep(h))
      OBVIOUS
    <2> QED
      BY RecordsMade DEF rehashStep, Records, freeTable
  <1>2. \A h, p, r : IsRecord(p) /\ IsRecord(r) => Records(withTables(h, p, r))
    BY DEF withTables, Records
  <1>3. \A h, k : Records(h) => Records(beforeInsert(h, k))
    BY <1>2, RecordsMade DEF beforeInsert, Records
  <1>4. \A h, k, v : Records(h) => Records(insertNew(h, k, v))
    BY <1>2, RecordsMade DEF insertNew, Records, triggerRehash
  <1>5. \A h, k, v : Records(h) => Records(set(h, k, v))
    BY <1>1, <1>2, <1>3, <1>4, RecordsMade DEF set, Records
  <1>6. \A h, k : Records(h) => Records(del(h, k))
    BY <1>1, <1>2, RecordsMade DEF del, Records
  <1>7. \A h, k, v, d : Records(h) => Records(assign(h, k, v, d))
    BY <1>2, RecordsMade DEF assign, Records
  <1>8. \A h : Records(flushAll(h))
    BY RecordsMade DEF flushAll, freeTable, Records
  <1> QED
    BY <1>1, <1>5, <1>6, <1>7, <1>8 DEF Next, Set, Del, Assign, Tick, FlushAll

\* The loop of rehashStep, one slot at a time with its early exits, ends in the state
\* the closed form of the specification gives, for every table and batch size.
THEOREM LoopCorrect == Spec => []LoopAgrees
  <1>1. Init => Records(ht)
    BY RecordsMade DEF Init, EmptyHT, Records
  <1>2. Records(ht) /\ [Next]_ht => Records(ht)'
    BY RecordsStep DEF Records
  <1>3. IInv /\ Records(ht) => LoopAgrees
    BY LoopIsClosedForm DEF IInv, Records, LoopAgrees
  <1> QED
    BY <1>1, <1>2, <1>3, Invariance, PTL DEF Spec
=============================================================================
