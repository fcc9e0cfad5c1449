----------------------------- MODULE HashTable -----------------------------
(***************************************************************************)
(* store/HashTable: separate chaining over two tables.  While rehashing,   *)
(* primary is the new table of twice the capacity and rehash the old one,  *)
(* drained slot by slot from rehashIdx on.                                 *)
(*                                                                         *)
(* A chain is the set of its entries: no operation depends on their order. *)
(* `hashCode & mask' is Hash[k] % capacity, capacities being powers of two.*)
(***************************************************************************)
EXTENDS Integers, FiniteSets

CONSTANTS
    Key, Value, Deadline,
    Hash,               \* the FNV-1a code of every key
    kInitialCapacity, kMaxLoadFactor, kRehashBatchSize

ASSUME HashAssumption == Hash \in [Key -> Nat]
ASSUME CapacityAssumption == kInitialCapacity \in Nat \ {0}
ASSUME LoadFactorAssumption == kMaxLoadFactor \in Nat \ {0}
ASSUME BatchAssumption == kRehashBatchSize \in Nat \ {0}
ASSUME DeadlineAssumption == Deadline \subseteq Int

VARIABLE ht

NoExpiry == -1
Entry == [key : Key, value : Value, expireAt : Deadline \cup {NoExpiry}]

-----------------------------------------------------------------------------
(* One table: an array of chains, its length and its entry counter.  A table
   whose slots pointer is null has capacity 0. *)

NullTable == [slots |-> [i \in 0..(-1) |-> {}], capacity |-> 0, size |-> 0]

allocTable(cap) ==
    [slots |-> [i \in 0..(cap - 1) |-> {}], capacity |-> cap, size |-> 0]

\* freeTable resets every field, whatever the table held.
freeTable(t) == NullTable

slotOf(k, cap) == Hash[k] % cap

\* The entry of k in table t, as a set of at most one element.
findInTable(t, k) ==
    IF t.capacity = 0 THEN {}
    ELSE {e \in t.slots[slotOf(k, t.capacity)] : e.key = k}

delFromTable(t, k) ==
    LET hit == findInTable(t, k) IN
    IF hit = {} THEN t
    ELSE [slots    |-> [t.slots EXCEPT ![slotOf(k, t.capacity)] = @ \ hit],
          capacity |-> t.capacity,
          size     |-> t.size - 1]

\* Entries that move into t, each to the slot its cached hash selects.
insertAll(t, moved) ==
    [slots    |-> [i \in DOMAIN t.slots |->
                      t.slots[i] \cup {e \in moved : slotOf(e.key, t.capacity) = i}],
     capacity |-> t.capacity,
     size     |-> t.size + Cardinality(moved)]

\* The entries of the slots from..to-1 leave t.
clearSlots(t, from, to, moved) ==
    [slots    |-> [i \in DOMAIN t.slots |->
                      IF i \in from..(to - 1) THEN {} ELSE t.slots[i]],
     capacity |-> t.capacity,
     size     |-> t.size - Cardinality(moved)]

\* The entries of slots from..to-1.
slotRange(t, from, to) == UNION {t.slots[i] : i \in from..(to - 1)}

-----------------------------------------------------------------------------
(* The HashTable object: operations as functions of its state. *)

EmptyHT == [primary |-> NullTable, rehash |-> NullTable,
            isRehashing |-> FALSE, rehashIdx |-> 0]

\* Mutant: the old table is not searched.
findPrimaryOnly(h, k) == findInTable(h.primary, k)

\* The entry HashTable::find returns: the primary's, else the old table's.
find(h, k) ==
    LET p == findInTable(h.primary, k) IN
    IF p # {} \/ ~h.isRehashing THEN p ELSE findInTable(h.rehash, k)

withTables(h, p, r) ==
    [primary |-> p, rehash |-> r,
     isRehashing |-> h.isRehashing, rehashIdx |-> h.rehashIdx]

size(h) == h.primary.size + h.rehash.size

tableEntries(t) == UNION {t.slots[i] : i \in DOMAIN t.slots}

\* Everything HashTable::keys walks over.
entries(h) == tableEntries(h.primary) \cup tableEntries(h.rehash)

triggerRehash(h) ==
    [primary |-> allocTable(2 * h.primary.capacity), rehash |-> h.primary,
     isRehashing |-> TRUE, rehashIdx |-> 0]

\* Mutant: an empty slot uses up a unit of the batch.
batchEndCountsEmpty(h) ==
    IF h.rehashIdx + kRehashBatchSize < h.rehash.capacity
    THEN h.rehashIdx + kRehashBatchSize ELSE h.rehash.capacity

\* Where rehashIdx_ stands after kRehashBatchSize calls of migrateOneSlot:
\* empty slots are skipped for free, so it is the first index below which that
\* many occupied slots lie, and the end of the table when there are fewer.
batchEnd(h) ==
    LET occupied(to) == {j \in h.rehashIdx..(to - 1) : h.rehash.slots[j] # {}}
        reached(to)  == \/ to = h.rehash.capacity
                        \/ Cardinality(occupied(to)) = kRehashBatchSize
    IN  CHOOSE to \in h.rehashIdx..h.rehash.capacity :
            /\ reached(to)
            /\ \A j \in h.rehashIdx..(to - 1) : ~reached(j)

\* Mutant: only the head of each chain is relinked into the new table.
rehashMovesHeads(h) ==
    IF ~h.isRehashing THEN h
    ELSE LET to    == batchEnd(h)
             all   == slotRange(h.rehash, h.rehashIdx, to)
             heads == {CHOOSE e \in h.rehash.slots[i] : TRUE :
                          i \in {j \in h.rehashIdx..(to - 1) : h.rehash.slots[j] # {}}}
             p     == insertAll(h.primary, heads)
             r     == clearSlots(h.rehash, h.rehashIdx, to, all)
         IN  IF r.size = 0
             THEN [primary |-> p, rehash |-> freeTable(r),
                   isRehashing |-> FALSE, rehashIdx |-> 0]
             ELSE [primary |-> p, rehash |-> r,
                   isRehashing |-> TRUE, rehashIdx |-> to]

\* The loop of rehashStep in one go: the slots up to batchEnd move, and the old
\* table is released once its counter says it is empty.
rehashStep(h) ==
    IF ~h.isRehashing THEN h
    ELSE LET to    == batchEnd(h)
             moved == slotRange(h.rehash, h.rehashIdx, to)
             p     == insertAll(h.primary, moved)
             r     == clearSlots(h.rehash, h.rehashIdx, to, moved)
         IN  IF r.size = 0
             THEN [primary |-> p, rehash |-> freeTable(r),
                   isRehashing |-> FALSE, rehashIdx |-> 0]
             ELSE [primary |-> p, rehash |-> r,
                   isRehashing |-> TRUE, rehashIdx |-> to]

\* Mutant: a key written to primary stays in the old table too.
beforeInsertKeepsOld(h, k) ==
    withTables(h,
        IF h.primary.capacity = 0 THEN allocTable(kInitialCapacity) ELSE h.primary,
        h.rehash)

\* The old table loses the key (it is about to be written to primary) and
\* primary is allocated on first use.
beforeInsert(h, k) ==
    withTables(h,
        IF h.primary.capacity = 0 THEN allocTable(kInitialCapacity) ELSE h.primary,
        IF h.isRehashing THEN delFromTable(h.rehash, k) ELSE h.rehash)

\* k's entry becomes `new' where it stands.
replaceEntry(t, k, new) ==
    [slots    |-> [i \in DOMAIN t.slots |->
                      {IF e.key = k THEN new ELSE e : e \in t.slots[i]}],
     capacity |-> t.capacity,
     size     |-> t.size]

\* The value of k's entry changes in place; its deadline is preserved.
overwrite(t, k, v) ==
    LET existing == CHOOSE e \in findInTable(t, k) : TRUE
    IN  replaceEntry(t, k, [existing EXCEPT !.value = v])

insertNew(h, k, v) ==
    LET e == [key |-> k, value |-> v, expireAt |-> NoExpiry]
        g == withTables(h, insertAll(h.primary, {e}), h.rehash)
    IN  IF ~g.isRehashing /\ g.primary.size > kMaxLoadFactor * g.primary.capacity
        THEN triggerRehash(g) ELSE g

\* Mutant: an insertion does not advance the migration.
setWithoutStep(h, k, v) ==
    LET g == beforeInsert(h, k) IN
    IF findInTable(g.primary, k) # {}
    THEN withTables(g, overwrite(g.primary, k, v), g.rehash)
    ELSE insertNew(g, k, v)

set(h, k, v) ==
    LET g == beforeInsert(rehashStep(h), k) IN
    IF findInTable(g.primary, k) # {}
    THEN withTables(g, overwrite(g.primary, k, v), g.rehash)
    ELSE insertNew(g, k, v)

\* Mutant: a key that is still in the old table is not deleted.
delPrimaryOnly(h, k) ==
    LET g == rehashStep(h) IN
    withTables(g, delFromTable(g.primary, k), g.rehash)

del(h, k) ==
    LET g == rehashStep(h) IN
    IF findInTable(g.primary, k) # {} \/ ~g.isRehashing
    THEN withTables(g, delFromTable(g.primary, k), g.rehash)
    ELSE withTables(g, g.primary, delFromTable(g.rehash, k))

flushAll(h) ==
    [primary |-> freeTable(h.primary), rehash |-> freeTable(h.rehash),
     isRehashing |-> FALSE, rehashIdx |-> 0]

\* A caller writes the value or the deadline through the HTEntry* of find.
assign(h, k, v, d) ==
    LET new == [key |-> k, value |-> v, expireAt |-> d] IN
    IF findInTable(h.primary, k) # {}
    THEN withTables(h, replaceEntry(h.primary, k, new), h.rehash)
    ELSE withTables(h, h.primary, replaceEntry(h.rehash, k, new))

-----------------------------------------------------------------------------
(* The state machine: the calls store/Database makes, in any order. *)

Init == ht = EmptyHT

Set(k, v) == ht' = set(ht, k, v)

Del(k) == ht' = del(ht, k)

\* Mutant: an idle server does not go on with a rehash.
TickNothing == ht' = ht

\* Every read of Database (get, exists, keys, scan, findEntry) and every pass of
\* the event loop runs rehashStep.
Tick == ht' = rehashStep(ht)

FlushAll == ht' = flushAll(ht)

Assign(k, v, d) == find(ht, k) # {} /\ ht' = assign(ht, k, v, d)

Next ==
    \/ \E k \in Key, v \in Value : Set(k, v)
    \/ \E k \in Key : Del(k)
    \/ \E k \in Key, v \in Value, d \in Deadline \cup {NoExpiry} : Assign(k, v, d)
    \/ Tick
    \/ FlushAll

Spec == Init /\ [][Next]_ht

\* main.cpp calls db.rehashStep() at the end of every pass of the event loop.
FairSpec == Spec /\ WF_ht(Tick)

-----------------------------------------------------------------------------
(* Properties. *)

Table(t) ==
    /\ t.capacity \in Nat
    /\ t.slots \in [0..(t.capacity - 1) -> SUBSET Entry]
    /\ t.size \in Nat

\* Every entry sits in the slot that findInTable will look in.
InSlot(t) ==
    \A i \in DOMAIN t.slots : \A e \in t.slots[i] : slotOf(e.key, t.capacity) = i

\* A table's counter is the number of entries its chains hold.
SizeExact(t) ==
    /\ IsFiniteSet(tableEntries(t))
    /\ t.size = Cardinality(tableEntries(t))

GoodTable(t) == Table(t) /\ InSlot(t) /\ SizeExact(t)

Shape(h) ==
    /\ h = [primary |-> h.primary, rehash |-> h.rehash,
            isRehashing |-> h.isRehashing, rehashIdx |-> h.rehashIdx]
    /\ h.isRehashing \in BOOLEAN
    /\ h.rehashIdx \in Nat

\* No key has two entries, in one chain or in the two tables together.
Unique(h) ==
    /\ \A e, f \in entries(h) : e.key = f.key => e = f
    /\ tableEntries(h.primary) \cap tableEntries(h.rehash) = {}

\* The old table exists exactly while rehashing, the new one is twice as large,
\* and the slots below rehashIdx, which migrateOneSlot never visits again, are
\* empty.
Progress(h) ==
    IF h.isRehashing
    THEN /\ h.rehash.capacity > 0
         /\ h.primary.capacity = 2 * h.rehash.capacity
         /\ h.rehashIdx < h.rehash.capacity
         /\ \A i \in 0..(h.rehashIdx - 1) : h.rehash.slots[i] = {}
    ELSE /\ h.rehash = NullTable
         /\ h.rehashIdx = 0

\* Every insertion during a rehash advances rehashIdx, so a rehash ends before
\* the next one is due.
Load(h) ==
    IF h.isRehashing
    THEN size(h) <= kMaxLoadFactor * h.rehash.capacity + 1 + h.rehashIdx
    ELSE size(h) <= kMaxLoadFactor * h.primary.capacity

\* Everything but the load.
Sound(h) ==
    /\ Shape(h)
    /\ GoodTable(h.primary) /\ GoodTable(h.rehash)
    /\ Unique(h)
    /\ Progress(h)

\* Type correctness; a table counter that wrapped below zero is not a Nat.
TypeOK == Shape(ht) /\ Table(ht.primary) /\ Table(ht.rehash)

\* The inductive invariant: the counters are exact and every entry is in the slot
\* its hash selects; no key has two entries, in one chain or across the two
\* tables, so that no deleted key comes back to life; no slot that the migration
\* has passed holds an entry, so that none is lost when the old table is freed;
\* and the load is bounded by how far the migration has come.
IInv == Sound(ht) /\ Load(ht)

\* find returns the entry of every stored key and nothing for an absent one, and
\* size() is the number of stored keys, at every point of a rehash.
ReadsAgree ==
    /\ \A k \in Key : find(ht, k) = {e \in entries(ht) : e.key = k}
    /\ size(ht) = Cardinality(entries(ht))

\* Chains stay short on average: although no rehash can start while another is
\* running, the table never holds more than kMaxLoadFactor entries per slot.
LoadBounded == size(ht) <= kMaxLoadFactor * ht.primary.capacity

\* The two-table machine implements the map of KeyspaceMap: no operation, and no
\* step of a rehash, loses, duplicates or alters an entry it is not asked to.
Map == INSTANCE KeyspaceMap WITH store <- entries(ht)
MapSpec == Map!Spec

\* Each call does to the entries what the map's operation does, neither less nor
\* more, at every point of a rehash: a deleted key is gone from both tables, and a
\* step of the migration alone changes nothing a caller can see.
CallsAgree ==
    [][/\ \A k \in Key, v \in Value : Set(k, v) => Map!Put(k, v)
       /\ \A k \in Key : Del(k) => Map!Remove(k)
       /\ \A k \in Key, v \in Value, d \in Deadline \cup {NoExpiry} :
             Assign(k, v, d) => Map!Assign(k, v, d)
       /\ Tick => entries(ht') = entries(ht)
       /\ FlushAll => Map!Clear]_ht

\* A rehash that has begun ends: no schedule of calls keeps the server probing
\* two tables for ever.
RehashCompletes == ht.isRehashing ~> ~ht.isRehashing
=============================================================================
