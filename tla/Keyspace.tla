------------------------------ MODULE Keyspace ------------------------------
(***************************************************************************)
(* The operations of store/Database as functions of its state: the table   *)
(* seen as the map of KeyspaceMap, the TTL heap seen as the queue of       *)
(* DeadlineQueue, and the memory counter.                                  *)
(*                                                                         *)
(* A value is its type and its number of items: the members of a           *)
(* container, and for a string 1 if it has bytes of its own (RAW encoding) *)
(* and 0 if it is held inline (INTEGER encoding).                          *)
(***************************************************************************)
EXTENDS Integers, FiniteSets

CONSTANTS
    Key,
    Container,      \* the container types in use: LIST, HASH, SET, ZSET
    SizeMod         \* size_t is unsigned and wraps at SizeMod

ASSUME ContainerAssumption == "STRING" \notin Container
ASSUME SizeAssumption == SizeMod \in Nat \ {0}

NoExpiry == -1

Object == [type : {"STRING"} \cup Container, items : Nat]
Entry == [key : Key, value : Object, expireAt : Int]
Node == [key : Key, expireAtMs : Int]

EmptyDb == [store |-> {}, queue |-> {}, usedMemory |-> 0]

\* find: the entry of k as a set of at most one element.
at(d, k) == {e \in d.store : e.key = k}

keysOf(d) == {e.key : e \in d.store}

\* The estimate grows with every item of the value.
memoryUsage(v) == 1 + v.items

\* What all entries of a set occupy: their units of memory, counted.
units(entries) == UNION {{e} \X (1..memoryUsage(e.value)) : e \in entries}
memTotal(entries) == Cardinality(units(entries))

\* heap.remove(k) and table.del(k).
storeWithout(d, k) == {e \in d.store : e.key # k}
queueWithout(d, k) == {q \in d.queue : q.key # k}

\* Mutant: the counter does not wrap.
lessMemoryNoWrap(d, entries) == d.usedMemory - memTotal(entries)

\* `if (entry) usedMemory_ -= entry->value.memoryUsage()', for the entries given;
\* size_t wraps.
lessMemory(d, entries) == (d.usedMemory - memTotal(entries)) % SizeMod

del(d, k) ==
    [store      |-> storeWithout(d, k),
     queue      |-> queueWithout(d, k),
     usedMemory |-> lessMemory(d, at(d, k))]

\* del for every key of K, the loops of cmdDel and activeExpireCycle.
delAll(d, K) ==
    [store      |-> {e \in d.store : e.key \notin K},
     queue      |-> {q \in d.queue : q.key \notin K},
     usedMemory |-> lessMemory(d, {e \in d.store : e.key \in K})]

\* The test of checkAndExpire: a negative deadline counts as none.
expired(e, t) == e.expireAt >= 0 /\ t >= e.expireAt

\* Mutant: a key that expires lazily stays accounted for.
checkAndExpireNoMemory(d, k, t) ==
    IF \E e \in at(d, k) : expired(e, t)
    THEN [store |-> storeWithout(d, k), queue |-> queueWithout(d, k),
          usedMemory |-> d.usedMemory]
    ELSE d

\* find followed by checkAndExpire at clock reading t, the common beginning of
\* get, exists, findEntry and setExpire: an expired key goes the way of del.
checkAndExpire(d, k, t) ==
    IF \E e \in at(d, k) : expired(e, t) THEN del(d, k) ELSE d

\* Mutant: SET leaves the key's old deadline in the heap.
setKeepsNode(d, k, v) ==
    [store      |-> storeWithout(d, k)
                      \cup {[key |-> k, value |-> v, expireAt |-> NoExpiry]},
     queue      |-> d.queue,
     usedMemory |-> (lessMemory(d, at(d, k)) + memoryUsage(v)) % SizeMod]

\* set: the value is replaced and the deadline cleared, in table and heap.
set(d, k, v) ==
    [store      |-> storeWithout(d, k)
                      \cup {[key |-> k, value |-> v, expireAt |-> NoExpiry]},
     queue      |-> queueWithout(d, k),
     usedMemory |-> (lessMemory(d, at(d, k)) + memoryUsage(v)) % SizeMod]

\* setObject, which the commands only call for a key that findEntry did not find.
setObject(d, k, v) ==
    [store      |-> storeWithout(d, k)
                      \cup {[key |-> k, value |-> v, expireAt |-> NoExpiry]},
     queue      |-> d.queue,
     usedMemory |-> (lessMemory(d, at(d, k)) + memoryUsage(v)) % SizeMod]

\* A command changes a container through the HTEntry*; no counter follows.
edit(d, k, n) ==
    [store      |-> {IF e.key = k THEN [e EXCEPT !.value.items = n] ELSE e : e \in d.store},
     queue      |-> d.queue,
     usedMemory |-> d.usedMemory]

\* The rest of setExpire: the deadline goes to the entry and to the heap.
deadline(d, k, ms) ==
    [store      |-> {IF e.key = k THEN [e EXCEPT !.expireAt = ms] ELSE e : e \in d.store},
     queue      |-> queueWithout(d, k) \cup {[key |-> k, expireAtMs |-> ms]},
     usedMemory |-> d.usedMemory]

\* ttl cleans up an expired key without touching the memory counter.
ttlExpire(d, k) ==
    [store      |-> storeWithout(d, k),
     queue      |-> queueWithout(d, k),
     usedMemory |-> d.usedMemory]
=============================================================================
