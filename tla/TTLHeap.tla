------------------------------ MODULE TTLHeap ------------------------------
(***************************************************************************)
(* store/TTLHeap: a binary min-heap in an array with a map from every key  *)
(* to its position.  A call's straight-line part is one action; each       *)
(* iteration of siftUp, siftDown and of the loop of popExpired is a step.  *)
(***************************************************************************)
EXTENDS Integers

CONSTANTS
    Key,
    Time,           \* the deadlines and clock readings
    MaxWork         \* the maxWork arguments of popExpired

ASSUME TimeAssumption == Time \subseteq Int
ASSUME WorkAssumption == MaxWork \subseteq Nat

VARIABLES
    n,              \* heap_.size()
    heap,           \* heap_, positions 0..n-1
    keyToIndex,     \* keyToIndex_, None for a key it does not hold
    call            \* the call in progress

vars == <<n, heap, keyToIndex, call>>

None == -1
Node == [key : Key, expireAtMs : Time]

\* A call: the loop it is in, the position of that loop, the position the sifts
\* were called with, what follows the present sift, and for popExpired its clock
\* reading and the work left.
Phase == {"idle", "up", "down", "pop"}
Calling(phase, i, then) ==
    [phase |-> phase, idx |-> i, start |-> i, then |-> then, now |-> None, left |-> 0]
Idle == Calling("idle", 0, "idle")

Parent(i) == (i - 1) \div 2

Due(i) == heap[i].expireAtMs

Init ==
    /\ n = 0
    /\ heap = [i \in 0..(-1) |-> None]
    /\ keyToIndex = [k \in Key |-> None]
    /\ call = Idle

-----------------------------------------------------------------------------
\* Mutant: push does not look for the key in the map first.
PushAgain(k, d) ==
    /\ call.phase = "idle"
    /\ n' = n + 1
    /\ heap' = [i \in 0..n |->
                   IF i = n THEN [key |-> k, expireAtMs |-> d] ELSE heap[i]]
    /\ keyToIndex' = [keyToIndex EXCEPT ![k] = n]
    /\ call' = Calling("up", n, "idle")

\* push of a key that is not in the heap: append, then siftUp.
Push(k, d) ==
    /\ call.phase = "idle"
    /\ keyToIndex[k] = None
    /\ n' = n + 1
    /\ heap' = [i \in 0..n |->
                   IF i = n THEN [key |-> k, expireAtMs |-> d] ELSE heap[i]]
    /\ keyToIndex' = [keyToIndex EXCEPT ![k] = n]
    /\ call' = Calling("up", n, "idle")

\* push of a key that is, or update: siftUp, then siftDown, both from its index.
Update(k, d) ==
    LET i == keyToIndex[k] IN
    /\ call.phase = "idle"
    /\ i # None
    /\ heap' = [heap EXCEPT ![i] = [key |-> k, expireAtMs |-> d]]
    /\ call' = Calling("up", i, "down")
    /\ UNCHANGED <<n, keyToIndex>>

\* swapEntries(i, last), erase, pop_back: the last node takes position i.
takeOut(i) ==
    LET last == n - 1 IN
    /\ n' = last
    /\ heap' = [j \in 0..(last - 1) |-> IF j = i THEN heap[last] ELSE heap[j]]
    /\ keyToIndex' = [k \in Key |-> IF k = heap[i].key THEN None
                                    ELSE IF k = heap[last].key THEN i
                                    ELSE keyToIndex[k]]

\* Mutant: the node that fills the hole is only sifted down.
RemoveDownOnly(k) ==
    LET i == keyToIndex[k] IN
    /\ call.phase = "idle"
    /\ i # None
    /\ takeOut(i)
    /\ call' = IF i < n - 1 THEN Calling("down", i, "idle") ELSE Idle

\* remove: siftDown, then siftUp, both from the freed index.
Remove(k) ==
    LET i == keyToIndex[k] IN
    /\ call.phase = "idle"
    /\ i # None
    /\ takeOut(i)
    /\ call' = IF i < n - 1 THEN Calling("down", i, "up") ELSE Idle

swapEntries(a, b) ==
    /\ heap' = [heap EXCEPT ![a] = heap[b], ![b] = heap[a]]
    /\ keyToIndex' = [keyToIndex EXCEPT ![heap[b].key] = a, ![heap[a].key] = b]
    /\ n' = n

\* A sift has ended: the other one starts from the same index, popExpired goes on
\* with its loop, or the call returns.
endSift ==
    /\ call' = [call EXCEPT !.phase = call.then, !.idx = call.start,
                            !.then = IF call.then = "pop" THEN "pop" ELSE "idle"]
    /\ UNCHANGED <<n, heap, keyToIndex>>

rises(i) == i > 0 /\ Due(i) < Due(Parent(i))

\* One iteration of siftUp.
SiftUp ==
    LET i == call.idx IN
    /\ call.phase = "up"
    /\ IF rises(i)
       THEN /\ swapEntries(i, Parent(i))
            /\ call' = [call EXCEPT !.idx = Parent(i)]
       ELSE endSift

\* The smallest of node i and its children, the node itself on a tie.
smallest(i) ==
    LET l == 2 * i + 1
        r == 2 * i + 2
        s == IF l < n /\ Due(l) < Due(i) THEN l ELSE i
    IN  IF r < n /\ Due(r) < Due(s) THEN r ELSE s

\* One iteration of siftDown.
SiftDown ==
    LET i == call.idx IN
    /\ call.phase = "down"
    /\ IF smallest(i) # i
       THEN /\ swapEntries(i, smallest(i))
            /\ call' = [call EXCEPT !.idx = smallest(i)]
       ELSE endSift

\* popExpired(now, maxWork).
PopExpired(now, maxWork) ==
    /\ call.phase = "idle"
    /\ call' = [Calling("pop", 0, "pop") EXCEPT !.now = now, !.left = maxWork]
    /\ UNCHANGED <<n, heap, keyToIndex>>

\* Mutant: a deadline equal to the clock reading is not due yet.
popMoreStrict == n > 0 /\ call.left > 0 /\ Due(0) < call.now

\* Mutant: the deadline of the root is not looked at.
popMoreAlways == n > 0 /\ call.left > 0

popMore == n > 0 /\ call.left > 0 /\ Due(0) <= call.now

\* One iteration of its loop: the root leaves and the heap is restored.
PopRoot ==
    /\ call.phase = "pop"
    /\ popMore
    /\ takeOut(0)
    /\ call' = [call EXCEPT !.phase = IF n > 1 THEN "down" ELSE "pop",
                            !.left = call.left - 1]

PopReturn ==
    /\ call.phase = "pop"
    /\ ~popMore
    /\ call' = Idle
    /\ UNCHANGED <<n, heap, keyToIndex>>

Next ==
    \/ \E k \in Key, d \in Time : Push(k, d) \/ Update(k, d)
    \/ \E k \in Key : Remove(k)
    \/ \E now \in Time, w \in MaxWork : PopExpired(now, w)
    \/ SiftUp
    \/ SiftDown
    \/ PopRoot
    \/ PopReturn

Spec == Init /\ [][Next]_vars

-----------------------------------------------------------------------------
(* Properties. *)

\* Type correctness.
TypeOK ==
    /\ n \in Nat
    /\ heap \in [0..(n - 1) -> Node]
    /\ keyToIndex \in [Key -> Nat \cup {None}]
    /\ call \in [phase : Phase, idx : Nat, start : Nat, then : Phase,
                 now : Time \cup {None}, left : Nat]

\* INV-2 and INV-3 of the code, in the middle of every sift too: the map holds
\* exactly the keys of the array, each at its position.
IndexSync ==
    /\ \A i \in 0..(n - 1) : keyToIndex[heap[i].key] = i
    /\ \A k \in Key : keyToIndex[k] # None =>
          keyToIndex[k] \in 0..(n - 1) /\ heap[keyToIndex[k]].key = k

OrderedAt(i) == Due(Parent(i)) <= Due(i)

\* INV-1: whenever a call returns, and whenever popExpired looks at the root, no
\* node is due before its parent, although remove and update sift both ways from
\* the same index without knowing which way is needed.
HeapOrdered ==
    call.phase \in {"idle", "pop"} => \A i \in 1..(n - 1) : OrderedAt(i)

\* While a node at x is being sifted only its own edges may be out of order, and
\* the nodes below it are not due before the one above it.
OrderedExcept(x) ==
    /\ \A i \in 1..(n - 1) : i # x /\ Parent(i) # x => OrderedAt(i)
    /\ x > 0 => \A i \in 1..(n - 1) : Parent(i) = x => Due(Parent(x)) <= Due(i)

AboveOrdered(x) == x > 0 => OrderedAt(x)
BelowOrdered(x) == \A i \in 1..(n - 1) : Parent(i) = x => OrderedAt(i)

\* The edges of the sifted node that are known to be in order: all those behind
\* it once it has moved, and those the first of two sifts has put right.
SiftProgress ==
    /\ call.phase = "up" =>
          /\ call.idx < n /\ call.start < n /\ OrderedExcept(call.idx)
          /\ call.idx # call.start \/ call.then = "idle" => BelowOrdered(call.idx)
    /\ call.phase = "down" =>
          /\ call.idx < n /\ call.start < n /\ OrderedExcept(call.idx)
          /\ call.idx # call.start \/ call.then # "up" => AboveOrdered(call.idx)
    /\ call.phase = "up" => call.then \in {"idle", "down"}
    /\ call.phase = "down" => call.then \in {"idle", "up", "pop"}

\* popExpired sifts from the root only and always comes back to its loop.
PopProgress ==
    /\ call.phase = "pop" => call.idx = 0 /\ call.then = "pop"
    /\ call.then = "pop" => call.start = 0

\* The inductive invariant.
IInv == TypeOK /\ IndexSync /\ HeapOrdered /\ SiftProgress /\ PopProgress

contents == {heap[i] : i \in 0..(n - 1)}

\* The heap implements the deadline queue: sifting never loses, duplicates or
\* alters a deadline, and a key has one deadline at most.
Queue == INSTANCE DeadlineQueue WITH queue <- contents
QueueSpec == Queue!Spec

\* popExpired only takes a node that is due, and none that is due earlier stays
\* behind: keys expire in the order of their deadlines.
PopInOrder ==
    [][PopRoot => /\ Queue!PopEarliest
                  /\ \A e \in contents \ contents' : e.expireAtMs <= call.now]_vars

\* When popExpired returns with work to spare, nothing that is due is left behind
\* anywhere in the array.
PopDrains ==
    [][PopReturn => \/ call.left = 0
                    \/ \A i \in 0..(n - 1) : Due(i) > call.now]_vars
=============================================================================
