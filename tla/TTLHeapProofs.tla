--------------------------- MODULE TTLHeapProofs ---------------------------
(***************************************************************************)
(* TTLHeap keeps the heap order and the position map, and implements       *)
(* DeadlineQueue, for every set of keys and deadlines.                     *)
(***************************************************************************)
EXTENDS TTLHeap, NatLemmas, TLAPS

\* The shape of the tree.
LEMMA ParentFacts ==
    /\ \A i \in Nat : i > 0 => Parent(i) \in Nat /\ Parent(i) < i
    /\ \A i, c \in Nat : c > 0 => (Parent(c) = i <=> c = 2 * i + 1 \/ c = 2 * i + 2)
  BY DEF Parent

\* The root is the earliest deadline of an ordered heap.
LEMMA RootEarliest ==
    ASSUME TypeOK, \A i \in 1..(n - 1) : OrderedAt(i)
    PROVE  \A i \in 0..(n - 1) : Due(0) <= Due(i)
  <1> SUFFICES ASSUME ~ \A i \in 0..(n - 1) : Due(0) <= Due(i) PROVE FALSE
    OBVIOUS
  <1> DEFINE T == {i \in 0..(n - 1) : ~(Due(0) <= Due(i))}
  <1>1. T \in SUBSET Nat /\ T # {}
    BY DEF TypeOK
  <1>2. PICK x \in T : \A y \in T : x <= y
    BY <1>1, LeastNat
  <1>3. \A i \in 0..(n - 1) : Due(i) \in Int
    BY TimeAssumption DEF TypeOK, Node, Due
  <1>4. x # 0 /\ x \in 1..(n - 1)
    BY <1>2, <1>3 DEF TypeOK
  <1>5. Parent(x) \in 0..(n - 1) /\ Parent(x) < x
    BY <1>4, ParentFacts DEF TypeOK
  <1>6. Parent(x) \notin T
    BY <1>2, <1>5
  <1>7. Due(0) <= Due(Parent(x)) /\ Due(Parent(x)) <= Due(x)
    BY <1>4, <1>5, <1>6 DEF OrderedAt
  <1>8. Due(0) <= Due(x)
    <2>1. 0 \in 0..(n - 1)
      BY <1>4 DEF TypeOK
    <2>2. Due(0) \in Int /\ Due(x) \in Int /\ Due(Parent(x)) \in Int
      BY <1>3, <1>4, <1>5, <2>1
    <2> QED
      BY <1>7, <2>2
  <1> QED
    BY <1>2, <1>8

\* A swap exchanges two nodes, and the map follows.
LEMMA SwapEffect ==
    ASSUME TypeOK, IndexSync, NEW a \in 0..(n - 1), NEW b \in 0..(n - 1), a # b,
           swapEntries(a, b)
    PROVE  /\ n' = n
           /\ heap' \in [0..(n - 1) -> Node]
           /\ heap'[a] = heap[b] /\ heap'[b] = heap[a]
           /\ \A i \in 0..(n - 1) : i # a /\ i # b => heap'[i] = heap[i]
           /\ keyToIndex' \in [Key -> Nat \cup {None}]
           /\ IndexSync'
           /\ contents' = contents
  <1>1. /\ n' = n
        /\ heap' \in [0..(n - 1) -> Node]
        /\ heap'[a] = heap[b] /\ heap'[b] = heap[a]
        /\ \A i \in 0..(n - 1) : i # a /\ i # b => heap'[i] = heap[i]
    BY DEF swapEntries, TypeOK
  <1>2. heap[a].key \in Key /\ heap[b].key \in Key /\ heap[a].key # heap[b].key
    BY DEF TypeOK, Node, IndexSync
  <1>3. /\ keyToIndex' \in [Key -> Nat \cup {None}]
        /\ keyToIndex'[heap[b].key] = a
        /\ keyToIndex'[heap[a].key] = b
        /\ \A k \in Key : k # heap[a].key /\ k # heap[b].key =>
              keyToIndex'[k] = keyToIndex[k]
    BY <1>2 DEF swapEntries, TypeOK
  <1>4. ASSUME NEW i \in 0..(n - 1) PROVE keyToIndex'[heap'[i].key] = i
    <2>1. heap[i].key \in Key
      BY DEF TypeOK, Node
    <2>2. i # a /\ i # b => heap[i].key # heap[a].key /\ heap[i].key # heap[b].key
      BY DEF IndexSync
    <2> QED
      BY <1>1, <1>3, <2>1, <2>2 DEF IndexSync
  <1>5. ASSUME NEW k \in Key, keyToIndex'[k] # None
        PROVE  keyToIndex'[k] \in 0..(n - 1) /\ heap'[keyToIndex'[k]].key = k
    <2>1. CASE k = heap[a].key \/ k = heap[b].key
      BY <1>1, <1>3, <2>1
    <2>2. CASE k # heap[a].key /\ k # heap[b].key
      <3>1. keyToIndex'[k] = keyToIndex[k]
        BY <1>3, <2>2
      <3>2. keyToIndex[k] \in 0..(n - 1) /\ heap[keyToIndex[k]].key = k
        BY <1>5, <3>1 DEF IndexSync
      <3>3. keyToIndex[k] # a /\ keyToIndex[k] # b
        BY <2>2, <3>2
      <3> QED
        BY <1>1, <3>1, <3>2, <3>3
    <2> QED
      BY <2>1, <2>2
  <1>6. IndexSync'
    BY <1>1, <1>4, <1>5 DEF IndexSync
  <1>7. contents' = contents
    <2>1. contents' = {heap'[i] : i \in 0..(n - 1)}
      BY <1>1 DEF contents
    <2>2. \A x : x \in {heap'[i] : i \in 0..(n - 1)} <=> x \in {heap[i] : i \in 0..(n - 1)}
      BY <1>1
    <2> QED
      BY <2>1, <2>2 DEF contents
  <1> QED
    BY <1>1, <1>3, <1>6, <1>7

\* A deadline is an integer.
LEMMA DueInt ==
    ASSUME TypeOK
    PROVE  \A i \in 0..(n - 1) : Due(i) \in Int
  BY TimeAssumption DEF TypeOK, Node, Due

\* One iteration of siftUp that moves the node: the edge to its old parent is put
\* right and only the new one is in doubt.
LEMMA SiftUpMove ==
    ASSUME TypeOK, IndexSync, NEW x \in 0..(n - 1), OrderedExcept(x), rises(x),
           swapEntries(x, Parent(x))
    PROVE  Parent(x) \in 0..(n - 1) /\ OrderedExcept(Parent(x))' /\ BelowOrdered(Parent(x))'
  <1> DEFINE p == Parent(x)
  <1>1. x > 0 /\ p \in 0..(n - 1) /\ p < x
    BY ParentFacts DEF rises, TypeOK
  <1>2. /\ n' = n
        /\ Due(x)' = Due(p) /\ Due(p)' = Due(x)
        /\ \A i \in 0..(n - 1) : i # x /\ i # p => Due(i)' = Due(i)
    BY <1>1, SwapEffect DEF Due
  <1>3. \A i \in 0..(n - 1) : Due(i) \in Int
    BY DueInt
  <1>4. Due(x) < Due(p)
    BY DEF rises
  <1>5. \A i \in 1..(n - 1) : Parent(i) \in 0..(n - 1) /\ Parent(i) < i
    BY ParentFacts DEF TypeOK
  <1>6. \A i \in 1..(n - 1) : i # x /\ Parent(i) # x => Due(Parent(i)) <= Due(i)
    BY DEF OrderedExcept, OrderedAt
  <1>7. \A i \in 1..(n - 1) : Parent(i) = x => Due(p) <= Due(i)
    BY <1>1 DEF OrderedExcept
  <1>8. ASSUME NEW i \in 1..(n - 1), Parent(i) = p
        PROVE  Due(p)' <= Due(i)'
    <2>1. CASE i = x
      BY <1>1, <1>2, <1>3, <1>4, <2>1
    <2>2. CASE i # x
      <3>1. i \in 0..(n - 1) /\ i # p
        BY <1>5, <1>8
      <3>2. Due(p) <= Due(i)
        BY <1>1, <1>6, <1>8, <2>2
      <3> QED
        BY <1>1, <1>2, <1>3, <1>4, <2>2, <3>1, <3>2
    <2> QED
      BY <2>1, <2>2
  <1>9. ASSUME NEW i \in 1..(n - 1), i # p, Parent(i) # p
        PROVE  Due(Parent(i))' <= Due(i)'
    <2>0. i \in 0..(n - 1) /\ i # x
      BY <1>9
    <2>1. Due(i)' = Due(i)
      BY <1>2, <1>9, <2>0
    <2>2. CASE Parent(i) = x
      <3>1. Due(Parent(i))' = Due(p)
        BY <1>2, <2>2
      <3> QED
        BY <1>7, <2>1, <2>2, <3>1
    <2>3. CASE Parent(i) # x
      <3>1. Due(Parent(i))' = Due(Parent(i))
        BY <1>2, <1>5, <1>9, <2>3
      <3> QED
        BY <1>6, <2>0, <2>1, <2>3, <3>1
    <2> QED
      BY <2>2, <2>3
  <1>10. ASSUME NEW i \in 1..(n - 1), Parent(i) = p, p > 0
         PROVE  Due(Parent(p))' <= Due(i)'
    <2>1. p \in 1..(n - 1) /\ Parent(p) \in 0..(n - 1) /\ Parent(p) < p
      BY <1>1, <1>5, <1>10
    <2>2. Due(Parent(p))' = Due(Parent(p)) /\ Due(Parent(p)) <= Due(p)
      BY <1>1, <1>2, <1>6, <2>1
    <2>3. CASE i = x
      BY <1>2, <2>2, <2>3
    <2>4. CASE i # x
      <3>1. i \in 0..(n - 1) /\ i # p
        BY <1>5, <1>10
      <3>2. Due(i)' = Due(i) /\ Due(p) <= Due(i)
        BY <1>1, <1>2, <1>6, <1>10, <2>4, <3>1
      <3> QED
        BY <1>1, <1>3, <2>1, <2>2, <3>1, <3>2
    <2> QED
      BY <2>3, <2>4
  <1> QED
    BY <1>1, <1>2, <1>8, <1>9, <1>10 DEF OrderedExcept, BelowOrdered, OrderedAt

\* What smallest returns: the node itself when no child is due before it, and
\* otherwise a child that is due before it and not after its sibling.
LEMMA SmallestFacts ==
    ASSUME TypeOK, NEW x \in 0..(n - 1)
    PROVE  /\ smallest(x) = x => BelowOrdered(x)
           /\ smallest(x) # x =>
                 /\ smallest(x) \in 1..(n - 1)
                 /\ Parent(smallest(x)) = x
                 /\ Due(smallest(x)) < Due(x)
                 /\ \A i \in 1..(n - 1) : Parent(i) = x => Due(smallest(x)) <= Due(i)
  <1> DEFINE l == 2 * x + 1
             r == 2 * x + 2
             s == IF l < n /\ Due(l) < Due(x) THEN l ELSE x
  <1>1. smallest(x) = IF r < n /\ Due(r) < Due(s) THEN r ELSE s
    BY DEF smallest
  <1>2. \A i \in 0..(n - 1) : Due(i) \in Int
    BY DueInt
  <1>3. n \in Nat /\ x \in Nat /\ l \in Nat /\ r \in Nat /\ l > 0 /\ r > 0 /\ l # x /\ r # x
    BY DEF TypeOK
  <1>4. \A i \in 1..(n - 1) : Parent(i) = x <=> i = l \/ i = r
    BY <1>3, ParentFacts
  <1>5. /\ l < n => l \in 1..(n - 1) /\ l \in 0..(n - 1)
        /\ r < n => r \in 1..(n - 1) /\ r \in 0..(n - 1)
        /\ \A i \in 1..(n - 1) : i < n
    BY <1>3
  <1> HIDE DEF l, r
  <1>6. CASE r < n /\ Due(r) < Due(s)
    <2>1. smallest(x) = r
      BY <1>1, <1>6
    <2>2. Due(r) < Due(x)
      BY <1>2, <1>5, <1>6
    <2>3. l < n => Due(r) <= Due(l)
      BY <1>2, <1>5, <1>6
    <2> QED
      BY <1>2, <1>3, <1>4, <1>5, <1>6, <2>1, <2>2, <2>3
  <1>7. CASE ~(r < n /\ Due(r) < Due(s)) /\ l < n /\ Due(l) < Due(x)
    <2>1. smallest(x) = l
      BY <1>1, <1>7
    <2>2. r < n => Due(l) <= Due(r)
      BY <1>2, <1>5, <1>7
    <2> QED
      BY <1>2, <1>3, <1>4, <1>5, <1>7, <2>1, <2>2
  <1>8. CASE ~(r < n /\ Due(r) < Due(s)) /\ ~(l < n /\ Due(l) < Due(x))
    <2>1. smallest(x) = x
      BY <1>1, <1>8
    <2>2. (r < n => Due(x) <= Due(r)) /\ (l < n => Due(x) <= Due(l))
      BY <1>2, <1>5, <1>8
    <2>3. BelowOrdered(x)
      BY <1>4, <1>5, <2>2 DEF BelowOrdered, OrderedAt
    <2> QED
      BY <2>1, <2>3
  <1> QED
    BY <1>6, <1>7, <1>8

\* One iteration of siftDown that moves the node.
LEMMA SiftDownMove ==
    ASSUME TypeOK, IndexSync, NEW x \in 0..(n - 1), OrderedExcept(x), smallest(x) # x,
           swapEntries(x, smallest(x))
    PROVE  /\ smallest(x) \in 0..(n - 1)
           /\ \A y \in 0..(n - 1) : y = smallest(x) =>
                 OrderedExcept(y)' /\ AboveOrdered(y)'
  <1> DEFINE s == smallest(x)
  <1>1. /\ s \in 1..(n - 1) /\ s \in 0..(n - 1) /\ Parent(s) = x /\ Due(s) < Due(x)
        /\ \A i \in 1..(n - 1) : Parent(i) = x => Due(s) <= Due(i)
    BY SmallestFacts DEF TypeOK
  <1>2. /\ n' = n
        /\ Due(x)' = heap[s].expireAtMs
        /\ \A i \in 0..(n - 1) : i = s => Due(i)' = Due(x)
        /\ \A i \in 0..(n - 1) : i # x /\ i # s => Due(i)' = Due(i)
    BY <1>1, SwapEffect DEF Due
  <1>3. \A i \in 0..(n - 1) : Due(i) \in Int
    BY DueInt
  <1>4. \A i \in 1..(n - 1) : Parent(i) \in 0..(n - 1) /\ Parent(i) < i
    BY ParentFacts DEF TypeOK
  <1>5. \A i \in 1..(n - 1) : i # x /\ Parent(i) # x => Due(Parent(i)) <= Due(i)
    BY DEF OrderedExcept, OrderedAt
  <1>6. x > 0 => \A i \in 1..(n - 1) : Parent(i) = x => Due(Parent(x)) <= Due(i)
    BY DEF OrderedExcept
  <1> SUFFICES ASSUME NEW y \in 0..(n - 1), y = s
               PROVE  OrderedExcept(y)' /\ AboveOrdered(y)'
    BY <1>1
  <1> HIDE DEF s
  <1>7. Due(x)' = Due(y) /\ Due(y)' = Due(x) /\ Due(y) < Due(x) /\ y \in 1..(n - 1)
        /\ Parent(y) = x /\ x < y
    BY <1>1, <1>2, <1>4 DEF Due
  <1>8. \A i \in 1..(n - 1) : Parent(i) = x => Due(y) <= Due(i)
    BY <1>1
  <1>9. ASSUME NEW i \in 1..(n - 1), i # y, Parent(i) # y
        PROVE  Due(Parent(i))' <= Due(i)'
    <2>1. i \in 0..(n - 1)
      OBVIOUS
    <2>2. CASE i = x
      <3>1. x > 0 /\ Due(Parent(x)) <= Due(y)
        BY <1>6, <1>7, <2>2
      <3>2. Due(Parent(x))' = Due(Parent(x))
        BY <1>2, <1>4, <1>7, <1>9, <2>2
      <3> QED
        BY <1>7, <2>2, <3>1, <3>2
    <2>3. CASE i # x /\ Parent(i) = x
      <3>1. Due(i)' = Due(i)
        BY <1>2, <1>9, <2>1, <2>3
      <3> QED
        BY <1>7, <1>8, <2>3, <3>1
    <2>4. CASE i # x /\ Parent(i) # x
      <3>1. Due(i)' = Due(i) /\ Due(Parent(i))' = Due(Parent(i))
        BY <1>2, <1>4, <1>9, <2>1, <2>4
      <3> QED
        BY <1>5, <2>4, <3>1
    <2> QED
      BY <2>2, <2>3, <2>4
  <1>10. ASSUME NEW i \in 1..(n - 1), Parent(i) = y
         PROVE  Due(Parent(y))' <= Due(i)'
    <2>1. i \in 0..(n - 1) /\ i # y /\ i # x
      BY <1>4, <1>7, <1>10
    <2>2. Due(i)' = Due(i) /\ Due(y) <= Due(i)
      BY <1>2, <1>5, <1>7, <1>10, <2>1
    <2> QED
      BY <1>7, <2>2
  <1>11. Due(Parent(y))' <= Due(y)'
    BY <1>3, <1>7
  <1> QED
    BY <1>2, <1>9, <1>10, <1>11 DEF OrderedExcept, AboveOrdered, OrderedAt

\* A node in order with its parent and its children leaves nothing in doubt.
LEMMA OrderedAgain ==
    ASSUME NEW x, OrderedExcept(x), AboveOrdered(x), BelowOrdered(x)
    PROVE  \A i \in 1..(n - 1) : OrderedAt(i)
  BY DEF OrderedExcept, AboveOrdered, BelowOrdered

\* In an ordered heap every node is in order with everything around it.
LEMMA OrderedEverywhere ==
    ASSUME TypeOK, \A i \in 1..(n - 1) : OrderedAt(i), NEW x \in 0..(n - 1)
    PROVE  OrderedExcept(x) /\ AboveOrdered(x) /\ BelowOrdered(x)
  <1>1. \A i \in 0..(n - 1) : Due(i) \in Int
    BY DueInt
  <1>2. \A i \in 1..(n - 1) : Parent(i) \in 0..(n - 1) /\ Parent(i) < i
    BY ParentFacts DEF TypeOK
  <1>3. ASSUME x > 0, NEW i \in 1..(n - 1), Parent(i) = x
        PROVE  Due(Parent(x)) <= Due(i)
    <2>1. x \in 1..(n - 1) /\ i \in 0..(n - 1)
      BY <1>3
    <2>2. Due(Parent(x)) <= Due(x) /\ Due(x) <= Due(i)
      BY <1>3, <2>1 DEF OrderedAt
    <2> QED
      BY <1>1, <1>2, <2>1, <2>2
  <1> QED
    BY <1>3 DEF OrderedExcept, AboveOrdered, BelowOrdered, TypeOK

\* Positions hold different keys.
LEMMA KeysDiffer ==
    ASSUME TypeOK, IndexSync
    PROVE  /\ \A i \in 0..(n - 1) : heap[i] \in Node /\ heap[i].key \in Key
           /\ \A i, j \in 0..(n - 1) : heap[i].key = heap[j].key => i = j
  BY DEF TypeOK, IndexSync, Node

\* Taking a node out: the last one takes its place, and the map follows.
LEMMA TakeOutEffect ==
    ASSUME TypeOK, IndexSync, NEW i \in 0..(n - 1), takeOut(i)
    PROVE  /\ n' = n - 1 /\ n' \in Nat
           /\ heap' \in [0..(n' - 1) -> Node]
           /\ \A j \in 0..(n' - 1) : heap'[j] = IF j = i THEN heap[n - 1] ELSE heap[j]
           /\ keyToIndex' \in [Key -> Nat \cup {None}]
           /\ IndexSync'
           /\ contents' = contents \ {heap[i]}
           /\ contents \ {heap[i]} = {e \in contents : e.key # heap[i].key}
  <1>1. /\ n' = n - 1 /\ n' \in Nat
        /\ 0..(n' - 1) \subseteq 0..(n - 1) /\ n - 1 \in 0..(n - 1)
    BY DEF takeOut, TypeOK
  <1>2. /\ heap' \in [0..(n' - 1) -> Node]
        /\ \A j \in 0..(n' - 1) : heap'[j] = IF j = i THEN heap[n - 1] ELSE heap[j]
    BY <1>1 DEF takeOut, TypeOK
  <1>3. /\ keyToIndex' \in [Key -> Nat \cup {None}]
        /\ \A k \in Key : keyToIndex'[k] =
              IF k = heap[i].key THEN None
              ELSE IF k = heap[n - 1].key THEN i ELSE keyToIndex[k]
    BY DEF takeOut, TypeOK
  <1>4. /\ \A j \in 0..(n - 1) : heap[j] \in Node /\ heap[j].key \in Key
        /\ \A j, k \in 0..(n - 1) : heap[j].key = heap[k].key => j = k
    BY KeysDiffer
  <1>5. ASSUME NEW j \in 0..(n' - 1) PROVE keyToIndex'[heap'[j].key] = j
    <2>1. j \in 0..(n - 1) /\ j # n - 1
      BY <1>1
    <2>2. CASE j = i
      <3>1. heap'[j].key = heap[n - 1].key /\ heap[n - 1].key # heap[i].key
        BY <1>1, <1>2, <1>4, <2>1, <2>2
      <3> QED
        BY <1>1, <1>3, <1>4, <2>2, <3>1
    <2>3. CASE j # i
      <3>1. heap'[j].key = heap[j].key /\ heap[j].key # heap[i].key
            /\ heap[j].key # heap[n - 1].key
        BY <1>1, <1>2, <1>4, <2>1, <2>3
      <3> QED
        BY <1>3, <1>4, <2>1, <3>1 DEF IndexSync
    <2> QED
      BY <2>2, <2>3
  <1>6. ASSUME NEW k \in Key, keyToIndex'[k] # None
        PROVE  keyToIndex'[k] \in 0..(n' - 1) /\ heap'[keyToIndex'[k]].key = k
    <2>1. k # heap[i].key
      BY <1>3, <1>6
    <2>2. CASE k = heap[n - 1].key
      <3>1. i # n - 1 /\ i \in 0..(n' - 1)
        BY <1>1, <2>1, <2>2
      <3> QED
        BY <1>2, <1>3, <2>1, <2>2, <3>1
    <2>3. CASE k # heap[n - 1].key
      <3>1. keyToIndex'[k] = keyToIndex[k]
        BY <1>3, <2>1, <2>3
      <3>2. keyToIndex[k] \in 0..(n - 1) /\ heap[keyToIndex[k]].key = k
        BY <1>6, <3>1 DEF IndexSync
      <3>3. keyToIndex[k] # i /\ keyToIndex[k] # n - 1
        BY <2>1, <2>3, <3>2
      <3>4. keyToIndex[k] \in 0..(n' - 1)
        BY <1>1, <3>2, <3>3
      <3> QED
        BY <1>2, <3>1, <3>2, <3>3, <3>4
    <2> QED
      BY <2>2, <2>3
  <1>7. IndexSync'
    BY <1>5, <1>6 DEF IndexSync
  <1>8. contents \ {heap[i]} = {e \in contents : e.key # heap[i].key}
    BY <1>4 DEF contents
  <1>9. contents' = contents \ {heap[i]}
    <2>1. contents' = {heap'[j] : j \in 0..(n' - 1)}
      BY DEF contents
    <2>2. ASSUME NEW e \in {heap'[j] : j \in 0..(n' - 1)} PROVE e \in contents \ {heap[i]}
      <3>1. PICK j \in 0..(n' - 1) : e = heap'[j]
        OBVIOUS
      <3>2. j \in 0..(n - 1) /\ j # n - 1
        BY <1>1
      <3>3. e = heap[IF j = i THEN n - 1 ELSE j]
        BY <1>2, <3>1
      <3>4. (IF j = i THEN n - 1 ELSE j) \in 0..(n - 1) /\ (IF j = i THEN n - 1 ELSE j) # i
        BY <1>1, <3>2
      <3> QED
        BY <1>4, <3>3, <3>4 DEF contents
    <2>3. ASSUME NEW e \in contents \ {heap[i]}
          PROVE  e \in {heap'[j] : j \in 0..(n' - 1)}
      <3>1. PICK j \in 0..(n - 1) : e = heap[j]
        BY DEF contents
      <3>2. j # i
        BY <3>1
      <3>3. CASE j = n - 1
        <4>1. i \in 0..(n' - 1)
          BY <1>1, <3>2, <3>3
        <4>2. heap'[i] = e
          BY <1>2, <3>1, <3>3, <4>1
        <4> QED
          BY <4>1, <4>2
      <3>4. CASE j # n - 1
        <4>1. j \in 0..(n' - 1)
          BY <1>1, <3>4
        <4>2. heap'[j] = e
          BY <1>2, <3>1, <3>2, <4>1
        <4> QED
          BY <4>1, <4>2
      <3> QED
        BY <3>3, <3>4
    <2> QED
      BY <2>1, <2>2, <2>3
  <1> QED
    BY <1>1, <1>2, <1>3, <1>7, <1>8, <1>9

\* After a node is taken out only the edges around its position are in doubt.
LEMMA TakeOutOrder ==
    ASSUME TypeOK, IndexSync, NEW i \in 0..(n - 1), takeOut(i),
           \A j \in 1..(n - 1) : OrderedAt(j)
    PROVE  /\ i < n - 1 => OrderedExcept(i)'
           /\ i = n - 1 => \A j \in 1..(n' - 1) : OrderedAt(j)'
  <1>1. /\ n' = n - 1 /\ n \in Nat
        /\ \A j \in 0..(n' - 1) : heap'[j] = IF j = i THEN heap[n - 1] ELSE heap[j]
    BY TakeOutEffect DEF TypeOK
  <1>2. \A j \in 0..(n' - 1) : j # i => Due(j)' = Due(j)
    BY <1>1 DEF Due
  <1>3. \A j \in 1..(n - 1) : Parent(j) \in 0..(n - 1) /\ Parent(j) < j
                              /\ Due(Parent(j)) <= Due(j)
    BY <1>1, ParentFacts DEF OrderedAt
  <1>4. \A j \in 0..(n - 1) : Due(j) \in Int
    BY DueInt
  <1>5. ASSUME NEW j \in 1..(n' - 1), j # i, Parent(j) # i
        PROVE  Due(Parent(j))' <= Due(j)'
    <2>1. j \in 1..(n - 1) /\ j \in 0..(n' - 1) /\ Parent(j) \in 0..(n' - 1)
      BY <1>1, <1>3
    <2> QED
      BY <1>2, <1>3, <1>5, <2>1
  <1>6. ASSUME NEW j \in 1..(n' - 1), Parent(j) = i, i > 0
        PROVE  Due(Parent(i))' <= Due(j)'
    <2>1. /\ j \in 1..(n - 1) /\ j \in 0..(n' - 1) /\ j # i
          /\ i \in 1..(n - 1) /\ Parent(i) \in 0..(n' - 1) /\ Parent(i) # i
      BY <1>1, <1>3, <1>6
    <2>2. Due(Parent(i)) <= Due(i) /\ Due(i) <= Due(j)
      BY <1>3, <1>6, <2>1
    <2>3. Due(Parent(i))' = Due(Parent(i)) /\ Due(j)' = Due(j)
      BY <1>2, <2>1
    <2> QED
      BY <1>1, <1>4, <2>1, <2>2, <2>3
  <1>7. i < n - 1 => OrderedExcept(i)'
    BY <1>5, <1>6 DEF OrderedExcept, OrderedAt
  <1>8. ASSUME i = n - 1, NEW j \in 1..(n' - 1) PROVE OrderedAt(j)'
    <2>1. j # i /\ Parent(j) # i
      BY <1>1, <1>3, <1>8
    <2> QED
      BY <1>5, <2>1 DEF OrderedAt
  <1> QED
    BY <1>7, <1>8

-----------------------------------------------------------------------------
\* What a call leaves as its record, and what the invariant then asks of it.
LEMMA CallType ==
    ASSUME NEW phase \in Phase, NEW i \in Nat, NEW then \in Phase
    PROVE  /\ Calling(phase, i, then) \in
                  [phase : Phase, idx : Nat, start : Nat, then : Phase,
                   now : Time \cup {None}, left : Nat]
           /\ Calling(phase, i, then).phase = phase
           /\ Calling(phase, i, then).idx = i
           /\ Calling(phase, i, then).start = i
           /\ Calling(phase, i, then).then = then
  BY DEF Calling

\* push of a new key.
LEMMA PushStep ==
    ASSUME IInv, NEW k \in Key, NEW d \in Time, Push(k, d)
    PROVE  IInv' /\ Queue!Put(k, d)
  <1> DEFINE e == [key |-> k, expireAtMs |-> d]
  <1>1. /\ n \in Nat /\ n' = n + 1
        /\ heap' \in [0..n -> Node]
        /\ heap'[n] = e
        /\ \A i \in 0..(n - 1) : heap'[i] = heap[i]
    <2>1. n \in Nat /\ n' = n + 1 /\ n \in 0..n
      BY DEF IInv, TypeOK, Push
    <2>2. e \in Node /\ \A i \in 0..n : i # n => heap[i] \in Node
      BY <2>1 DEF IInv, TypeOK, Node
    <2>3. heap' = [i \in 0..n |-> IF i = n THEN e ELSE heap[i]]
      BY DEF Push
    <2> HIDE DEF e
    <2> QED
      BY <2>1, <2>2, <2>3
  <1>2. e.key = k /\ e.expireAtMs = d
    OBVIOUS
  <1> HIDE DEF e
  <1>3. /\ keyToIndex' \in [Key -> Nat \cup {None}]
        /\ keyToIndex'[k] = n
        /\ \A j \in Key : j # k => keyToIndex'[j] = keyToIndex[j]
    BY <1>1 DEF IInv, TypeOK, Push
  <1>4. /\ call'.phase = "up" /\ call'.idx = n /\ call'.start = n /\ call'.then = "idle"
        /\ call' \in [phase : Phase, idx : Nat, start : Nat, then : Phase,
                       now : Time \cup {None}, left : Nat]
    <2>1. "up" \in Phase /\ "idle" \in Phase
      BY DEF Phase
    <2> QED
      BY <1>1, <2>1, CallType DEF Push
  <1>5. TypeOK'
    <2>1. 0..(n' - 1) = 0..n /\ n' \in Nat
      BY <1>1
    <2> QED
      BY <1>1, <1>3, <1>4, <2>1 DEF TypeOK
  <1>6. /\ TypeOK /\ IndexSync /\ keyToIndex[k] = None
        /\ \A i \in 1..(n - 1) : OrderedAt(i)
        /\ \A i \in 0..(n - 1) : heap[i] \in Node /\ heap[i].key \in Key /\ heap[i].key # k
    <2>1. TypeOK /\ IndexSync /\ keyToIndex[k] = None
      BY DEF IInv, Push
    <2>2. \A i \in 1..(n - 1) : OrderedAt(i)
      BY DEF IInv, HeapOrdered, Push
    <2>3. \A i \in 0..(n - 1) : heap[i] \in Node /\ heap[i].key \in Key
      BY <2>1, KeysDiffer
    <2>4. \A i \in 0..(n - 1) : heap[i].key # k
      BY <1>1, <2>1 DEF IndexSync, None
    <2> QED
      BY <2>1, <2>2, <2>3, <2>4
  <1>7. IndexSync'
    <2>1. ASSUME NEW i \in 0..(n' - 1) PROVE keyToIndex'[heap'[i].key] = i
      <3>1. CASE i = n
        BY <1>1, <1>2, <1>3, <3>1
      <3>2. CASE i # n
        <4>1. i \in 0..(n - 1)
          BY <1>1, <3>2
        <4> QED
          BY <1>1, <1>3, <1>6, <4>1 DEF IndexSync
      <3> QED
        BY <3>1, <3>2
    <2>2. ASSUME NEW j \in Key, keyToIndex'[j] # None
          PROVE  keyToIndex'[j] \in 0..(n' - 1) /\ heap'[keyToIndex'[j]].key = j
      <3>1. CASE j = k
        BY <1>1, <1>2, <1>3, <3>1
      <3>2. CASE j # k
        <4>1. keyToIndex'[j] = keyToIndex[j] /\ keyToIndex[j] \in 0..(n - 1)
              /\ heap[keyToIndex[j]].key = j
          BY <1>3, <1>6, <2>2, <3>2 DEF IndexSync
        <4>2. keyToIndex[j] \in 0..(n' - 1)
          BY <1>1, <4>1
        <4> QED
          BY <1>1, <4>1, <4>2
      <3> QED
        BY <3>1, <3>2
    <2> QED
      BY <2>1, <2>2 DEF IndexSync
  <1>8. ASSUME NEW x \in Nat, x = n PROVE OrderedExcept(x)' /\ BelowOrdered(x)'
    <2>1. \A i \in 1..n : Parent(i) \in 0..(n - 1) /\ Parent(i) # n
      BY <1>1, ParentFacts
    <2>2. ASSUME NEW i \in 1..n, i # n PROVE Due(Parent(i))' <= Due(i)'
      <3>1. i \in 1..(n - 1) /\ i \in 0..(n - 1)
        BY <1>1, <2>2
      <3>2. heap'[i] = heap[i] /\ heap'[Parent(i)] = heap[Parent(i)]
        BY <1>1, <2>1, <3>1
      <3> QED
        BY <1>6, <3>1, <3>2 DEF OrderedAt, Due
    <2>3. 1..(n' - 1) = 1..n
      BY <1>1
    <2> QED
      BY <1>8, <2>1, <2>2, <2>3 DEF OrderedExcept, BelowOrdered, OrderedAt
  <1>9. OrderedExcept(call.idx)' /\ BelowOrdered(call.idx)'
    <2>1. PICK x \in Nat : x = n
      BY <1>1
    <2>2. call'.idx = x /\ OrderedExcept(x)' /\ BelowOrdered(x)'
      BY <1>4, <1>8, <2>1
    <2> QED
      BY <2>2 DEF OrderedExcept, BelowOrdered, OrderedAt, Due
  <1>10. HeapOrdered' /\ SiftProgress' /\ PopProgress'
    BY <1>1, <1>4, <1>9 DEF HeapOrdered, SiftProgress, PopProgress
  <1>11. Queue!Put(k, d)
    <2>1. Queue!At(k) = {}
      BY <1>6 DEF Queue!At, contents
    <2>2. contents' = {heap'[i] : i \in 0..n}
      BY <1>1 DEF contents
    <2>3. {heap'[i] : i \in 0..n} = contents \cup {e}
      <3>1. 0..n = (0..(n - 1)) \cup {n}
        BY <1>1
      <3> QED
        BY <1>1, <3>1 DEF contents
    <2> QED
      BY <2>1, <2>2, <2>3 DEF Queue!Put, e
  <1> QED
    BY <1>5, <1>7, <1>10, <1>11 DEF IInv

\* The conditions on the position of a sift, read at the value it has.
LEMMA AtIdx ==
    ASSUME NEW x, call'.idx = x
    PROVE  /\ OrderedExcept(x)' => OrderedExcept(call.idx)'
           /\ AboveOrdered(x)' => AboveOrdered(call.idx)'
           /\ BelowOrdered(x)' => BelowOrdered(call.idx)'
  BY DEF OrderedExcept, AboveOrdered, BelowOrdered, OrderedAt, Due

\* A node at x is replaced in an ordered heap: only its own edges are in doubt.
LEMMA ReplaceOrder ==
    ASSUME TypeOK, \A i \in 1..(n - 1) : OrderedAt(i), NEW x \in 0..(n - 1),
           n' = n, \A i \in 0..(n - 1) : i # x => heap'[i] = heap[i]
    PROVE  OrderedExcept(x)'
  <1>1. OrderedExcept(x)
    BY OrderedEverywhere
  <1>2. \A i \in 1..(n - 1) : i \in 0..(n - 1) /\ Parent(i) \in 0..(n - 1) /\ Parent(i) < i
    BY ParentFacts DEF TypeOK
  <1>3. \A i \in 0..(n - 1) : i # x => Due(i)' = Due(i)
    BY DEF Due
  <1>4. ASSUME NEW i \in 1..(n - 1), i # x, Parent(i) # x
        PROVE  Due(Parent(i))' <= Due(i)'
    BY <1>1, <1>2, <1>3, <1>4 DEF OrderedExcept, OrderedAt
  <1>5. ASSUME x > 0, NEW i \in 1..(n - 1), Parent(i) = x
        PROVE  Due(Parent(x))' <= Due(i)'
    <2>1. x \in 1..(n - 1) /\ i # x
      BY <1>2, <1>5
    <2>2. Due(Parent(x))' = Due(Parent(x)) /\ Due(i)' = Due(i)
      BY <1>2, <1>3, <2>1
    <2> QED
      BY <1>1, <1>5, <2>2 DEF OrderedExcept
  <1> QED
    BY <1>4, <1>5 DEF OrderedExcept, OrderedAt

\* update, and push of a key that is present.
LEMMA UpdateStep ==
    ASSUME IInv, NEW k \in Key, NEW d \in Time, Update(k, d)
    PROVE  IInv' /\ Queue!Put(k, d)
  <1> DEFINE e == [key |-> k, expireAtMs |-> d]
  <1>1. /\ TypeOK /\ IndexSync /\ keyToIndex[k] # None
        /\ \A i \in 1..(n - 1) : OrderedAt(i)
    <2>1. TypeOK /\ IndexSync /\ keyToIndex[k] # None
      BY DEF IInv, Update
    <2>2. \A i \in 1..(n - 1) : OrderedAt(i)
      BY DEF IInv, HeapOrdered, Update
    <2> QED
      BY <2>1, <2>2
  <1>2. PICK x \in 0..(n - 1) : x = keyToIndex[k] /\ heap[x].key = k
    BY <1>1 DEF IndexSync
  <1>3. e \in Node /\ e.key = k /\ e.expireAtMs = d
    BY DEF Node
  <1>4. n' = n /\ keyToIndex' = keyToIndex /\ heap' = [heap EXCEPT ![x] = e]
        /\ call' = Calling("up", x, "down")
    BY <1>2 DEF Update
  <1> HIDE DEF e
  <1>5. /\ heap' \in [0..(n - 1) -> Node]
        /\ heap'[x] = e
        /\ \A i \in 0..(n - 1) : i # x => heap'[i] = heap[i]
    BY <1>1, <1>2, <1>3, <1>4 DEF TypeOK
  <1>6. /\ call'.phase = "up" /\ call'.idx = x /\ call'.start = x /\ call'.then = "down"
        /\ call' \in [phase : Phase, idx : Nat, start : Nat, then : Phase,
                       now : Time \cup {None}, left : Nat]
    <2>1. "up" \in Phase /\ "down" \in Phase /\ x \in Nat
      BY DEF Phase
    <2> QED
      BY <1>4, <2>1, CallType
  <1>7. TypeOK'
    BY <1>1, <1>4, <1>5, <1>6 DEF TypeOK
  <1>8. \A i \in 0..(n - 1) : heap'[i].key = heap[i].key
    BY <1>2, <1>3, <1>5
  <1>9. IndexSync'
    BY <1>1, <1>4, <1>8 DEF IndexSync
  <1>10. OrderedExcept(call.idx)'
    BY <1>1, <1>4, <1>5, <1>6, ReplaceOrder, AtIdx
  <1>11. HeapOrdered' /\ SiftProgress' /\ PopProgress'
    <2>1. n \in Nat /\ x < n
      BY <1>1 DEF TypeOK
    <2> QED
      BY <1>4, <1>6, <1>10, <2>1 DEF HeapOrdered, SiftProgress, PopProgress
  <1>12. Queue!Put(k, d)
    <2>1. \A i \in 0..(n - 1) : i # x => heap[i].key # k
      BY <1>1, <1>2, KeysDiffer
    <2>2. Queue!At(k) = {heap[x]}
      BY <1>2, <2>1 DEF Queue!At, contents
    <2>3. contents' = {heap'[i] : i \in 0..(n - 1)}
      BY <1>4 DEF contents
    <2>4. {heap'[i] : i \in 0..(n - 1)} = (contents \ {heap[x]}) \cup {e}
      BY <1>2, <1>5, <2>1 DEF contents
    <2> QED
      BY <2>2, <2>3, <2>4 DEF Queue!Put, e
  <1> QED
    BY <1>7, <1>9, <1>11, <1>12 DEF IInv

\* remove.
LEMMA RemoveStep ==
    ASSUME IInv, NEW k \in Key, Remove(k)
    PROVE  IInv' /\ Queue!Drop(k)
  <1>1. /\ TypeOK /\ IndexSync /\ keyToIndex[k] # None
        /\ \A i \in 1..(n - 1) : OrderedAt(i)
    <2>1. TypeOK /\ IndexSync /\ keyToIndex[k] # None
      BY DEF IInv, Remove
    <2>2. \A i \in 1..(n - 1) : OrderedAt(i)
      BY DEF IInv, HeapOrdered, Remove
    <2> QED
      BY <2>1, <2>2
  <1>2. PICK x \in 0..(n - 1) : x = keyToIndex[k] /\ heap[x].key = k
    BY <1>1 DEF IndexSync
  <1>3. takeOut(x) /\ call' = IF x < n - 1 THEN Calling("down", x, "up") ELSE Idle
    BY <1>2 DEF Remove
  <1>4. /\ n \in Nat /\ n' = n - 1 /\ n' \in Nat
        /\ heap' \in [0..(n' - 1) -> Node]
        /\ keyToIndex' \in [Key -> Nat \cup {None}]
        /\ IndexSync'
        /\ contents' = {e \in contents : e.key # k}
    BY <1>1, <1>2, <1>3, TakeOutEffect DEF TypeOK
  <1>5. Queue!Drop(k)
    BY <1>4 DEF Queue!Drop, Queue!At
  <1>6. "down" \in Phase /\ "up" \in Phase /\ "idle" \in Phase /\ x \in Nat /\ 0 \in Nat
    BY DEF Phase
  <1>7. CASE x < n - 1
    <2>1. /\ call'.phase = "down" /\ call'.idx = x /\ call'.start = x /\ call'.then = "up"
          /\ call' \in [phase : Phase, idx : Nat, start : Nat, then : Phase,
                         now : Time \cup {None}, left : Nat]
      BY <1>3, <1>6, <1>7, CallType
    <2>2. TypeOK'
      BY <1>4, <2>1 DEF TypeOK
    <2>3. OrderedExcept(call.idx)'
      BY <1>1, <1>3, <1>7, <2>1, TakeOutOrder, AtIdx
    <2>4. HeapOrdered' /\ SiftProgress' /\ PopProgress'
      BY <1>4, <1>7, <2>1, <2>3 DEF HeapOrdered, SiftProgress, PopProgress
    <2> QED
      BY <1>4, <1>5, <2>2, <2>4 DEF IInv
  <1>8. CASE ~(x < n - 1)
    <2>1. /\ call'.phase = "idle" /\ call'.then = "idle"
          /\ call' \in [phase : Phase, idx : Nat, start : Nat, then : Phase,
                         now : Time \cup {None}, left : Nat]
      BY <1>3, <1>6, <1>8, CallType DEF Idle
    <2>2. TypeOK'
      BY <1>4, <2>1 DEF TypeOK
    <2>3. x = n - 1
      BY <1>4, <1>8
    <2>4. \A j \in 1..(n' - 1) : OrderedAt(j)'
      BY <1>1, <1>3, <2>3, TakeOutOrder
    <2>5. HeapOrdered' /\ SiftProgress' /\ PopProgress'
      BY <2>1, <2>4 DEF HeapOrdered, SiftProgress, PopProgress
    <2> QED
      BY <1>4, <1>5, <2>2, <2>5 DEF IInv
  <1> QED
    BY <1>7, <1>8

\* A sift that ends leaves a state the next part of the call can start from.
LEMMA EndSiftStep ==
    ASSUME IInv, call.phase \in {"up", "down"},
           call.phase = "up" => AboveOrdered(call.idx),
           call.phase = "down" => BelowOrdered(call.idx),
           endSift
    PROVE  IInv' /\ contents' = contents
  <1> DEFINE x == call.idx
             y == call.start
             Whole == \A i \in 1..(n - 1) : OrderedAt(i)
  <1>1. TypeOK /\ IndexSync /\ n' = n /\ heap' = heap /\ keyToIndex' = keyToIndex
    BY DEF IInv, endSift
  <1>2. /\ x \in 0..(n - 1) /\ y \in 0..(n - 1) /\ OrderedExcept(x)
        /\ call.then \in {"idle", "up", "down", "pop"}
    BY <1>1 DEF IInv, TypeOK, SiftProgress
  <1>3. /\ call'.phase = call.then /\ call'.idx = y /\ call'.start = y
        /\ call'.then = IF call.then = "pop" THEN "pop" ELSE "idle"
        /\ call' \in [phase : Phase, idx : Nat, start : Nat, then : Phase,
                       now : Time \cup {None}, left : Nat]
    BY <1>1 DEF TypeOK, endSift, Phase
  <1>4. TypeOK' /\ IndexSync' /\ contents' = contents
    BY <1>1, <1>3 DEF TypeOK, IndexSync, contents
  <1>5. Whole => OrderedExcept(y) /\ AboveOrdered(y) /\ BelowOrdered(y)
    BY <1>1, <1>2, OrderedEverywhere
  <1>6. AboveOrdered(x) /\ BelowOrdered(x) => Whole
    BY <1>2, OrderedAgain
  <1>7. /\ Whole => \A i \in 1..(n' - 1) : OrderedAt(i)'
        /\ OrderedExcept(y) => OrderedExcept(call.idx)'
        /\ AboveOrdered(y) => AboveOrdered(call.idx)'
        /\ BelowOrdered(y) => BelowOrdered(call.idx)'
    BY <1>1, <1>3 DEF OrderedExcept, AboveOrdered, BelowOrdered, OrderedAt, Due
  <1>8. /\ call.phase = "up" =>
             call.then \in {"idle", "down"} /\ (x # y \/ call.then = "idle" => BelowOrdered(x))
        /\ call.phase = "down" =>
             /\ call.then \in {"idle", "up", "pop"}
             /\ x # y \/ call.then # "up" => AboveOrdered(x)
    BY DEF IInv, SiftProgress
  <1>9. HeapOrdered'
    <2>1. call.then \in {"idle", "pop"} => Whole
      BY <1>6, <1>8
    <2> QED
      BY <1>3, <1>7, <2>1 DEF HeapOrdered
  <1>10. SiftProgress'
    <2>1. call.then = "down" => OrderedExcept(y) /\ AboveOrdered(y)
      BY <1>2, <1>5, <1>6, <1>8
    <2>2. call.then = "up" => OrderedExcept(y) /\ BelowOrdered(y)
      BY <1>2, <1>5, <1>6, <1>8
    <2>3. n \in Nat /\ y < n
      BY <1>1, <1>2 DEF TypeOK
    <2> HIDE DEF x, y, Whole
    <2> QED
      BY <1>1, <1>3, <1>7, <2>1, <2>2, <2>3 DEF SiftProgress
  <1>11. PopProgress'
    BY <1>2, <1>3 DEF IInv, PopProgress
  <1> QED
    BY <1>4, <1>9, <1>10, <1>11 DEF IInv

\* One iteration of siftUp.
LEMMA SiftUpStep ==
    ASSUME IInv, SiftUp
    PROVE  IInv' /\ contents' = contents
  <1>1. TypeOK /\ IndexSync /\ call.phase = "up" /\ n \in Nat
    BY DEF IInv, SiftUp, TypeOK
  <1>2. PICK x \in 0..(n - 1) : x = call.idx
    BY <1>1 DEF IInv, SiftProgress, TypeOK
  <1>3. OrderedExcept(x) /\ call.start < n /\ call.then \in {"idle", "down"}
    BY <1>1, <1>2 DEF IInv, SiftProgress
  <1>4. CASE rises(x)
    <2>1. swapEntries(x, Parent(x)) /\ call' = [call EXCEPT !.idx = Parent(x)]
      BY <1>2, <1>4 DEF SiftUp
    <2>2. PICK p \in 0..(n - 1) : p = Parent(x) /\ p # x
      BY <1>1, <1>4, ParentFacts DEF rises
    <2>3. OrderedExcept(p)' /\ BelowOrdered(p)'
      BY <1>1, <1>3, <1>4, <2>1, <2>2, SiftUpMove
    <2>4. /\ n' = n /\ heap' \in [0..(n - 1) -> Node]
          /\ keyToIndex' \in [Key -> Nat \cup {None}]
          /\ IndexSync' /\ contents' = contents
      BY <1>1, <2>1, <2>2, SwapEffect
    <2>5. /\ call'.phase = "up" /\ call'.idx = p /\ call'.start = call.start
          /\ call'.then = call.then
          /\ call' \in [phase : Phase, idx : Nat, start : Nat, then : Phase,
                         now : Time \cup {None}, left : Nat]
      BY <1>1, <2>1, <2>2 DEF TypeOK
    <2>6. OrderedExcept(call.idx)' /\ BelowOrdered(call.idx)'
      BY <2>3, <2>5, AtIdx
    <2>7. TypeOK'
      BY <1>1, <2>4, <2>5 DEF TypeOK
    <2>8. HeapOrdered' /\ SiftProgress'
      BY <1>1, <1>3, <2>2, <2>4, <2>5, <2>6 DEF HeapOrdered, SiftProgress
    <2>9. PopProgress'
      BY <2>5 DEF IInv, PopProgress
    <2> QED
      BY <2>4, <2>7, <2>8, <2>9 DEF IInv
  <1>5. CASE ~rises(x)
    <2>1. endSift
      BY <1>2, <1>5 DEF SiftUp
    <2>2. \A i \in 0..(n - 1) : Due(i) \in Int
      BY <1>1, DueInt
    <2>3. x > 0 => Parent(x) \in 0..(n - 1)
      BY <1>1, ParentFacts
    <2>4. AboveOrdered(x)
      BY <1>5, <2>2, <2>3 DEF rises, AboveOrdered, OrderedAt
    <2> QED
      BY <1>1, <1>2, <2>1, <2>4, EndSiftStep
  <1> QED
    BY <1>4, <1>5

\* One iteration of siftDown.
LEMMA SiftDownStep ==
    ASSUME IInv, SiftDown
    PROVE  IInv' /\ contents' = contents
  <1>1. TypeOK /\ IndexSync /\ call.phase = "down" /\ n \in Nat
    BY DEF IInv, SiftDown, TypeOK
  <1>2. PICK x \in 0..(n - 1) : x = call.idx
    BY <1>1 DEF IInv, SiftProgress, TypeOK
  <1>3. OrderedExcept(x) /\ call.start < n /\ call.then \in {"idle", "up", "pop"}
    BY <1>1, <1>2 DEF IInv, SiftProgress
  <1>4. CASE smallest(x) # x
    <2>1. swapEntries(x, smallest(x)) /\ call' = [call EXCEPT !.idx = smallest(x)]
      BY <1>2, <1>4 DEF SiftDown
    <2>2. PICK p \in 0..(n - 1) : p = smallest(x) /\ p # x
      BY <1>1, <1>3, <1>4, <2>1, SiftDownMove
    <2>3. OrderedExcept(p)' /\ AboveOrdered(p)'
      BY <1>1, <1>3, <1>4, <2>1, <2>2, SiftDownMove
    <2>4. /\ n' = n /\ heap' \in [0..(n - 1) -> Node]
          /\ keyToIndex' \in [Key -> Nat \cup {None}]
          /\ IndexSync' /\ contents' = contents
      BY <1>1, <2>1, <2>2, SwapEffect
    <2>5. /\ call'.phase = "down" /\ call'.idx = p /\ call'.start = call.start
          /\ call'.then = call.then
          /\ call' \in [phase : Phase, idx : Nat, start : Nat, then : Phase,
                         now : Time \cup {None}, left : Nat]
      BY <1>1, <2>1, <2>2 DEF TypeOK
    <2>6. OrderedExcept(call.idx)' /\ AboveOrdered(call.idx)'
      BY <2>3, <2>5, AtIdx
    <2>7. TypeOK'
      BY <1>1, <2>4, <2>5 DEF TypeOK
    <2>8. HeapOrdered' /\ SiftProgress'
      BY <1>1, <1>3, <2>2, <2>4, <2>5, <2>6 DEF HeapOrdered, SiftProgress
    <2>9. PopProgress'
      BY <2>5 DEF IInv, PopProgress
    <2> QED
      BY <2>4, <2>7, <2>8, <2>9 DEF IInv
  <1>5. CASE smallest(x) = x
    <2>1. endSift
      BY <1>2, <1>5 DEF SiftDown
    <2>2. BelowOrdered(x)
      BY <1>1, <1>5, SmallestFacts
    <2> QED
      BY <1>1, <1>2, <2>1, <2>2, EndSiftStep
  <1> QED
    BY <1>4, <1>5

\* The loop of popExpired takes the root, which is due and the earliest.
LEMMA PopRootStep ==
    ASSUME IInv, PopRoot
    PROVE  /\ IInv'
           /\ Queue!PopEarliest
           /\ \A e \in contents \ contents' : e.expireAtMs <= call.now
  <1>1. /\ TypeOK /\ IndexSync /\ n \in Nat /\ n > 0 /\ 0 \in 0..(n - 1)
        /\ takeOut(0) /\ Due(0) <= call.now
        /\ call.phase = "pop" /\ call.left \in Nat /\ call.left > 0
    BY DEF IInv, PopRoot, popMore, TypeOK
  <1>2. \A i \in 1..(n - 1) : OrderedAt(i)
    BY <1>1 DEF IInv, HeapOrdered
  <1>3. /\ n' = n - 1 /\ n' \in Nat
        /\ heap' \in [0..(n' - 1) -> Node]
        /\ keyToIndex' \in [Key -> Nat \cup {None}]
        /\ IndexSync'
        /\ contents' = contents \ {heap[0]}
    BY <1>1, TakeOutEffect
  <1>4. \A i \in 0..(n - 1) : Due(0) <= Due(i)
    BY <1>1, <1>2, RootEarliest
  <1>5. Queue!PopEarliest
    <2>1. heap[0] \in contents
      BY <1>1 DEF contents
    <2>2. \A f \in contents : heap[0].expireAtMs <= f.expireAtMs
      BY <1>4 DEF contents, Due
    <2> QED
      BY <1>3, <2>1, <2>2 DEF Queue!PopEarliest
  <1>6. \A e \in contents \ contents' : e.expireAtMs <= call.now
    BY <1>1, <1>3 DEF Due
  <1>7. /\ call'.phase = (IF n > 1 THEN "down" ELSE "pop")
        /\ call'.idx = call.idx /\ call'.start = call.start /\ call'.then = call.then
        /\ call' \in [phase : Phase, idx : Nat, start : Nat, then : Phase,
                       now : Time \cup {None}, left : Nat]
    <2>1. call.left - 1 \in Nat
      BY <1>1
    <2>2. call' = [call EXCEPT !.phase = IF n > 1 THEN "down" ELSE "pop",
                               !.left = call.left - 1]
      BY DEF PopRoot
    <2>3. (IF n > 1 THEN "down" ELSE "pop") \in Phase
      BY DEF Phase
    <2> QED
      BY <1>1, <2>1, <2>2, <2>3 DEF TypeOK
  <1>8. call.idx = 0 /\ call.start = 0 /\ call.then = "pop"
    BY <1>1 DEF IInv, PopProgress
  <1>9. TypeOK'
    BY <1>3, <1>7 DEF TypeOK
  <1>10. HeapOrdered' /\ SiftProgress'
    <2>1. CASE n > 1
      <3>1. OrderedExcept(call.idx)'
        BY <1>1, <1>2, <1>7, <1>8, <2>1, TakeOutOrder, AtIdx
      <3>2. AboveOrdered(call.idx)'
        BY <1>7, <1>8 DEF AboveOrdered
      <3> QED
        BY <1>1, <1>3, <1>7, <1>8, <2>1, <3>1, <3>2 DEF HeapOrdered, SiftProgress
    <2>2. CASE ~(n > 1)
      <3>1. \A j \in 1..(n' - 1) : OrderedAt(j)'
        BY <1>1, <1>3, <2>2
      <3> QED
        BY <1>7, <2>2, <3>1 DEF HeapOrdered, SiftProgress
    <2> QED
      BY <2>1, <2>2
  <1>11. PopProgress'
    BY <1>7, <1>8 DEF PopProgress
  <1> QED
    BY <1>3, <1>5, <1>6, <1>9, <1>10, <1>11 DEF IInv

\* popExpired is called, and returns.
LEMMA PopEndsStep ==
    ASSUME IInv,
           PopReturn \/ \E now \in Time, w \in MaxWork : PopExpired(now, w)
    PROVE  IInv' /\ contents' = contents
  <1>1. /\ TypeOK /\ IndexSync /\ \A i \in 1..(n - 1) : OrderedAt(i)
        /\ n' = n /\ heap' = heap /\ keyToIndex' = keyToIndex
    <2>1. call.phase \in {"idle", "pop"} /\ n' = n /\ heap' = heap /\ keyToIndex' = keyToIndex
      BY DEF PopReturn, PopExpired
    <2> QED
      BY <2>1 DEF IInv, HeapOrdered
  <1>2. /\ call'.phase \in {"idle", "pop"} /\ call'.then = call'.phase
        /\ call'.idx = 0 /\ call'.start = 0
        /\ call' \in [phase : Phase, idx : Nat, start : Nat, then : Phase,
                       now : Time \cup {None}, left : Nat]
    <2>1. CASE PopReturn
      BY <2>1 DEF PopReturn, Idle, Calling, Phase
    <2>2. ASSUME NEW now \in Time, NEW w \in MaxWork, PopExpired(now, w)
          PROVE  /\ call'.phase = "pop" /\ call'.then = "pop"
                 /\ call'.idx = 0 /\ call'.start = 0
                 /\ call' \in [phase : Phase, idx : Nat, start : Nat, then : Phase,
                                now : Time \cup {None}, left : Nat]
      <3>1. w \in Nat
        BY WorkAssumption
      <3> QED
        BY <2>2, <3>1 DEF PopExpired, Calling, Phase
    <2> QED
      BY <2>1, <2>2
  <1>3. TypeOK' /\ IndexSync' /\ contents' = contents
    BY <1>1, <1>2 DEF TypeOK, IndexSync, contents
  <1>4. \A i \in 1..(n' - 1) : OrderedAt(i)'
    BY <1>1 DEF OrderedAt, Due
  <1>5. HeapOrdered' /\ SiftProgress' /\ PopProgress'
    BY <1>2, <1>4 DEF HeapOrdered, SiftProgress, PopProgress
  <1> QED
    BY <1>3, <1>5 DEF IInv

LEMMA StartsRight == Init => IInv /\ Queue!Init
  <1> SUFFICES ASSUME Init PROVE IInv /\ Queue!Init
    OBVIOUS
  <1>1. n = 0 /\ 0..(n - 1) = {} /\ 1..(n - 1) = {} /\ 0..(-1) = {}
    BY DEF Init
  <1>2. call.phase = "idle" /\ call.then = "idle"
        /\ call \in [phase : Phase, idx : Nat, start : Nat, then : Phase,
                      now : Time \cup {None}, left : Nat]
    BY DEF Init, Idle, Calling, Phase
  <1>3. TypeOK
    BY <1>1, <1>2 DEF Init, TypeOK
  <1>4. IndexSync
    BY <1>1 DEF Init, IndexSync
  <1>5. HeapOrdered /\ SiftProgress /\ PopProgress
    BY <1>1, <1>2 DEF HeapOrdered, SiftProgress, PopProgress
  <1>6. Queue!Init
    BY <1>1 DEF Queue!Init, contents
  <1> QED
    BY <1>3, <1>4, <1>5, <1>6 DEF IInv

\* Every step keeps the invariant and is a step of the queue, or none.
LEMMA EveryStep == IInv /\ [Next]_vars => IInv' /\ [Queue!Next]_contents
  <1> SUFFICES ASSUME IInv, [Next]_vars PROVE IInv' /\ [Queue!Next]_contents
    OBVIOUS
  <1>1. ASSUME NEW k \in Key, NEW d \in Time, Push(k, d)
        PROVE  IInv' /\ Queue!Next
    BY <1>1, PushStep DEF Queue!Next
  <1>2. ASSUME NEW k \in Key, NEW d \in Time, Update(k, d)
        PROVE  IInv' /\ Queue!Next
    BY <1>2, UpdateStep DEF Queue!Next
  <1>3. ASSUME NEW k \in Key, Remove(k)
        PROVE  IInv' /\ Queue!Next
    BY <1>3, RemoveStep DEF Queue!Next
  <1>4. CASE SiftUp
    BY <1>4, SiftUpStep
  <1>5. CASE SiftDown
    BY <1>5, SiftDownStep
  <1>6. CASE PopRoot
    BY <1>6, PopRootStep DEF Queue!Next
  <1>7. CASE PopReturn \/ \E now \in Time, w \in MaxWork : PopExpired(now, w)
    BY <1>7, PopEndsStep
  <1>8. CASE UNCHANGED vars
    BY <1>8 DEF vars, IInv, TypeOK, IndexSync, HeapOrdered, SiftProgress, PopProgress,
                OrderedExcept, AboveOrdered, BelowOrdered, OrderedAt, Due, contents
  <1> QED
    BY <1>1, <1>2, <1>3, <1>4, <1>5, <1>6, <1>7, <1>8 DEF Next

\* The inductive invariant holds in every reachable state: the position map
\* follows the array through every swap, and the two sifts that push, update,
\* remove and popExpired run from one index restore the heap order.
THEOREM Invariance == Spec => []IInv
  <1>1. Init => IInv
    BY StartsRight
  <1>2. IInv /\ [Next]_vars => IInv'
    BY EveryStep
  <1> QED
    BY <1>1, <1>2, PTL DEF Spec

\* What callers of TTLHeap see: the map is exact at every moment, and the heap is
\* ordered whenever a call returns.
THEOREM HeapCorrect == Spec => [](TypeOK /\ IndexSync /\ HeapOrdered)
  <1>1. IInv => TypeOK /\ IndexSync /\ HeapOrdered
    BY DEF IInv
  <1> QED
    BY <1>1, Invariance, PTL

\* The heap implements the deadline queue.
THEOREM Refinement == Spec => QueueSpec
  <1>1. Init => Queue!Init
    BY StartsRight
  <1>2. IInv /\ [Next]_vars => [Queue!Next]_contents
    BY EveryStep
  <1> QED
    BY <1>1, <1>2, Invariance, PTL DEF Spec, QueueSpec, Queue!Spec

\* popExpired takes the due nodes in the order of their deadlines.
THEOREM ExpiresInOrder == Spec => PopInOrder
  <1>1. IInv /\ [Next]_vars =>
          [PopRoot => /\ Queue!PopEarliest
                      /\ \A e \in contents \ contents' : e.expireAtMs <= call.now]_vars
    BY PopRootStep
  <1> QED
    BY <1>1, Invariance, PTL DEF Spec, PopInOrder

\* popExpired with work to spare leaves nothing due behind.
THEOREM ExpiresAll == Spec => PopDrains
  <1>1. IInv /\ PopReturn =>
          call.left = 0 \/ \A i \in 0..(n - 1) : Due(i) > call.now
    <2> SUFFICES ASSUME IInv, PopReturn, call.left # 0, NEW i \in 0..(n - 1),
                        \A t \in Time : t \in Int
                 PROVE  Due(i) > call.now
      BY TimeAssumption
    <2>1. /\ TypeOK /\ \A j \in 1..(n - 1) : OrderedAt(j)
      BY DEF IInv, HeapOrdered, PopReturn
    <2>2. Due(0) <= Due(i)
      BY <2>1, RootEarliest
    <2>3. n > 0 /\ call.left > 0 /\ call.now \in Int /\ 0 \in 0..(n - 1)
      BY <2>1 DEF TypeOK, None
    <2>4. ~(Due(0) <= call.now)
      BY <2>3 DEF PopReturn, popMore
    <2>5. Due(0) \in Int /\ Due(i) \in Int
      BY <2>1, <2>3, DueInt
    <2> QED
      BY <2>2, <2>3, <2>4, <2>5
  <1>2. IInv /\ [Next]_vars =>
          [PopReturn => \/ call.left = 0
                        \/ \A i \in 0..(n - 1) : Due(i) > call.now]_vars
    BY <1>1
  <1> QED
    BY <1>2, Invariance, PTL DEF Spec, PopDrains
=============================================================================
