--------------------------- MODULE DatabaseProofs ---------------------------
(***************************************************************************)
(* Database keeps table and heap in step, takes away no live key, and      *)
(* keeps its memory counter in step with what it stores and removes, for   *)
(* every set of keys, container types, clock readings and TTLs.            *)
(***************************************************************************)
EXTENDS Database, FiniteSetTheorems, TLAPS

\* What every operation keeps, the containers' contents apart.
Paired(d) == Typed(d) /\ OneEntry(d) /\ Matches(d)

AllFilled(d) == \A e \in d.store : Filled(e)

\* Taking the same keys out of table and heap keeps them paired.
LEMMA WithoutPaired ==
    ASSUME NEW d, Paired(d), NEW K, NEW f,
           \A e : e \in f.store <=> e \in d.store /\ e.key \notin K,
           \A q : q \in f.queue <=> q \in d.queue /\ q.key \notin K
    PROVE  /\ Paired(f)
           /\ AllFilled(d) => AllFilled(f)
           /\ \A k : at(f, k) = IF k \in K THEN {} ELSE at(d, k)
  <1>1. Typed(f) /\ OneEntry(f)
    BY DEF Paired, Typed, OneEntry
  <1>2. \A k : at(f, k) = IF k \in K THEN {} ELSE at(d, k)
    BY DEF at
  <1>3. Matches(f)
    <2>1. \A q \in f.queue : \E e \in at(f, q.key) : e.expireAt = q.expireAtMs
      BY <1>2 DEF Paired, Matches
    <2>2. \A e \in f.store : e.expireAt >= 0 =>
             [key |-> e.key, expireAtMs |-> e.expireAt] \in f.queue
      BY DEF Paired, Matches
    <2>3. \A p, q \in f.queue : p.key = q.key => p = q
      BY DEF Paired, Matches
    <2> QED
      BY <2>1, <2>2, <2>3 DEF Matches
  <1>4. AllFilled(d) => AllFilled(f)
    BY DEF AllFilled
  <1> QED
    BY <1>1, <1>2, <1>3, <1>4 DEF Paired

LEMMA DelAllPaired ==
    ASSUME NEW d, Paired(d), NEW K
    PROVE  /\ Paired(delAll(d, K))
           /\ AllFilled(d) => AllFilled(delAll(d, K))
           /\ \A k : at(delAll(d, K), k) = IF k \in K THEN {} ELSE at(d, k)
  <1>1. /\ \A e : e \in delAll(d, K).store <=> e \in d.store /\ e.key \notin K
        /\ \A q : q \in delAll(d, K).queue <=> q \in d.queue /\ q.key \notin K
    BY DEF delAll
  <1> QED
    BY <1>1, WithoutPaired

LEMMA DelPaired ==
    ASSUME NEW d, Paired(d), NEW k, NEW f,
           f.store = storeWithout(d, k), f.queue = queueWithout(d, k)
    PROVE  /\ Paired(f)
           /\ AllFilled(d) => AllFilled(f)
           /\ \A j : at(f, j) = IF j = k THEN {} ELSE at(d, j)
  <1>1. PICK K : K = {k}
    OBVIOUS
  <1>2. /\ \A e : e \in f.store <=> e \in d.store /\ e.key \notin K
        /\ \A q : q \in f.queue <=> q \in d.queue /\ q.key \notin K
    BY <1>1 DEF storeWithout, queueWithout
  <1>3. Paired(f)
    BY <1>2, WithoutPaired
  <1>4. AllFilled(d) => AllFilled(f)
    BY <1>2, WithoutPaired
  <1>5. \A j : at(f, j) = IF j \in K THEN {} ELSE at(d, j)
    BY <1>2, WithoutPaired
  <1> QED
    BY <1>1, <1>3, <1>4, <1>5

LEMMA CheckAndExpirePaired ==
    ASSUME NEW d, Paired(d), NEW k, NEW t
    PROVE  /\ Paired(checkAndExpire(d, k, t))
           /\ AllFilled(d) => AllFilled(checkAndExpire(d, k, t))
           /\ \A j : \/ at(checkAndExpire(d, k, t), j) = at(d, j)
                     \/ j = k /\ \E e \in at(d, k) : expired(e, t)
  <1>1. CASE \E e \in at(d, k) : expired(e, t)
    <2>1. checkAndExpire(d, k, t) = del(d, k)
      BY <1>1 DEF checkAndExpire
    <2>2. /\ del(d, k).store = storeWithout(d, k)
          /\ del(d, k).queue = queueWithout(d, k)
      BY DEF del
    <2>3. /\ Paired(del(d, k))
          /\ AllFilled(d) => AllFilled(del(d, k))
          /\ \A j : at(del(d, k), j) = IF j = k THEN {} ELSE at(d, j)
      BY <2>2, DelPaired
    <2> QED
      BY <1>1, <2>1, <2>3
  <1>2. CASE ~ \E e \in at(d, k) : expired(e, t)
    BY <1>2 DEF checkAndExpire
  <1> QED
    BY <1>1, <1>2

\* A key written afresh, without a deadline, when the heap has no node for it.
LEMMA WritePaired ==
    ASSUME NEW d, Paired(d), NEW k \in Key, NEW v \in Object, NEW f,
           f.store = storeWithout(d, k)
                       \cup {[key |-> k, value |-> v, expireAt |-> NoExpiry]},
           f.queue = queueWithout(d, k)
    PROVE  /\ Paired(f)
           /\ at(f, k) = {[key |-> k, value |-> v, expireAt |-> NoExpiry]}
           /\ \A e \in f.store : e.key = k \/ e \in d.store
  <1> DEFINE new == [key |-> k, value |-> v, expireAt |-> NoExpiry]
  <1>1. new \in Entry /\ new.key = k /\ new.expireAt = NoExpiry
    BY DEF Entry, NoExpiry
  <1>2. f.store = storeWithout(d, k) \cup {new}
    OBVIOUS
  <1> HIDE DEF new
  <1>3. Typed(f) /\ OneEntry(f)
    BY <1>1, <1>2 DEF Paired, Typed, OneEntry, storeWithout, queueWithout
  <1>4. /\ at(f, k) = {new}
        /\ \A j : j # k => at(f, j) = at(d, j)
    BY <1>1, <1>2 DEF at, storeWithout
  <1>5. Matches(f)
    <2>1. \A q \in f.queue : \E e \in at(f, q.key) : e.expireAt = q.expireAtMs
      BY <1>4 DEF Paired, Matches, queueWithout
    <2>2. \A e \in f.store : e.expireAt >= 0 =>
             [key |-> e.key, expireAtMs |-> e.expireAt] \in f.queue
      BY <1>1, <1>2 DEF Paired, Matches, storeWithout, queueWithout, NoExpiry
    <2>3. \A p, q \in f.queue : p.key = q.key => p = q
      BY DEF Paired, Matches, queueWithout
    <2> QED
      BY <2>1, <2>2, <2>3 DEF Matches
  <1> QED
    BY <1>1, <1>2, <1>3, <1>4, <1>5 DEF Paired, storeWithout, new

\* A container edited in place.
LEMMA EditPaired ==
    ASSUME NEW d, Paired(d), NEW k, NEW n \in Nat
    PROVE  /\ Paired(edit(d, k, n))
           /\ \A e \in edit(d, k, n).store : e.key # k => e \in d.store
           /\ \A e \in edit(d, k, n).store : e.key = k => e.value.items = n
  <1> DEFINE g(e) == IF e.key = k THEN [e EXCEPT !.value.items = n] ELSE e
             f == edit(d, k, n)
  <1>1. ASSUME NEW e \in d.store
        PROVE  /\ g(e) \in Entry /\ g(e).key = e.key /\ g(e).expireAt = e.expireAt
               /\ e.key = k => g(e).value.items = n
               /\ e.key # k => g(e) = e
    <2>1. e \in Entry
      BY DEF Paired, Typed
    <2> QED
      BY <2>1 DEF Entry, Object
  <1>2. f.store = {g(e) : e \in d.store} /\ f.queue = d.queue
    BY DEF edit
  <1> HIDE DEF g, f
  <1>3. Typed(f) /\ OneEntry(f)
    BY <1>1, <1>2 DEF Paired, Typed, OneEntry
  <1>4. Matches(f)
    <2>1. ASSUME NEW q \in f.queue
          PROVE  \E e \in at(f, q.key) : e.expireAt = q.expireAtMs
      <3>1. PICK e \in d.store : e.key = q.key /\ e.expireAt = q.expireAtMs
        BY <1>2 DEF Paired, Matches, at
      <3>2. g(e) \in f.store /\ g(e).key = q.key /\ g(e).expireAt = q.expireAtMs
        BY <1>1, <1>2, <3>1
      <3> QED
        BY <3>2 DEF at
    <2>2. \A e \in f.store : e.expireAt >= 0 =>
             [key |-> e.key, expireAtMs |-> e.expireAt] \in f.queue
      BY <1>1, <1>2 DEF Paired, Matches
    <2>3. \A p, q \in f.queue : p.key = q.key => p = q
      BY <1>2 DEF Paired, Matches
    <2> QED
      BY <2>1, <2>2, <2>3 DEF Matches
  <1>5. /\ \A e \in f.store : e.key # k => e \in d.store
        /\ \A e \in f.store : e.key = k => e.value.items = n
    BY <1>1, <1>2
  <1> QED
    BY <1>3, <1>4, <1>5 DEF Paired, f

\* A deadline given to a key that is present.
LEMMA DeadlinePaired ==
    ASSUME NEW d, Paired(d), NEW k \in Key, NEW ms \in Int, at(d, k) # {}
    PROVE  /\ Paired(deadline(d, k, ms))
           /\ AllFilled(d) => AllFilled(deadline(d, k, ms))
           /\ \A e \in d.store : \E h \in deadline(d, k, ms).store : h.key = e.key
           /\ \A q \in deadline(d, k, ms).queue : q \in d.queue \/ q.expireAtMs = ms
  <1> DEFINE g(e) == IF e.key = k THEN [e EXCEPT !.expireAt = ms] ELSE e
             f == deadline(d, k, ms)
             new == [key |-> k, expireAtMs |-> ms]
  <1>1. ASSUME NEW e \in d.store
        PROVE  /\ g(e) \in Entry /\ g(e).key = e.key /\ g(e).value = e.value
               /\ e.key = k => g(e).expireAt = ms
               /\ e.key # k => g(e) = e
    <2>1. e \in Entry
      BY DEF Paired, Typed
    <2> QED
      BY <2>1 DEF Entry
  <1>2. f.store = {g(e) : e \in d.store} /\ f.queue = queueWithout(d, k) \cup {new}
    BY DEF deadline
  <1>3. new \in Node /\ new.key = k /\ new.expireAtMs = ms
    BY DEF Node
  <1>4. \A a, b : [key |-> a, expireAtMs |-> b] = new <=> a = k /\ b = ms
    OBVIOUS
  <1> HIDE DEF g, f, new
  <1>5. Typed(f) /\ OneEntry(f)
    BY <1>1, <1>2, <1>3 DEF Paired, Typed, OneEntry, queueWithout
  <1>6. Matches(f)
    <2>1. ASSUME NEW q \in f.queue
          PROVE  \E e \in at(f, q.key) : e.expireAt = q.expireAtMs
      <3>1. CASE q = new
        <4>1. PICK e \in d.store : e.key = k
          BY DEF at
        <4>2. g(e) \in f.store /\ g(e).key = k /\ g(e).expireAt = ms
          BY <1>1, <1>2, <4>1
        <4> QED
          BY <1>3, <3>1, <4>2 DEF at
      <3>2. CASE q # new
        <4>0. q \in d.queue /\ q.key # k
          BY <1>2, <3>2 DEF queueWithout
        <4>1. PICK e \in d.store : e.key = q.key /\ e.expireAt = q.expireAtMs
          BY <4>0 DEF Paired, Matches, at
        <4>2. g(e) \in f.store /\ g(e).key = q.key /\ g(e).expireAt = q.expireAtMs
          BY <1>1, <1>2, <4>0, <4>1
        <4> QED
          BY <4>2 DEF at
      <3> QED
        BY <3>1, <3>2
    <2>2. ASSUME NEW e \in f.store, e.expireAt >= 0
          PROVE  [key |-> e.key, expireAtMs |-> e.expireAt] \in f.queue
      <3>1. PICK h \in d.store : e = g(h)
        BY <1>2
      <3>2. CASE h.key = k
        BY <1>1, <1>2, <1>4, <3>1, <3>2
      <3>3. CASE h.key # k
        <4>1. e = h
          BY <1>1, <3>1, <3>3
        <4>2. [key |-> e.key, expireAtMs |-> e.expireAt] \in d.queue
          BY <2>2, <4>1 DEF Paired, Matches
        <4> QED
          BY <1>2, <3>3, <4>1, <4>2 DEF queueWithout
      <3> QED
        BY <3>2, <3>3
    <2>3. \A p, q \in f.queue : p.key = q.key => p = q
      BY <1>2, <1>3 DEF Paired, Matches, queueWithout
    <2> QED
      BY <2>1, <2>2, <2>3 DEF Matches
  <1>7. AllFilled(d) => AllFilled(f)
    BY <1>1, <1>2 DEF AllFilled, Filled
  <1>8. \A e \in d.store : \E h \in f.store : h.key = e.key
    BY <1>1, <1>2
  <1>9. \A q \in f.queue : q \in d.queue \/ q.expireAtMs = ms
    BY <1>2, <1>3 DEF queueWithout
  <1> QED
    BY <1>5, <1>6, <1>7, <1>8, <1>9 DEF Paired, f

-----------------------------------------------------------------------------
(* The specification. *)

LEMMA IInvParts == IInv <=> now \in Time /\ Paired(db) /\ AllFilled(db)
  BY DEF IInv, Paired, AllFilled, HeapMatchesTable, NoEmptyContainer

\* A node of the new state's heap is an old one or was set by an EXPIRE.
Origin == \A q \in db'.queue :
             q \in db.queue \/ \E t \in Time, ttl \in Ttl : q.expireAtMs = t + ttl

\* A live key is still there.
Stay == \A e \in db.store : expired(e, now) \/ expired(e, now') \/ e.key \in keysOf(db')

\* Reads and deletions.
LEMMA RemovalStep ==
    ASSUME Paired(db), AllFilled(db), NEW K, db' = delAll(db, K)
    PROVE  /\ Paired(db') /\ AllFilled(db') /\ Origin
           /\ \A e \in db.store : e.key \in K \/ e.key \in keysOf(db')
  <1>1. Paired(db')
    BY DelAllPaired
  <1>2. AllFilled(db')
    BY DelAllPaired
  <1>3. /\ \A e : e \in db'.store <=> e \in db.store /\ e.key \notin K
        /\ \A q \in db'.queue : q \in db.queue
    BY DEF delAll
  <1> QED
    BY <1>1, <1>2, <1>3 DEF Origin, keysOf

\* What checkAndExpire does, seen from the keys.
LEMMA CheckEffect ==
    ASSUME NEW d, Paired(d), AllFilled(d), NEW k, NEW t
    PROVE  /\ Paired(checkAndExpire(d, k, t)) /\ AllFilled(checkAndExpire(d, k, t))
           /\ \A q \in checkAndExpire(d, k, t).queue : q \in d.queue
           /\ \A e \in checkAndExpire(d, k, t).store : e \in d.store
           /\ \A e \in d.store : expired(e, t) \/ e \in checkAndExpire(d, k, t).store
  <1>1. Paired(checkAndExpire(d, k, t)) /\ AllFilled(checkAndExpire(d, k, t))
    BY CheckAndExpirePaired
  <1>2. CASE \E e \in at(d, k) : expired(e, t)
    <2>1. /\ checkAndExpire(d, k, t).store = storeWithout(d, k)
          /\ checkAndExpire(d, k, t).queue = queueWithout(d, k)
      BY <1>2 DEF checkAndExpire, del
    <2>2. \A e \in d.store : e.key = k => expired(e, t)
      BY <1>2 DEF at, Paired, OneEntry
    <2> QED
      BY <1>1, <2>1, <2>2 DEF storeWithout, queueWithout
  <1>3. CASE ~ \E e \in at(d, k) : expired(e, t)
    BY <1>1, <1>3 DEF checkAndExpire
  <1> QED
    BY <1>2, <1>3

LEMMA SetStep ==
    ASSUME Paired(db), AllFilled(db), NEW k \in Key, NEW items \in 0..1, SetCmd(k, items)
    PROVE  Paired(db') /\ AllFilled(db') /\ Origin
  <1>0. [type |-> "STRING", items |-> items] \in Object
    BY DEF Object
  <1>1. PICK v \in Object : v = [type |-> "STRING", items |-> items]
    BY <1>0
  <1>2. /\ db'.store = storeWithout(db, k)
                         \cup {[key |-> k, value |-> v, expireAt |-> NoExpiry]}
        /\ db'.queue = queueWithout(db, k)
    BY <1>1 DEF SetCmd, set
  <1>3. Paired(db')
    BY <1>2, WritePaired
  <1>4. AllFilled(db')
    <2>1. \A e \in db'.store : e \in db.store \/ e.value.type = "STRING"
      BY <1>1, <1>2 DEF storeWithout
    <2> QED
      BY <2>1, ContainerAssumption DEF AllFilled, Filled
  <1> QED
    BY <1>2, <1>3, <1>4 DEF Origin, queueWithout

LEMMA ExpireStep ==
    ASSUME Paired(db), AllFilled(db), NEW k \in Key, NEW ttl \in Ttl, ExpireCmd(k, ttl),
           now \in Time
    PROVE  Paired(db') /\ AllFilled(db') /\ Origin /\ Stay
  <1>1. PICK u \in Later :
           /\ now' = u
           /\ db' = IF at(checkAndExpire(db, k, u), k) = {} THEN checkAndExpire(db, k, u)
                    ELSE deadline(checkAndExpire(db, k, u), k, now + ttl)
    BY DEF ExpireCmd
  <1>2. PICK d : d = checkAndExpire(db, k, u)
    OBVIOUS
  <1>3. /\ Paired(d) /\ AllFilled(d)
        /\ \A q \in d.queue : q \in db.queue
        /\ \A e \in db.store : expired(e, u) \/ e \in d.store
    BY <1>2, CheckEffect
  <1>4. CASE at(d, k) = {}
    <2>1. db' = d
      BY <1>1, <1>2, <1>4
    <2> QED
      BY <1>1, <1>3, <2>1 DEF Origin, Stay, keysOf
  <1>5. CASE at(d, k) # {}
    <2>1. PICK ms \in Int : ms = now + ttl
      BY TimeAssumption, TtlAssumption
    <2>2. db' = deadline(d, k, ms)
      BY <1>1, <1>2, <1>5, <2>1
    <2>3. Paired(db')
      BY <1>3, <1>5, <2>2, DeadlinePaired
    <2>4. AllFilled(db')
      BY <1>3, <1>5, <2>2, DeadlinePaired
    <2>5. \A e \in d.store : \E h \in db'.store : h.key = e.key
      BY <1>3, <1>5, <2>2, DeadlinePaired
    <2>6. \A q \in db'.queue : q \in d.queue \/ q.expireAtMs = ms
      BY <1>3, <1>5, <2>2, DeadlinePaired
    <2>7. Origin
      BY <1>3, <2>1, <2>6 DEF Origin
    <2>8. Stay
      BY <1>1, <1>3, <2>5 DEF Stay, keysOf
    <2> QED
      BY <2>3, <2>4, <2>7, <2>8
  <1> QED
    BY <1>4, <1>5

LEMMA PttlStep ==
    ASSUME Paired(db), AllFilled(db), NEW k, PttlCmd(k)
    PROVE  Paired(db') /\ AllFilled(db') /\ Origin /\ Stay
  <1>1. CASE db' = db
    BY <1>1 DEF Origin, Stay, keysOf
  <1>2. CASE (\E e \in at(db, k) : expired(e, now)) /\ db' = ttlExpire(db, k)
    <2>1. db'.store = storeWithout(db, k) /\ db'.queue = queueWithout(db, k)
      BY <1>2 DEF ttlExpire
    <2>2. Paired(db')
      BY <2>1, DelPaired
    <2>3. AllFilled(db')
      BY <2>1, DelPaired
    <2>4. \A e \in db.store : e.key = k => expired(e, now)
      BY <1>2 DEF at, Paired, OneEntry
    <2> QED
      BY <2>1, <2>2, <2>3, <2>4 DEF Origin, Stay, keysOf, storeWithout, queueWithout
  <1> QED
    BY <1>1, <1>2 DEF PttlCmd

\* The timer: a popped node is due, and its key has that deadline.
LEMMA ActiveStep ==
    ASSUME Paired(db), AllFilled(db), ActiveExpire
    PROVE  /\ Paired(db') /\ AllFilled(db') /\ Origin
           /\ (\A q \in db.queue : q.expireAtMs >= 0) => Stay
  <1>1. PICK popped \in SUBSET due : db' = delAll(db, {p.key : p \in popped})
    BY DEF ActiveExpire
  <1>2. PICK K : K = {p.key : p \in popped}
    OBVIOUS
  <1>3. /\ Paired(db') /\ AllFilled(db') /\ Origin
        /\ \A e \in db.store : e.key \in K \/ e.key \in keysOf(db')
    BY <1>1, <1>2, RemovalStep
  <1>4. ASSUME \A q \in db.queue : q.expireAtMs >= 0, NEW e \in db.store, e.key \in K
        PROVE  expired(e, now)
    <2>1. PICK p \in db.queue : p.key = e.key /\ p.expireAtMs <= now
      BY <1>2, <1>4 DEF due
    <2>2. PICK h \in at(db, p.key) : h.expireAt = p.expireAtMs
      BY DEF Paired, Matches
    <2>3. h = e
      BY <2>1, <2>2 DEF at, Paired, OneEntry
    <2> QED
      BY <1>4, <2>1, <2>2, <2>3 DEF expired
  <1> QED
    BY <1>3, <1>4 DEF Stay

\* A missing key is created without a deadline.
LEMMA CreatePaired ==
    ASSUME NEW d, Paired(d), AllFilled(d), NEW k \in Key, NEW v \in Object,
           at(d, k) = {}
    PROVE  /\ Paired(setObject(d, k, v))
           /\ at(setObject(d, k, v), k) = {[key |-> k, value |-> v, expireAt |-> NoExpiry]}
           /\ \A e \in setObject(d, k, v).store : e.key = k \/ e \in d.store
           /\ setObject(d, k, v).queue = d.queue
  <1>1. PICK f : f = setObject(d, k, v)
    OBVIOUS
  <1>2. \A q \in d.queue : q.key # k
    BY DEF Paired, Matches
  <1>3. /\ f.store = storeWithout(d, k)
                       \cup {[key |-> k, value |-> v, expireAt |-> NoExpiry]}
        /\ f.queue = d.queue
    BY <1>1 DEF setObject
  <1>4. f.queue = queueWithout(d, k)
    BY <1>2, <1>3 DEF queueWithout
  <1>5. Paired(f)
    BY <1>3, <1>4, WritePaired
  <1>6. at(f, k) = {[key |-> k, value |-> v, expireAt |-> NoExpiry]}
    BY <1>3, <1>4, WritePaired
  <1>7. \A e \in f.store : e.key = k \/ e \in d.store
    BY <1>3, <1>4, WritePaired
  <1> QED
    BY <1>1, <1>3, <1>5, <1>6, <1>7

\* An edit that leaves items in the container.
LEMMA EditFilled ==
    ASSUME NEW d, Paired(d), NEW k, NEW n \in Nat, n > 0,
           \A e \in d.store : e.key = k \/ Filled(e)
    PROVE  Paired(edit(d, k, n)) /\ AllFilled(edit(d, k, n)) /\ edit(d, k, n).queue = d.queue
  <1>1. Paired(edit(d, k, n))
    BY EditPaired
  <1>2. \A e \in edit(d, k, n).store : e.key # k => e \in d.store
    BY EditPaired
  <1>3. \A e \in edit(d, k, n).store : e.key = k => e.value.items = n
    BY EditPaired
  <1>4. AllFilled(edit(d, k, n))
    BY <1>2, <1>3 DEF AllFilled, Filled
  <1>5. edit(d, k, n).queue = d.queue
    BY DEF edit
  <1> QED
    BY <1>1, <1>4, <1>5

LEMMA AddStep ==
    ASSUME Paired(db), AllFilled(db), NEW k \in Key, NEW type \in Container,
           AddCmd(k, type)
    PROVE  Paired(db') /\ AllFilled(db') /\ Origin
  <1>1. PICK found : found = checkAndExpire(db, k, now)
    OBVIOUS
  <1>2. PICK v : v = [type |-> type, items |-> 0]
    OBVIOUS
  <1>3. v \in Object /\ v.type = type
    BY <1>2 DEF Object
  <1>4. PICK d : d = IF at(found, k) = {} THEN setObject(found, k, v) ELSE found
    OBVIOUS
  <1>5. /\ Paired(found) /\ AllFilled(found)
        /\ \A q \in found.queue : q \in db.queue
    BY <1>1, CheckEffect
  <1>6. PICK e \in at(d, k) :
           IF e.value.type # type THEN db' = d
           ELSE \E n \in itemsAfterAdd(e) : db' = edit(d, k, n)
    BY <1>1, <1>2, <1>4 DEF AddCmd
  <1>7. /\ Paired(d) /\ d.queue = found.queue
        /\ \A h \in d.store : h.key = k \/ Filled(h)
        /\ at(found, k) = {} => at(d, k) = {[key |-> k, value |-> v, expireAt |-> NoExpiry]}
    <2>1. CASE at(found, k) = {}
      <3>1. d = setObject(found, k, v)
        BY <1>4, <2>1
      <3>2. Paired(d)
        BY <1>3, <1>5, <2>1, <3>1, CreatePaired
      <3>3. at(d, k) = {[key |-> k, value |-> v, expireAt |-> NoExpiry]}
        BY <1>3, <1>5, <2>1, <3>1, CreatePaired
      <3>4. \A h \in d.store : h.key = k \/ h \in found.store
        BY <1>3, <1>5, <2>1, <3>1, CreatePaired
      <3>5. d.queue = found.queue
        BY <1>3, <1>5, <2>1, <3>1, CreatePaired
      <3> QED
        BY <1>5, <3>2, <3>3, <3>4, <3>5 DEF AllFilled
    <2>2. CASE at(found, k) # {}
      BY <1>4, <1>5, <2>2 DEF AllFilled
    <2> QED
      BY <2>1, <2>2
  <1>8. CASE e.value.type # type
    <2>1. at(found, k) # {}
      BY <1>3, <1>6, <1>7, <1>8
    <2>2. db' = found
      BY <1>4, <1>6, <1>8, <2>1
    <2> QED
      BY <1>5, <2>2 DEF Origin
  <1>9. CASE e.value.type = type
    <2>1. PICK n \in itemsAfterAdd(e) : db' = edit(d, k, n)
      BY <1>6, <1>9
    <2>2. e.value.items \in Nat
      BY <1>7 DEF at, Paired, Typed, Entry, Object
    <2>3. n \in Nat /\ n > 0
      BY <2>1, <2>2, ItemsAssumption DEF itemsAfterAdd
    <2>4. Paired(db') /\ AllFilled(db') /\ db'.queue = d.queue
      BY <1>7, <2>1, <2>3, EditFilled
    <2> QED
      BY <1>5, <1>7, <2>4 DEF Origin
  <1> QED
    BY <1>8, <1>9

LEMMA TakeStep ==
    ASSUME Paired(db), AllFilled(db), NEW k \in Key, NEW type \in Container,
           TakeCmd(k, type)
    PROVE  Paired(db') /\ AllFilled(db') /\ Origin
  <1>1. PICK d : d = checkAndExpire(db, k, now)
    OBVIOUS
  <1>2. /\ Paired(d) /\ AllFilled(d)
        /\ \A q \in d.queue : q \in db.queue
    BY <1>1, CheckEffect
  <1>3. CASE db' = d
    BY <1>2, <1>3 DEF Origin
  <1>4. ASSUME NEW e \in at(d, k), NEW n \in itemsAfterTake(e), db' = take(d, k, n),
               type = "LIST" => e.value.items > 0, e.value.type = type
        PROVE  Paired(db') /\ AllFilled(db') /\ Origin
    <2>1. e.value.items \in Nat
      BY <1>2 DEF at, Paired, Typed, Entry, Object
    <2>2. n \in Nat
      BY <1>4, <2>1 DEF itemsAfterTake
    <2>3. CASE n # 0
      <3>1. db' = edit(d, k, n) /\ n > 0
        BY <1>4, <2>2, <2>3 DEF take
      <3>2. Paired(db') /\ AllFilled(db') /\ db'.queue = d.queue
        BY <1>2, <2>2, <3>1, EditFilled DEF AllFilled
      <3> QED
        BY <1>2, <3>2 DEF Origin
    <2>4. CASE n = 0
      <3>1. PICK f : f = edit(d, k, 0)
        OBVIOUS
      <3>2. Paired(f)
        BY <1>2, <3>1, EditPaired
      <3>3. \A h \in f.store : h.key # k => h \in d.store
        BY <1>2, <3>1, EditPaired
      <3>4. f.queue = d.queue
        BY <3>1 DEF edit
      <3>5. db'.store = storeWithout(f, k) /\ db'.queue = queueWithout(f, k)
        BY <1>4, <2>4, <3>1 DEF take, del
      <3>6. Paired(db')
        BY <3>2, <3>5, DelPaired
      <3>7. AllFilled(db')
        BY <1>2, <3>3, <3>5 DEF AllFilled, storeWithout
      <3> QED
        BY <1>2, <3>4, <3>5, <3>6, <3>7 DEF Origin, queueWithout
    <2> QED
      BY <2>3, <2>4
  <1> QED
    <2>1. \/ db' = d
          \/ \E e \in at(d, k) :
                /\ e.value.type = type /\ (type = "LIST" => e.value.items > 0)
                /\ \E n \in itemsAfterTake(e) : db' = take(d, k, n)
      <3>1. \A e, h \in at(d, k) : e = h
        BY <1>2 DEF at, Paired, OneEntry
      <3> QED
        BY <1>1, <3>1 DEF TakeCmd
    <2> QED
      BY <1>3, <1>4, <2>1

LEMMA ScanStep ==
    ASSUME Paired(db), AllFilled(db), NEW batch, ScanCmd(batch)
    PROVE  Paired(db') /\ AllFilled(db') /\ Origin /\ Stay
  <1>0. PICK u \in Later : \E t \in [batch -> {now, u}] :
           /\ db' = delAll(db, {k \in batch : \E e \in at(db, k) : expired(e, t[k])})
           /\ now' = u
    BY DEF ScanCmd
  <1>1. PICK t \in [batch -> {now, u}] :
           /\ db' = delAll(db, {k \in batch : \E e \in at(db, k) : expired(e, t[k])})
           /\ now' = u
    BY <1>0
  <1>2. PICK K : K = {k \in batch : \E e \in at(db, k) : expired(e, t[k])}
    OBVIOUS
  <1>3. /\ Paired(db') /\ AllFilled(db') /\ Origin
        /\ \A e \in db.store : e.key \in K \/ e.key \in keysOf(db')
    BY <1>1, <1>2, RemovalStep
  <1>4. ASSUME NEW e \in db.store, e.key \in K
        PROVE  expired(e, now) \/ expired(e, now')
    <2>1. e.key \in batch /\ t[e.key] \in {now, now'}
      BY <1>1, <1>2, <1>4
    <2>2. PICK h \in at(db, e.key) : expired(h, t[e.key])
      BY <1>2, <1>4
    <2>3. h = e
      BY <2>2 DEF at, Paired, OneEntry
    <2> QED
      BY <2>1, <2>2, <2>3
  <1> QED
    BY <1>3, <1>4 DEF Stay

\* Every step keeps the invariant, and only EXPIRE makes a node.
LEMMA NextStep ==
    ASSUME IInv, [Next]_vars
    PROVE  IInv' /\ Origin
  <1>1. now \in Time /\ Paired(db) /\ AllFilled(db)
    BY IInvParts
  <1>2. now' \in Time
    <2>1. \A t \in Later : t \in Time
      BY DEF Later
    <2> QED
      BY <1>1, <2>1 DEF Next, Command, vars, SetCmd, DelCmd, ReadCmd, ScanCmd,
            ExpireCmd, PttlCmd, PushCmd, HSetCmd, SAddCmd, ZAddCmd, PopCmd, HDelCmd,
            SRemCmd, ZRemCmd, AddCmd, TakeCmd, FlushDbCmd, ActiveExpire, ClockStep
  <1>3. ASSUME NEW k \in Key, NEW items \in 0..1, SetCmd(k, items)
        PROVE  Paired(db') /\ AllFilled(db') /\ Origin
    BY <1>1, <1>3, SetStep
  <1>4. ASSUME NEW K \in SUBSET Key, DelCmd(K)
        PROVE  Paired(db') /\ AllFilled(db') /\ Origin
    BY <1>1, <1>4, RemovalStep DEF DelCmd
  <1>5. ASSUME NEW k \in Key, ReadCmd(k)
        PROVE  Paired(db') /\ AllFilled(db') /\ Origin
    BY <1>1, <1>5, CheckEffect DEF ReadCmd, Origin
  <1>6. ASSUME NEW k \in Key, PttlCmd(k)
        PROVE  Paired(db') /\ AllFilled(db') /\ Origin
    BY <1>1, <1>6, PttlStep
  <1>7. ASSUME NEW batch \in SUBSET keysOf(db), ScanCmd(batch)
        PROVE  Paired(db') /\ AllFilled(db') /\ Origin
    BY <1>1, <1>7, ScanStep
  <1>8. ASSUME NEW k \in Key, NEW ttl \in Ttl, ExpireCmd(k, ttl)
        PROVE  Paired(db') /\ AllFilled(db') /\ Origin
    BY <1>1, <1>8, ExpireStep
  <1>9. ASSUME NEW k \in Key, NEW type \in Container, AddCmd(k, type)
        PROVE  Paired(db') /\ AllFilled(db') /\ Origin
    BY <1>1, <1>9, AddStep
  <1>10. ASSUME NEW k \in Key, NEW type \in Container, TakeCmd(k, type)
         PROVE  Paired(db') /\ AllFilled(db') /\ Origin
    BY <1>1, <1>10, TakeStep
  <1>11. ASSUME FlushDbCmd
         PROVE  Paired(db') /\ AllFilled(db') /\ Origin
    BY <1>11 DEF FlushDbCmd, EmptyDb, Paired, Typed, OneEntry, Matches, AllFilled, Origin
  <1>12. ASSUME ActiveExpire
         PROVE  Paired(db') /\ AllFilled(db') /\ Origin
    BY <1>1, <1>12, ActiveStep
  <1>13. ASSUME db' = db
         PROVE  Paired(db') /\ AllFilled(db') /\ Origin
    BY <1>1, <1>13 DEF Origin
  <1>14. Paired(db') /\ AllFilled(db') /\ Origin
    <2>1. CASE Command
      BY <2>1, <1>3, <1>4, <1>5, <1>6, <1>7, <1>8, <1>9, <1>10, <1>11, <1>13
         DEF Command, PushCmd, HSetCmd, SAddCmd, ZAddCmd, PopCmd, HDelCmd,
             SRemCmd, ZRemCmd
    <2>2. CASE ClockStep \/ UNCHANGED vars
      BY <2>2, <1>13 DEF ClockStep, vars
    <2> QED
      BY <2>1, <2>2, <1>12 DEF Next
  <1> QED
    BY <1>2, <1>14 DEF IInv, Paired, AllFilled, HeapMatchesTable, NoEmptyContainer

\* Table and heap stay in step, and no empty container is stored, whatever the
\* commands and however the wall clock jumps.
THEOREM Invariance == Spec => []IInv
  <1>1. Init => IInv
    BY TimeAssumption DEF Init, IInv, EmptyDb, Typed, OneEntry, HeapMatchesTable, Matches,
           NoEmptyContainer
  <1>2. IInv /\ [Next]_vars => IInv'
    BY NextStep
  <1> QED
    BY <1>1, <1>2, PTL DEF Spec

\* The heap holds exactly the deadlines of the table.
THEOREM HeapCorrect == Spec => []HeapMatchesTable
  <1>1. IInv => HeapMatchesTable
    BY DEF IInv
  <1> QED
    BY <1>1, Invariance, PTL

THEOREM ContainersCorrect == Spec => []NoEmptyContainer
  <1>1. IInv => NoEmptyContainer
    BY DEF IInv
  <1> QED
    BY <1>1, Invariance, PTL

NodesAfterEpoch == \A q \in db.queue : q.expireAtMs >= 0

\* Only keys whose own deadline has passed expire, if no deadline lies before the
\* epoch.  (Without that proviso the timer deletes keys that count as having no
\* deadline.)
THEOREM LiveCorrect == DeadlinesAfterEpoch => (Spec => LiveKeysStay)
  <1> SUFFICES ASSUME DeadlinesAfterEpoch PROVE Spec => LiveKeysStay
    OBVIOUS
  <1>1. Init => NodesAfterEpoch
    BY DEF Init, EmptyDb, NodesAfterEpoch
  <1>2. IInv /\ NodesAfterEpoch /\ [Next]_vars => NodesAfterEpoch'
    BY NextStep DEF Origin, NodesAfterEpoch, DeadlinesAfterEpoch
  <1>3. IInv /\ NodesAfterEpoch /\ [Next]_vars =>
          [\/ ActiveExpire
           \/ \E k \in Key : ReadCmd(k) \/ PttlCmd(k) \/ \E ttl \in Ttl : ExpireCmd(k, ttl)
           \/ \E batch \in SUBSET keysOf(db) : ScanCmd(batch)
           => \A e \in db.store :
                 expired(e, now) \/ expired(e, now') \/ e.key \in keysOf(db')]_vars
    <2> SUFFICES ASSUME IInv, NodesAfterEpoch,
                        \/ ActiveExpire
                        \/ \E k \in Key : ReadCmd(k) \/ PttlCmd(k)
                                          \/ \E ttl \in Ttl : ExpireCmd(k, ttl)
                        \/ \E batch \in SUBSET keysOf(db) : ScanCmd(batch)
                 PROVE  Stay
      BY DEF Stay
    <2>1. now \in Time /\ Paired(db) /\ AllFilled(db)
      BY IInvParts
    <2>2. CASE ActiveExpire
      BY <2>1, <2>2, ActiveStep DEF NodesAfterEpoch
    <2>3. ASSUME NEW k \in Key, ReadCmd(k) PROVE Stay
      BY <2>1, <2>3, CheckEffect DEF ReadCmd, Stay, keysOf
    <2>4. ASSUME NEW k \in Key, PttlCmd(k) PROVE Stay
      BY <2>1, <2>4, PttlStep
    <2>5. ASSUME NEW k \in Key, NEW ttl \in Ttl, ExpireCmd(k, ttl) PROVE Stay
      BY <2>1, <2>5, ExpireStep
    <2>6. ASSUME NEW batch \in SUBSET keysOf(db), ScanCmd(batch) PROVE Stay
      BY <2>1, <2>6, ScanStep
    <2> QED
      BY <2>2, <2>3, <2>4, <2>5, <2>6
  <1> QED
    BY <1>1, <1>2, <1>3, Invariance, PTL DEF Spec, LiveKeysStay

-----------------------------------------------------------------------------
(* Replies of PTTL. *)

\* What keeps the replies true: PttlTells, with replies that are numbers.
RepliesTrue == reply.ms \in Int /\ PttlTells

\* A pass of the timer takes no key with time left.
LEMMA ActiveReplies ==
    ASSUME Paired(db), now \in Int, RepliesTrue, ActiveExpire
    PROVE  RepliesTrue'
  <1>1. PICK popped \in SUBSET due : db' = delAll(db, {p.key : p \in popped})
    BY DEF ActiveExpire
  <1>2. PICK K : K = {p.key : p \in popped}
    OBVIOUS
  <1>3. now' = now /\ reply' = reply
    BY DEF ActiveExpire
  <1>4. \A e : e \in db'.store <=> e \in db.store /\ e.key \notin K
    BY <1>1, <1>2 DEF delAll
  <1>5. ASSUME NEW k \in reply.key, reply.ms > 0
        PROVE  \E e \in at(db', k) : e.expireAt = now + reply.ms
    <2>1. PICK e \in at(db, k) : e.expireAt = now + reply.ms
      BY <1>5 DEF RepliesTrue, PttlTells
    <2>2. ASSUME k \in K PROVE FALSE
      <3>1. PICK p \in db.queue : p.key = k /\ p.expireAtMs <= now
        BY <1>2, <2>2 DEF due
      <3>2. PICK h \in at(db, p.key) : h.expireAt = p.expireAtMs
        BY DEF Paired, Matches
      <3>3. h = e
        BY <2>1, <3>1, <3>2 DEF at, Paired, OneEntry
      <3>4. now + reply.ms <= now
        BY <2>1, <3>1, <3>2, <3>3
      <3> QED
        BY <1>5, <3>4 DEF RepliesTrue
    <2> QED
      BY <1>4, <2>1, <2>2 DEF at
  <1>6. \A k : \A e \in at(db', k) : e \in at(db, k)
    BY <1>4 DEF at
  <1> QED
    BY <1>3, <1>5, <1>6 DEF RepliesTrue, PttlTells

LEMMA PttlReplies ==
    ASSUME Paired(db), now \in Time, NEW k \in Key, PttlCmd(k)
    PROVE  RepliesTrue'
  <1>0. /\ \A e \in db.store : e.expireAt \in Int
        /\ \A t \in Time : t \in Int
        /\ \A u \in Later : u \in Time
    BY TimeAssumption DEF Paired, Typed, Entry, Later
  <1>1. CASE at(db, k) = {} /\ reply' = [key |-> {k}, ms |-> -2] /\ db' = db
    BY <1>1 DEF RepliesTrue, PttlTells
  <1>2. CASE \E e \in at(db, k) : /\ expired(e, now) /\ db' = ttlExpire(db, k)
                                 /\ reply' = [key |-> {k}, ms |-> -2]
    <2>1. at(db', k) = {}
      BY <1>2 DEF ttlExpire, at, storeWithout
    <2> QED
      BY <1>2, <2>1 DEF RepliesTrue, PttlTells
  <1>3. CASE \E e \in at(db, k) : /\ e.expireAt < 0 /\ db' = db /\ now' = now
                                 /\ reply' = [key |-> {k}, ms |-> -1]
    <2>1. \A e \in at(db, k) : e.expireAt < 0
      BY <1>3 DEF at, Paired, OneEntry
    <2> QED
      BY <1>3, <2>1 DEF RepliesTrue, PttlTells
  <1>4. CASE \E e \in at(db, k), u \in Later :
                /\ ~expired(e, now) /\ e.expireAt >= 0
                /\ reply' = [key |-> {k}, ms |-> e.expireAt - u]
                /\ now' = u /\ db' = db
    <2>1. PICK e \in at(db, k) : /\ e.expireAt >= 0 /\ now' \in Int /\ db' = db
                                /\ reply' = [key |-> {k}, ms |-> e.expireAt - now']
      BY <1>0, <1>4
    <2>2. \A f \in at(db, k) : f = e
      BY <2>1 DEF at, Paired, OneEntry
    <2>3. e.expireAt \in Int
      BY <1>0 DEF at
    <2>4. reply'.ms = e.expireAt - now' /\ reply'.key = {k} /\ e \in at(db', k)
      BY <2>1
    <2>5. e.expireAt = now' + reply'.ms /\ reply'.ms \in Int
      BY <2>1, <2>3, <2>4
    <2>6. \A f \in at(db', k) : f = e
      BY <2>1, <2>2
    <2>7. \A f \in at(db', k) :
             reply'.ms = IF f.expireAt < 0 THEN -1 ELSE f.expireAt - now'
      BY <2>1, <2>3, <2>4, <2>6
    <2>8. \E f \in at(db', k) : f.expireAt = now' + reply'.ms
      BY <2>4, <2>5
    <2>9. PttlTells'
      BY <2>4, <2>7, <2>8 DEF PttlTells
    <2> QED
      BY <2>5, <2>9 DEF RepliesTrue
  <1> QED
    BY <1>1, <1>2, <1>3, <1>4 DEF PttlCmd

\* What PTTL told a client about a live key is exact, and the timer does not make it
\* false, however the clock moves between the two readings.
THEOREM RepliesCorrect == Spec => []PttlTells
  <1>1. Init => RepliesTrue
    BY DEF Init, NoReply, RepliesTrue, PttlTells
  <1>2. IInv /\ RepliesTrue /\ [Next]_vars => RepliesTrue'
    <2> SUFFICES ASSUME IInv, RepliesTrue, [Next]_vars PROVE RepliesTrue'
      OBVIOUS
    <2>0. now \in Time /\ Paired(db)
      BY IInvParts
    <2>1. now \in Time /\ now \in Int /\ Paired(db)
      BY <2>0, TimeAssumption
    <2>2. ASSUME reply' = NoReply PROVE RepliesTrue'
      BY <2>2 DEF NoReply, RepliesTrue, PttlTells
    <2>3. ASSUME UNCHANGED vars PROVE RepliesTrue'
      BY <2>3 DEF vars, RepliesTrue, PttlTells
    <2>4. ASSUME NEW k \in Key, PttlCmd(k) PROVE RepliesTrue'
      BY <2>1, <2>4, PttlReplies
    <2>5. ASSUME ActiveExpire PROVE RepliesTrue'
      BY <2>1, <2>5, ActiveReplies
    <2>6. [Next]_vars => \/ reply' = NoReply \/ UNCHANGED vars \/ ActiveExpire
                        \/ \E k \in Key : PttlCmd(k)
      BY DEF Next, Command, ClockStep, SetCmd, DelCmd, ReadCmd, ScanCmd, ExpireCmd,
             PushCmd, HSetCmd, SAddCmd, ZAddCmd, PopCmd, HDelCmd, SRemCmd, ZRemCmd,
             AddCmd, TakeCmd, FlushDbCmd
    <2> QED
      BY <2>2, <2>3, <2>4, <2>5, <2>6
  <1>3. RepliesTrue => PttlTells
    BY DEF RepliesTrue
  <1> QED
    BY <1>1, <1>2, <1>3, Invariance, PTL DEF Spec
-----------------------------------------------------------------------------
(* The memory counter. *)

\* Remainders modulo SizeMod.
LEMMA ModUnique ==
    ASSUME NEW q \in Int, NEW r \in 0..(SizeMod - 1), NEW p \in Int, NEW s \in 0..(SizeMod - 1),
           SizeMod * q + r = SizeMod * p + s
    PROVE  r = s
  <1>0. SizeMod \in Nat /\ SizeMod > 0
    BY SizeAssumption
  <1>1. SizeMod * (q - p) = s - r
    BY <1>0
  <1>2. s - r < SizeMod /\ s - r > -SizeMod
    BY <1>0
  <1>3. PICK n \in Int : n = q - p
    OBVIOUS
  <1>4. ASSUME n >= 1 PROVE SizeMod * n >= SizeMod
    BY <1>0, <1>3, <1>4
  <1>5. ASSUME n <= -1 PROVE SizeMod * n <= -SizeMod
    BY <1>0, <1>3, <1>5
  <1>6. n = 0
    BY <1>0, <1>1, <1>2, <1>3, <1>4, <1>5
  <1> QED
    BY <1>0, <1>1, <1>3, <1>6

LEMMA ModRange ==
    ASSUME NEW x \in Int
    PROVE  x % SizeMod \in 0..(SizeMod - 1) /\ \E q \in Int : x = SizeMod * q + (x % SizeMod)
  <1>0. SizeMod \in Nat /\ SizeMod > 0
    BY SizeAssumption
  <1>1. x \div SizeMod \in Int /\ x = SizeMod * (x \div SizeMod) + (x % SizeMod)
    BY <1>0
  <1> QED
    BY <1>0, <1>1

\* A remainder may be taken early.
LEMMA ModShift ==
    ASSUME NEW x \in Int, NEW y \in Int
    PROVE  ((x % SizeMod) + y) % SizeMod = (x + y) % SizeMod
  <1>0. SizeMod \in Nat /\ SizeMod > 0
    BY SizeAssumption
  <1>1. PICK q \in Int : x = SizeMod * q + (x % SizeMod)
    BY ModRange
  <1>2. PICK r \in 0..(SizeMod - 1) : r = x % SizeMod
    BY ModRange
  <1>3. r + y \in Int /\ x + y \in Int
    BY <1>0
  <1>4. PICK p \in Int : r + y = SizeMod * p + ((r + y) % SizeMod)
    BY <1>3, ModRange
  <1>5. PICK o \in Int : x + y = SizeMod * o + ((x + y) % SizeMod)
    BY <1>3, ModRange
  <1>6. PICK a \in 0..(SizeMod - 1), b \in 0..(SizeMod - 1) :
           a = (r + y) % SizeMod /\ b = (x + y) % SizeMod
    BY <1>3, ModRange
  <1>7. SizeMod * o + b = SizeMod * q + SizeMod * p + a
    BY <1>0, <1>1, <1>2, <1>4, <1>5, <1>6
  <1>8. SizeMod * (q + p) + a = SizeMod * o + b /\ q + p \in Int
    BY <1>0, <1>7
  <1>9. a = b
    BY <1>8, ModUnique
  <1> QED
    BY <1>2, <1>6, <1>9

-----------------------------------------------------------------------------
LEMMA UnitsFinite ==
    ASSUME NEW S \in SUBSET Entry, IsFiniteSet(S)
    PROVE  IsFiniteSet(units(S)) /\ memTotal(S) \in Nat
  <1> DEFINE g(e) == {e} \X (1..memoryUsage(e.value))
             T == {g(e) : e \in S}
             f == [e \in S |-> g(e)]
  <1>1. \A e \in S : memoryUsage(e.value) \in Nat
    BY DEF memoryUsage, Entry, Object
  <1>2. ASSUME NEW e \in S PROVE IsFiniteSet(g(e))
    <2>1. IsFiniteSet({e})
      BY FS_Singleton
    <2>2. IsFiniteSet(1..memoryUsage(e.value))
      BY <1>1, FS_Interval
    <2> QED
      BY <2>1, <2>2, FS_Product
  <1> HIDE DEF g
  <1>3. f \in Surjection(S, T)
    BY DEF Surjection
  <1> HIDE DEF f
  <1>4. IsFiniteSet(T)
    BY <1>3, FS_Surjection
  <1>5. \A U \in T : IsFiniteSet(U)
    BY <1>2
  <1>6. IsFiniteSet(UNION T)
    BY <1>4, <1>5, FS_UNION
  <1> QED
    BY <1>6, FS_CardinalityType DEF units, memTotal, g

LEMMA TotalOfOne ==
    ASSUME NEW e \in Entry
    PROVE  memTotal({e}) = memoryUsage(e.value)
  <1>1. units({e}) = {e} \X (1..memoryUsage(e.value))
    BY DEF units
  <1>2. memoryUsage(e.value) \in Nat
    BY DEF memoryUsage, Entry, Object
  <1>3. IsFiniteSet({e}) /\ Cardinality({e}) = 1
    BY FS_Singleton
  <1>4. /\ IsFiniteSet(1..memoryUsage(e.value))
        /\ Cardinality(1..memoryUsage(e.value)) = memoryUsage(e.value)
    BY <1>2, FS_Interval
  <1>5. Cardinality({e} \X (1..memoryUsage(e.value)))
           = Cardinality({e}) * Cardinality(1..memoryUsage(e.value))
    BY <1>3, <1>4, FS_Product
  <1>6. PICK c \in Nat : c = memoryUsage(e.value)
    BY <1>2
  <1>7. Cardinality(units({e})) = 1 * c
    BY <1>1, <1>3, <1>4, <1>5, <1>6, Zenon
  <1> QED
    BY <1>6, <1>7 DEF memTotal

\* Two sets without a common entry occupy the sum of what they occupy.
LEMMA TotalOfUnion ==
    ASSUME NEW A \in SUBSET Entry, IsFiniteSet(A), NEW B \in SUBSET Entry, IsFiniteSet(B),
           A \cap B = {}
    PROVE  memTotal(A \cup B) = memTotal(A) + memTotal(B)
  <1>1. IsFiniteSet(units(A)) /\ IsFiniteSet(units(B))
    BY UnitsFinite
  <1>2. units(A \cup B) = units(A) \cup units(B)
    BY DEF units
  <1>3. units(A) \cap units(B) = {}
    BY DEF units
  <1>4. Cardinality(units(A)) \in Nat /\ Cardinality(units(B)) \in Nat
    BY <1>1, FS_CardinalityType
  <1>5. Cardinality(units(A) \cup units(B))
          = Cardinality(units(A)) + Cardinality(units(B)) - Cardinality(units(A) \cap units(B))
    BY <1>1, FS_Union
  <1>6. Cardinality({}) = 0
    BY FS_EmptySet
  <1>7. PICK a \in Nat, b \in Nat : a = Cardinality(units(A)) /\ b = Cardinality(units(B))
    BY <1>4
  <1>8. Cardinality(units(A \cup B)) = a + b - 0
    BY <1>2, <1>3, <1>5, <1>6, <1>7, Zenon
  <1> QED
    BY <1>7, <1>8 DEF memTotal

-----------------------------------------------------------------------------
\* What keeps the counter a number, and the record a Database.
Counted(d) ==
    /\ IsFiniteSet(d.store)
    /\ d.usedMemory \in 0..(SizeMod - 1)
    /\ d = [store |-> d.store, queue |-> d.queue, usedMemory |-> d.usedMemory]

\* From d to f the counter moves by what the objects gain or lose.
Tracks(d, f) ==
    (f.usedMemory - d.usedMemory) % SizeMod = (memTotal(f.store) - memTotal(d.store)) % SizeMod

LEMMA RemovalTracks ==
    ASSUME NEW d, Typed(d), Counted(d), NEW A \in SUBSET d.store, NEW f,
           f.store = d.store \ A, f.usedMemory = lessMemory(d, A)
    PROVE  /\ IsFiniteSet(f.store) /\ f.usedMemory \in 0..(SizeMod - 1)
           /\ memTotal(A) \in Nat
           /\ Tracks(d, f)
  <1>0. SizeMod \in Nat /\ SizeMod > 0
    BY SizeAssumption
  <1>1. IsFiniteSet(d.store) /\ d.store \in SUBSET Entry /\ d.usedMemory \in Int
    BY <1>0 DEF Counted, Typed
  <1>2. IsFiniteSet(A) /\ IsFiniteSet(f.store)
    BY <1>1, FS_Subset
  <1>3. A \in SUBSET Entry /\ f.store \in SUBSET Entry
    BY <1>1
  <1>4. memTotal(A) \in Nat /\ memTotal(f.store) \in Nat
    BY <1>2, <1>3, UnitsFinite
  <1>5. A \cap f.store = {} /\ d.store = A \cup f.store
    OBVIOUS
  <1>6. memTotal(d.store) = memTotal(A) + memTotal(f.store)
    BY <1>2, <1>3, <1>5, TotalOfUnion, Zenon
  <1>7. PICK a \in Int, b \in Int, u \in Int :
           a = memTotal(A) /\ b = memTotal(f.store) /\ u = d.usedMemory
    BY <1>1, <1>4
  <1>8. f.usedMemory = (u - a) % SizeMod /\ u - a \in Int /\ -u \in Int
    BY <1>7 DEF lessMemory
  <1>9. (u - a) % SizeMod \in 0..(SizeMod - 1)
    BY <1>8, ModRange
  <1>10. (((u - a) % SizeMod) + (-u)) % SizeMod = ((u - a) + (-u)) % SizeMod
    BY <1>8, ModShift
  <1>11. (f.usedMemory - u) % SizeMod = (-a) % SizeMod
    BY <1>0, <1>8, <1>9, <1>10
  <1>12. (b - (a + b)) % SizeMod = (-a) % SizeMod
    BY <1>0
  <1>13. memTotal(f.store) - memTotal(d.store) = b - (a + b)
    BY <1>6, <1>7
  <1>14. Tracks(d, f)
    BY <1>7, <1>11, <1>12, <1>13 DEF Tracks
  <1> QED
    BY <1>2, <1>4, <1>8, <1>9, <1>14

LEMMA DelAllCounted ==
    ASSUME NEW d, Typed(d), Counted(d), NEW K
    PROVE  Counted(delAll(d, K)) /\ Tracks(d, delAll(d, K))
  <1> DEFINE A == {e \in d.store : e.key \in K}
             f == delAll(d, K)
  <1>1. f.store = d.store \ A /\ f.usedMemory = lessMemory(d, A) /\ A \in SUBSET d.store
    BY DEF delAll
  <1>2. f = [store |-> f.store, queue |-> f.queue, usedMemory |-> f.usedMemory]
    BY DEF delAll
  <1> HIDE DEF f, A
  <1>3. IsFiniteSet(f.store) /\ f.usedMemory \in 0..(SizeMod - 1) /\ Tracks(d, f)
    BY <1>1, RemovalTracks
  <1> QED
    BY <1>2, <1>3 DEF Counted, f

LEMMA DelCounted ==
    ASSUME NEW d, Typed(d), Counted(d), NEW k
    PROVE  Counted(del(d, k)) /\ Tracks(d, del(d, k))
  <1> DEFINE A == at(d, k)
             f == del(d, k)
  <1>1. f.store = d.store \ A /\ f.usedMemory = lessMemory(d, A) /\ A \in SUBSET d.store
    BY DEF del, storeWithout, at
  <1>2. f = [store |-> f.store, queue |-> f.queue, usedMemory |-> f.usedMemory]
    BY DEF del
  <1> HIDE DEF f, A
  <1>3. IsFiniteSet(f.store) /\ f.usedMemory \in 0..(SizeMod - 1) /\ Tracks(d, f)
    BY <1>1, RemovalTracks
  <1> QED
    BY <1>2, <1>3 DEF Counted, f

LEMMA CheckCounted ==
    ASSUME NEW d, Typed(d), Counted(d), NEW k, NEW t
    PROVE  /\ Counted(checkAndExpire(d, k, t)) /\ Tracks(d, checkAndExpire(d, k, t))
  <1>1. CASE checkAndExpire(d, k, t) = del(d, k)
    BY <1>1, DelCounted
  <1>2. CASE checkAndExpire(d, k, t) = d
    <2>1. memTotal(d.store) \in Nat /\ d.usedMemory \in Int
      BY UnitsFinite, SizeAssumption DEF Typed, Counted
    <2>2. Tracks(d, d)
      BY <2>1 DEF Tracks
    <2> QED
      BY <1>2, <2>2
  <1> QED
    BY <1>1, <1>2 DEF checkAndExpire

\* A key written afresh.
LEMMA WriteCounted ==
    ASSUME NEW d, Typed(d), Counted(d), NEW k \in Key, NEW v \in Object, NEW f,
           f.store = storeWithout(d, k)
                       \cup {[key |-> k, value |-> v, expireAt |-> NoExpiry]},
           f.usedMemory = (lessMemory(d, at(d, k)) + memoryUsage(v)) % SizeMod,
           f = [store |-> f.store, queue |-> f.queue, usedMemory |-> f.usedMemory]
    PROVE  Counted(f) /\ Tracks(d, f)
  <1> DEFINE g == del(d, k)
  <1>0. SizeMod \in Nat /\ SizeMod > 0
    BY SizeAssumption
  <1>01. [key |-> k, value |-> v, expireAt |-> NoExpiry] \in Entry
    BY DEF Entry, NoExpiry
  <1>1. PICK new \in Entry : new = [key |-> k, value |-> v, expireAt |-> NoExpiry]
    BY <1>01
  <1>2. /\ g.store = storeWithout(d, k) /\ g.usedMemory = lessMemory(d, at(d, k))
        /\ g.store \in SUBSET Entry
    BY DEF del, Typed, storeWithout
  <1>3. Counted(g) /\ Tracks(d, g)
    BY DelCounted
  <1> HIDE DEF g
  <1>4. /\ IsFiniteSet(g.store) /\ IsFiniteSet({new})
        /\ memTotal(g.store) \in Nat /\ memTotal(d.store) \in Nat
        /\ d.usedMemory \in Int /\ g.usedMemory \in Int
    <2>1. IsFiniteSet(g.store) /\ IsFiniteSet(d.store)
      BY <1>3 DEF Counted
    <2>2. memTotal(g.store) \in Nat /\ memTotal(d.store) \in Nat
      BY <1>2, <2>1, UnitsFinite DEF Typed
    <2>3. d.usedMemory \in Int /\ g.usedMemory \in Int
      BY <1>0, <1>3 DEF Counted
    <2> QED
      BY <2>1, <2>2, <2>3, FS_Singleton
  <1>5. f.store = g.store \cup {new} /\ g.store \cap {new} = {}
    BY <1>1, <1>2 DEF storeWithout
  <1>6. memoryUsage(v) \in Nat /\ memTotal({new}) = memoryUsage(v)
    BY <1>1, TotalOfOne DEF memoryUsage, Object
  <1>7. memTotal(f.store) = memTotal(g.store) + memoryUsage(v)
    BY <1>1, <1>2, <1>4, <1>5, <1>6, TotalOfUnion
  <1>8. IsFiniteSet(f.store)
    BY <1>4, <1>5, FS_AddElement
  <1>9. PICK c \in Int, a \in Int, b \in Int, u \in Int, w \in Int :
           /\ c = memoryUsage(v) /\ a = memTotal(d.store) /\ b = memTotal(g.store)
           /\ u = d.usedMemory /\ w = g.usedMemory
    BY <1>4, <1>6
  <1>10. f.usedMemory = (w + c) % SizeMod /\ w + c \in Int /\ -u \in Int
    BY <1>2, <1>9
  <1>11. (w + c) % SizeMod \in 0..(SizeMod - 1)
    BY <1>10, ModRange
  <1>12. (w - u) % SizeMod = (b - a) % SizeMod
    BY <1>3, <1>9 DEF Tracks
  <1>13. (((w + c) % SizeMod) + (-u)) % SizeMod = ((w + c) + (-u)) % SizeMod
    BY <1>10, ModShift
  <1>14. (((w - u) % SizeMod) + c) % SizeMod = ((w - u) + c) % SizeMod
    BY ModShift
  <1>15. (((b - a) % SizeMod) + c) % SizeMod = ((b - a) + c) % SizeMod
    BY ModShift
  <1>16. (f.usedMemory - u) % SizeMod = ((b + c) - a) % SizeMod
    <2>1. (f.usedMemory - u) % SizeMod = (((w + c) % SizeMod) + (-u)) % SizeMod
      BY <1>0, <1>10, <1>11
    <2>2. (w + c) + (-u) = (w - u) + c /\ (b - a) + c = (b + c) - a
      OBVIOUS
    <2> QED
      BY <2>1, <2>2, <1>12, <1>13, <1>14, <1>15
  <1>17. Tracks(d, f)
    BY <1>7, <1>9, <1>16 DEF Tracks
  <1> QED
    BY <1>8, <1>10, <1>11, <1>17 DEF Counted

\* Entries changed in place: as many entries as before or fewer, and the same counter.
LEMMA ImageFinite ==
    ASSUME NEW S, IsFiniteSet(S), NEW T, NEW f, f \in [S -> T], T = {f[e] : e \in S}
    PROVE  IsFiniteSet(T)
  <1>1. f \in Surjection(S, T)
    BY DEF Surjection
  <1> QED
    BY <1>1, FS_Surjection

LEMMA EditCounted ==
    ASSUME NEW d, Counted(d), NEW k, NEW n
    PROVE  Counted(edit(d, k, n))
  <1> DEFINE g(e) == IF e.key = k THEN [e EXCEPT !.value.items = n] ELSE e
             T == {g(e) : e \in d.store}
             f == [e \in d.store |-> g(e)]
  <1>1. /\ edit(d, k, n).store = T /\ edit(d, k, n).usedMemory = d.usedMemory
        /\ edit(d, k, n) = [store |-> edit(d, k, n).store, queue |-> edit(d, k, n).queue,
                            usedMemory |-> edit(d, k, n).usedMemory]
    BY DEF edit
  <1> HIDE DEF g
  <1>2. f \in [d.store -> T] /\ T = {f[e] : e \in d.store}
    OBVIOUS
  <1> HIDE DEF f, T
  <1>3. IsFiniteSet(T)
    BY <1>2, ImageFinite DEF Counted
  <1> QED
    BY <1>1, <1>3 DEF Counted

LEMMA DeadlineCounted ==
    ASSUME NEW d, Paired(d), Counted(d), NEW k, NEW ms \in Int
    PROVE  Counted(deadline(d, k, ms)) /\ memTotal(deadline(d, k, ms).store) = memTotal(d.store)
  <1> DEFINE g(e) == IF e.key = k THEN [e EXCEPT !.expireAt = ms] ELSE e
             T == {g(e) : e \in d.store}
             f == [e \in d.store |-> g(e)]
             W == storeWithout(d, k)
  <1>1. /\ deadline(d, k, ms).store = T /\ deadline(d, k, ms).usedMemory = d.usedMemory
        /\ deadline(d, k, ms) = [store |-> deadline(d, k, ms).store,
                                 queue |-> deadline(d, k, ms).queue,
                                 usedMemory |-> deadline(d, k, ms).usedMemory]
    BY DEF deadline
  <1>2. ASSUME NEW e \in d.store
        PROVE  /\ e \in Entry /\ g(e) \in Entry /\ g(e).key = e.key /\ g(e).value = e.value
               /\ e.key # k => g(e) = e
    <2>1. e \in Entry
      BY DEF Paired, Typed
    <2> QED
      BY <2>1 DEF Entry
  <1> HIDE DEF g
  <1>3. f \in [d.store -> T] /\ T = {f[e] : e \in d.store}
    OBVIOUS
  <1> HIDE DEF f
  <1>4. IsFiniteSet(T)
    <2> HIDE DEF T
    <2> QED
      BY <1>3, ImageFinite DEF Counted
  <1>5. Counted(deadline(d, k, ms))
    BY <1>1, <1>4 DEF Counted
  <1>6. CASE at(d, k) = {}
    <2>1. \A e \in d.store : g(e) = e
      BY <1>2, <1>6 DEF at
    <2>2. T = d.store
      BY <2>1
    <2> QED
      BY <1>1, <1>5, <2>2
  <1>7. CASE at(d, k) # {}
    <2>1. PICK e \in d.store : e.key = k
      BY <1>7 DEF at
    <2>2. d.store = W \cup {e} /\ e \notin W
      BY <2>1 DEF storeWithout, Paired, OneEntry
    <2>3. T = W \cup {g(e)} /\ g(e) \notin W
      <3>1. \A w \in W : w \in d.store /\ g(w) = w
        BY <1>2 DEF storeWithout
      <3>2. g(e).key = k /\ g(e) \in T
        BY <1>2, <2>1
      <3>3. g(e) \notin W
        BY <3>2 DEF storeWithout
      <3> HIDE DEF W
      <3>4. T \subseteq W \cup {g(e)}
        BY <2>2, <3>1
      <3>5. W \cup {g(e)} \subseteq T
        BY <3>1, <3>2
      <3> QED
        BY <3>3, <3>4, <3>5
    <2>4. W \in SUBSET Entry /\ IsFiniteSet(W)
      BY FS_Subset DEF Paired, Typed, Counted, storeWithout
    <2>5. PICK h \in Entry : h = g(e)
      BY <1>2
    <2>6. IsFiniteSet({e}) /\ IsFiniteSet({h}) /\ W \cap {e} = {} /\ W \cap {h} = {}
      BY <2>2, <2>3, <2>5, FS_Singleton
    <2>7. memTotal(W \cup {e}) = memTotal(W) + memTotal({e})
      BY <1>2, <2>4, <2>6, TotalOfUnion
    <2>8. memTotal(W \cup {h}) = memTotal(W) + memTotal({h})
      BY <1>2, <2>4, <2>6, TotalOfUnion
    <2>9. memTotal({e}) = memTotal({h})
      BY <1>2, <2>5, TotalOfOne
    <2> QED
      BY <1>1, <1>5, <2>2, <2>3, <2>5, <2>7, <2>8, <2>9
  <1> QED
    BY <1>6, <1>7

\* One step of the commands.
LEMMA SetCounted ==
    ASSUME Paired(db), Counted(db), NEW k \in Key, NEW items \in 0..1, SetCmd(k, items)
    PROVE  Counted(db') /\ Tracks(db, db')
  <1>0. [type |-> "STRING", items |-> items] \in Object
    BY DEF Object
  <1>1. PICK v \in Object : v = [type |-> "STRING", items |-> items]
    BY <1>0
  <1>2. /\ db'.store = storeWithout(db, k)
                         \cup {[key |-> k, value |-> v, expireAt |-> NoExpiry]}
        /\ db'.usedMemory = (lessMemory(db, at(db, k)) + memoryUsage(v)) % SizeMod
        /\ db' = [store |-> db'.store, queue |-> db'.queue, usedMemory |-> db'.usedMemory]
    BY <1>1 DEF SetCmd, set
  <1> QED
    BY <1>2, WriteCounted DEF Paired

LEMMA ExpireCounted ==
    ASSUME Paired(db), AllFilled(db), Counted(db), now \in Time, NEW k \in Key, NEW ttl \in Ttl,
           ExpireCmd(k, ttl)
    PROVE  Counted(db') /\ Tracks(db, db')
  <1>1. PICK u \in Later :
           db' = IF at(checkAndExpire(db, k, u), k) = {} THEN checkAndExpire(db, k, u)
                 ELSE deadline(checkAndExpire(db, k, u), k, now + ttl)
    BY DEF ExpireCmd
  <1>2. PICK d : d = checkAndExpire(db, k, u)
    OBVIOUS
  <1>3. Paired(d)
    BY <1>2, CheckEffect
  <1>4. Counted(d) /\ Tracks(db, d)
    BY <1>2, CheckCounted DEF Paired
  <1>5. CASE db' = d
    BY <1>4, <1>5
  <1>6. CASE db' = deadline(d, k, now + ttl)
    <2>1. PICK ms \in Int : ms = now + ttl
      BY TimeAssumption, TtlAssumption
    <2>2. db' = deadline(d, k, ms)
      BY <1>6, <2>1
    <2>3. Counted(db') /\ memTotal(db'.store) = memTotal(d.store)
      BY <1>3, <1>4, <2>2, DeadlineCounted
    <2>4. db'.usedMemory = d.usedMemory
      BY <2>2 DEF deadline
    <2> QED
      BY <1>4, <2>3, <2>4 DEF Tracks
  <1> QED
    BY <1>1, <1>2, <1>5, <1>6

LEMMA PttlCounted ==
    ASSUME Paired(db), Counted(db), NEW k, PttlCmd(k)
    PROVE  Counted(db')
  <1>1. CASE db' = db
    BY <1>1
  <1>2. CASE db' = ttlExpire(db, k)
    <2>1. /\ db'.store \in SUBSET db.store /\ db'.usedMemory = db.usedMemory
          /\ db' = [store |-> db'.store, queue |-> db'.queue, usedMemory |-> db'.usedMemory]
      BY <1>2 DEF ttlExpire, storeWithout
    <2>2. IsFiniteSet(db'.store)
      BY <2>1, FS_Subset DEF Counted
    <2> QED
      BY <2>1, <2>2 DEF Counted
  <1> QED
    BY <1>1, <1>2 DEF PttlCmd

LEMMA AddCounted ==
    ASSUME Paired(db), AllFilled(db), Counted(db), NEW k \in Key, NEW type \in Container,
           AddCmd(k, type)
    PROVE  Counted(db')
  <1>1. PICK found : found = checkAndExpire(db, k, now)
    OBVIOUS
  <1>2. PICK v : v = [type |-> type, items |-> 0]
    OBVIOUS
  <1>3. v \in Object
    BY <1>2 DEF Object
  <1>4. PICK d : d = IF at(found, k) = {} THEN setObject(found, k, v) ELSE found
    OBVIOUS
  <1>5. Typed(found)
    BY <1>1, CheckEffect DEF Paired
  <1>6. Counted(found)
    BY <1>1, CheckCounted DEF Paired
  <1>7. Counted(d)
    <2>1. CASE at(found, k) = {}
      <3>1. /\ d.store = storeWithout(found, k)
                           \cup {[key |-> k, value |-> v, expireAt |-> NoExpiry]}
            /\ d.usedMemory = (lessMemory(found, at(found, k)) + memoryUsage(v)) % SizeMod
            /\ d = [store |-> d.store, queue |-> d.queue, usedMemory |-> d.usedMemory]
        BY <1>4, <2>1 DEF setObject
      <3> QED
        BY <1>3, <1>5, <1>6, <3>1, WriteCounted
    <2> QED
      BY <1>4, <1>6, <2>1
  <1>8. db' = d \/ \E n : db' = edit(d, k, n)
    BY <1>1, <1>2, <1>4 DEF AddCmd
  <1> QED
    BY <1>7, <1>8, EditCounted

LEMMA TakeCounted ==
    ASSUME Paired(db), AllFilled(db), Counted(db), NEW k, NEW type, TakeCmd(k, type)
    PROVE  Counted(db')
  <1>1. PICK d : d = checkAndExpire(db, k, now)
    OBVIOUS
  <1>2. Paired(d)
    BY <1>1, CheckEffect
  <1>3. Counted(d)
    BY <1>1, CheckCounted DEF Paired
  <1>4. db' = d \/ \E n : db' = take(d, k, n)
    BY <1>1 DEF TakeCmd
  <1>5. Typed(edit(d, k, 0))
    BY <1>2, EditPaired DEF Paired
  <1>6. Counted(edit(d, k, 0))
    BY <1>3, EditCounted
  <1>7. Counted(del(edit(d, k, 0), k))
    BY <1>5, <1>6, DelCounted
  <1>8. ASSUME NEW n, db' = take(d, k, n) PROVE Counted(db')
    BY <1>3, <1>7, <1>8, EditCounted DEF take
  <1> QED
    BY <1>3, <1>4, <1>8

LEMMA ReplyTyped ==
    ASSUME Paired(db), now \in Time, reply \in [key : SUBSET Key, ms : Int], [Next]_vars
    PROVE  reply' \in [key : SUBSET Key, ms : Int]
  <1>0. /\ \A e \in db.store : e.expireAt \in Int
        /\ \A u \in Later : u \in Int
    BY TimeAssumption DEF Paired, Typed, Entry, Later
  <1>1. ASSUME NEW k \in Key, PttlCmd(k)
        PROVE  reply' \in [key : SUBSET Key, ms : Int]
    BY <1>0, <1>1 DEF PttlCmd, at
  <1>2. NoReply \in [key : SUBSET Key, ms : Int]
    BY DEF NoReply
  <1>3. \/ reply' = NoReply \/ reply' = reply \/ \E k \in Key : PttlCmd(k)
    BY DEF Next, Command, ClockStep, SetCmd, DelCmd, ReadCmd, ScanCmd, ExpireCmd,
           PushCmd, HSetCmd, SAddCmd, ZAddCmd, PopCmd, HDelCmd, SRemCmd, ZRemCmd,
           AddCmd, TakeCmd, FlushDbCmd, ActiveExpire, vars
  <1> QED
    BY <1>1, <1>2, <1>3

\* What the proofs of TypeOK and MemoryTracks start from.
CInv == IInv /\ Counted(db) /\ reply \in [key : SUBSET Key, ms : Int]

LEMMA CountedStep ==
    ASSUME CInv, [Next]_vars
    PROVE  Counted(db')
  <1>1. now \in Time /\ Paired(db) /\ AllFilled(db) /\ Counted(db) /\ Typed(db)
    BY IInvParts DEF CInv, Paired
  <1>2. ASSUME NEW K, db' = delAll(db, K) PROVE Counted(db')
    BY <1>1, <1>2, DelAllCounted
  <1>3. ASSUME NEW k \in Key, NEW items \in 0..1, SetCmd(k, items) PROVE Counted(db')
    BY <1>1, <1>3, SetCounted
  <1>4. ASSUME NEW k \in Key, ReadCmd(k) PROVE Counted(db')
    BY <1>1, <1>4, CheckCounted DEF ReadCmd
  <1>5. ASSUME NEW k \in Key, PttlCmd(k) PROVE Counted(db')
    BY <1>1, <1>5, PttlCounted
  <1>6. ASSUME NEW k \in Key, NEW ttl \in Ttl, ExpireCmd(k, ttl) PROVE Counted(db')
    BY <1>1, <1>6, ExpireCounted
  <1>7. ASSUME NEW k \in Key, NEW type \in Container, AddCmd(k, type) PROVE Counted(db')
    BY <1>1, <1>7, AddCounted
  <1>8. ASSUME NEW k \in Key, NEW type \in Container, TakeCmd(k, type) PROVE Counted(db')
    BY <1>1, <1>8, TakeCounted
  <1>9. ASSUME FlushDbCmd PROVE Counted(db')
    BY <1>9, SizeAssumption, FS_EmptySet DEF FlushDbCmd, EmptyDb, Counted
  <1>10. \A K : DelCmd(K) => \E J : db' = delAll(db, J)
    BY DEF DelCmd
  <1>11. \A batch : ScanCmd(batch) => \E J : db' = delAll(db, J)
    BY DEF ScanCmd
  <1>12. ActiveExpire => \E J : db' = delAll(db, J)
    BY DEF ActiveExpire
  <1>13. CASE Command
    BY <1>2, <1>3, <1>4, <1>5, <1>6, <1>7, <1>8, <1>9, <1>10, <1>11, <1>13
       DEF Command, PushCmd, HSetCmd, SAddCmd, ZAddCmd, PopCmd, HDelCmd, SRemCmd, ZRemCmd
  <1>14. CASE ClockStep \/ UNCHANGED vars
    BY <1>1, <1>14 DEF ClockStep, vars
  <1> QED
    BY <1>2, <1>12, <1>13, <1>14 DEF Next

\* Type correctness and a finite table.
LEMMA CountedInvariance == Spec => []CInv
  <1>1. Init => CInv
    <2> SUFFICES ASSUME Init PROVE CInv
      OBVIOUS
    <2>1. IInv
      BY TimeAssumption DEF Init, IInv, EmptyDb, Typed, OneEntry, HeapMatchesTable, Matches,
             NoEmptyContainer
    <2>2. Counted(db)
      BY SizeAssumption, FS_EmptySet DEF Init, EmptyDb, Counted
    <2>3. reply \in [key : SUBSET Key, ms : Int]
      BY DEF Init, NoReply
    <2> QED
      BY <2>1, <2>2, <2>3 DEF CInv
  <1>2. CInv /\ [Next]_vars => CInv'
    <2> SUFFICES ASSUME CInv, [Next]_vars PROVE CInv'
      OBVIOUS
    <2>1. IInv'
      BY NextStep DEF CInv
    <2>2. reply' \in [key : SUBSET Key, ms : Int]
      BY IInvParts, ReplyTyped DEF CInv
    <2> QED
      BY <2>1, <2>2, CountedStep DEF CInv
  <1> QED
    BY <1>1, <1>2, PTL DEF Spec

\* Type correctness: entries, nodes and replies are what they should be, and the counter
\* stays a size_t.
THEOREM TypeCorrect == Spec => []TypeOK
  <1>1. CInv => TypeOK
    <2> SUFFICES ASSUME CInv PROVE TypeOK
      OBVIOUS
    <2>1. db.store \in SUBSET Entry /\ db.queue \in SUBSET Node /\ now \in Time
      BY DEF CInv, IInv, Typed
    <2>2. /\ db.usedMemory \in 0..(SizeMod - 1)
          /\ db = [store |-> db.store, queue |-> db.queue, usedMemory |-> db.usedMemory]
      BY DEF CInv, Counted
    <2>3. db \in [store : SUBSET Entry, queue : SUBSET Node, usedMemory : 0..(SizeMod - 1)]
      BY <2>1, <2>2
    <2> QED
      BY <2>1, <2>3 DEF CInv, TypeOK
  <1> QED
    BY <1>1, CountedInvariance, PTL

\* The counter follows the objects in every step of the timer, of SET, DEL, EXPIRE, SCAN
\* and the reads, whatever the counter had become in other steps.
THEOREM MemoryCorrect == Spec => MemoryTracks
  <1>1. CInv =>
          [\/ ActiveExpire
           \/ \E k \in Key : \/ ReadCmd(k)
                             \/ \E items \in 0..1 : SetCmd(k, items)
                             \/ \E ttl \in Ttl : ExpireCmd(k, ttl)
           \/ \E K \in SUBSET Key : DelCmd(K)
           \/ \E batch \in SUBSET keysOf(db) : ScanCmd(batch)
           => (db'.usedMemory - db.usedMemory) % SizeMod
                 = (memTotal(db'.store) - memTotal(db.store)) % SizeMod]_vars
    <2> SUFFICES ASSUME CInv,
                        \/ ActiveExpire
                        \/ \E k \in Key : \/ ReadCmd(k)
                                          \/ \E items \in 0..1 : SetCmd(k, items)
                                          \/ \E ttl \in Ttl : ExpireCmd(k, ttl)
                        \/ \E K \in SUBSET Key : DelCmd(K)
                        \/ \E batch \in SUBSET keysOf(db) : ScanCmd(batch)
                 PROVE  Tracks(db, db')
      BY DEF Tracks
    <2>1. now \in Time /\ Paired(db) /\ AllFilled(db) /\ Counted(db) /\ Typed(db)
      BY IInvParts DEF CInv, Paired
    <2>2. ASSUME NEW K, db' = delAll(db, K) PROVE Tracks(db, db')
      BY <2>1, <2>2, DelAllCounted
    <2>3. ASSUME NEW k \in Key, NEW items \in 0..1, SetCmd(k, items) PROVE Tracks(db, db')
      BY <2>1, <2>3, SetCounted
    <2>4. ASSUME NEW k \in Key, ReadCmd(k) PROVE Tracks(db, db')
      BY <2>1, <2>4, CheckCounted DEF ReadCmd
    <2>5. ASSUME NEW k \in Key, NEW ttl \in Ttl, ExpireCmd(k, ttl) PROVE Tracks(db, db')
      BY <2>1, <2>5, ExpireCounted
    <2>6. \A K : DelCmd(K) => \E J : db' = delAll(db, J)
      BY DEF DelCmd
    <2>7. \A batch : ScanCmd(batch) => \E J : db' = delAll(db, J)
      BY DEF ScanCmd
    <2>8. ActiveExpire => \E J : db' = delAll(db, J)
      BY DEF ActiveExpire
    <2> QED
      BY <2>2, <2>3, <2>4, <2>5, <2>6, <2>7, <2>8
  <1> QED
    BY <1>1, CountedInvariance, PTL DEF MemoryTracks
=============================================================================
