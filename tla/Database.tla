------------------------------ MODULE Database ------------------------------
(***************************************************************************)
(* store/Database under the commands of cmd/ and the timer of main.cpp.    *)
(* One thread runs everything, so a command is one step; what can change   *)
(* under it is the wall clock, which nowMs() reads anew at each call.      *)
(***************************************************************************)
EXTENDS Keyspace

CONSTANTS
    Time,               \* the clock readings
    Ttl,                \* the arguments of EXPIRE and PEXPIRE, in clock units
    MaxWork,            \* the argument of activeExpireCycle (200 in main.cpp)
    MaxItems,           \* bound: no container grows beyond it
    ClockMayStepBack    \* system_clock is settable, hence not monotonic

ASSUME TimeAssumption == Time \subseteq Nat /\ 0 \in Time
ASSUME TtlAssumption == Ttl \subseteq Int
ASSUME WorkAssumption == MaxWork \in Nat \ {0}
ASSUME ItemsAssumption == MaxItems \in Nat \ {0}

VARIABLES
    db,
    now,                \* the clock
    reply               \* the reply to PTTL and its key, when that was the last command

vars == <<db, now, reply>>

NoReply == [key |-> {}, ms |-> 0]

\* What a later reading of the clock in the same command may return.
Later == {t \in Time : t >= now \/ ClockMayStepBack}

Init == db = EmptyDb /\ now = 0 /\ reply = NoReply

-----------------------------------------------------------------------------
(* Commands. *)

SetCmd(k, items) ==
    /\ db' = set(db, k, [type |-> "STRING", items |-> items])
    /\ reply' = NoReply
    /\ now' = now

\* DEL key [key ...]: no expiry check.
DelCmd(K) == db' = delAll(db, K) /\ reply' = NoReply /\ now' = now

\* GET, EXISTS and the commands that read a container: findEntry, then a reply or
\* WRONGTYPE, which change nothing.  (KEYS and DBSIZE do not even check for expiry.)
ReadCmd(k) == db' = checkAndExpire(db, k, now) /\ reply' = NoReply /\ now' = now

\* SCAN: each key of the batch is checked, with a clock reading of its own.
ScanCmd(batch) ==
    \E u \in Later : \E t \in [batch -> {now, u}] :
        /\ db' = delAll(db, {k \in batch : \E e \in at(db, k) : expired(e, t[k])})
        /\ now' = u
        /\ reply' = NoReply

\* EXPIRE and PEXPIRE: the command reads the clock for the deadline, setExpire
\* reads it again for the expiry check.
ExpireCmd(k, ttl) ==
    \E u \in Later :
        LET d == checkAndExpire(db, k, u) IN
        /\ db' = IF at(d, k) = {} THEN d ELSE deadline(d, k, now + ttl)
        /\ now' = u
        /\ reply' = NoReply

\* Mutant: the deadline is replied instead of the time left.
PttlAbsolute(k) ==
    \/ /\ at(db, k) = {}
       /\ reply' = [key |-> {k}, ms |-> -2]
       /\ UNCHANGED <<db, now>>
    \/ \E e \in at(db, k), u \in Later :
        /\ db' = IF expired(e, now) THEN ttlExpire(db, k) ELSE db
        /\ reply' = [key |-> {k}, ms |-> IF expired(e, now) THEN -2 ELSE e.expireAt]
        /\ now' = u

\* TTL and PTTL: one reading for the expiry check, another for the answer.
PttlCmd(k) ==
    \/ /\ at(db, k) = {}
       /\ reply' = [key |-> {k}, ms |-> -2]
       /\ UNCHANGED <<db, now>>
    \/ \E e \in at(db, k) :
        /\ expired(e, now)
        /\ db' = ttlExpire(db, k)
        /\ reply' = [key |-> {k}, ms |-> -2]
        /\ now' = now
    \/ \E e \in at(db, k) :
        /\ e.expireAt < 0
        /\ reply' = [key |-> {k}, ms |-> -1]
        /\ UNCHANGED <<db, now>>
    \/ \E e \in at(db, k), u \in Later :
        /\ ~expired(e, now) /\ e.expireAt >= 0
        /\ reply' = [key |-> {k}, ms |-> e.expireAt - u]
        /\ now' = u
        /\ db' = db

\* The number of items after adding members: all of them new in a list, and
\* elsewhere any number of them there already.
itemsAfterAdd(e) ==
    IF e.value.type = "LIST" \/ e.value.items = 0
    THEN (e.value.items + 1)..MaxItems ELSE e.value.items..MaxItems

\* The common course of LPUSH, RPUSH, HSET, SADD and ZADD: a missing key is created
\* empty first.
AddCmd(k, type) ==
    LET found == checkAndExpire(db, k, now)
        d     == IF at(found, k) = {}
                 THEN setObject(found, k, [type |-> type, items |-> 0]) ELSE found
    IN  /\ \E e \in at(d, k) :
              IF e.value.type # type THEN db' = d       \* WRONGTYPE
              ELSE \E n \in itemsAfterAdd(e) : db' = edit(d, k, n)
        /\ reply' = NoReply
        /\ now' = now

\* The number of items after LPOP or RPOP (one fewer) and after HDEL, SREM or ZREM
\* (which may name members that are not there).
itemsAfterTake(e) ==
    IF e.value.type = "LIST" THEN {e.value.items - 1} ELSE 0..e.value.items

\* Mutant: an emptied container stays.
takeLeavesEmpty(d, k, n) == edit(d, k, n)

\* The members go, and the key with the last of them.
take(d, k, n) == IF n = 0 THEN del(edit(d, k, 0), k) ELSE edit(d, k, n)

\* The common course of LPOP, RPOP, HDEL, SREM and ZREM.
TakeCmd(k, type) ==
    LET d == checkAndExpire(db, k, now) IN
    /\ IF \E e \in at(d, k) :
             e.value.type = type /\ (type = "LIST" => e.value.items > 0)
       THEN \E e \in at(d, k) : \E n \in itemsAfterTake(e) : db' = take(d, k, n)
       ELSE db' = d         \* missing, WRONGTYPE, or nothing to pop
    /\ reply' = NoReply
    /\ now' = now

\* LPUSH and RPUSH, HSET, SADD, ZADD.
PushCmd(k) == "LIST" \in Container /\ AddCmd(k, "LIST")
HSetCmd(k) == "HASH" \in Container /\ AddCmd(k, "HASH")
SAddCmd(k) == "SET" \in Container /\ AddCmd(k, "SET")
ZAddCmd(k) == "ZSET" \in Container /\ AddCmd(k, "ZSET")

\* LPOP and RPOP, HDEL, SREM, ZREM.
PopCmd(k) == "LIST" \in Container /\ TakeCmd(k, "LIST")
HDelCmd(k) == "HASH" \in Container /\ TakeCmd(k, "HASH")
SRemCmd(k) == "SET" \in Container /\ TakeCmd(k, "SET")
ZRemCmd(k) == "ZSET" \in Container /\ TakeCmd(k, "ZSET")

FlushDbCmd == db' = EmptyDb /\ reply' = NoReply /\ now' = now

-----------------------------------------------------------------------------
\* Mutant: keys go one clock unit early.
dueEarly == {q \in db.queue : q.expireAtMs <= now + 1}

\* Mutant: a deadline equal to the clock reading is not due yet.
dueLate == {q \in db.queue : q.expireAtMs < now}

\* The nodes popExpired may pop at this clock reading.
due == {q \in db.queue : q.expireAtMs <= now}

\* activeExpireCycle: the timer pops up to MaxWork of the earliest due nodes and
\* deletes their keys.
ActiveExpire ==
    \E popped \in SUBSET due :
        /\ \/ popped = due /\ Cardinality(due) <= MaxWork
           \/ Cardinality(popped) = MaxWork
        /\ \A p \in popped, q \in due \ popped : p.expireAtMs <= q.expireAtMs
        /\ db' = delAll(db, {p.key : p \in popped})
        /\ UNCHANGED <<now, reply>>

ClockStep ==
    /\ now' \in Later
    /\ reply' = NoReply
    /\ db' = db

Command ==
    \/ \E k \in Key, items \in 0..1 : SetCmd(k, items)
    \/ \E K \in SUBSET Key : DelCmd(K)
    \/ \E k \in Key : ReadCmd(k) \/ PttlCmd(k)
    \/ \E batch \in SUBSET keysOf(db) : ScanCmd(batch)
    \/ \E k \in Key, ttl \in Ttl : ExpireCmd(k, ttl)
    \/ \E k \in Key : PushCmd(k) \/ HSetCmd(k) \/ SAddCmd(k) \/ ZAddCmd(k)
    \/ \E k \in Key : PopCmd(k) \/ HDelCmd(k) \/ SRemCmd(k) \/ ZRemCmd(k)
    \/ FlushDbCmd

Next == Command \/ ActiveExpire \/ ClockStep

Spec == Init /\ [][Next]_vars

\* The timer of main.cpp calls activeExpireCycle every 100 ms whatever the clients
\* send.
FairSpec == Spec /\ WF_vars(ActiveExpire)

-----------------------------------------------------------------------------
(* Properties. *)

\* Type correctness.
TypeOK ==
    /\ db \in [store : SUBSET Entry, queue : SUBSET Node, usedMemory : 0..(SizeMod - 1)]
    /\ now \in Time
    /\ reply \in [key : SUBSET Key, ms : Int]

Typed(d) == d.store \in SUBSET Entry /\ d.queue \in SUBSET Node

OneEntry(d) == \A e, f \in d.store : e.key = f.key => e = f

Matches(d) ==
    /\ \A q \in d.queue : \E e \in at(d, q.key) : e.expireAt = q.expireAtMs
    /\ \A e \in d.store : e.expireAt >= 0 =>
          [key |-> e.key, expireAtMs |-> e.expireAt] \in d.queue
    /\ \A p, q \in d.queue : p.key = q.key => p = q

Filled(e) == e.value.type \in Container => e.value.items > 0

\* INV-5, INV-6 and INV-7 of the code together: the heap holds a node for exactly
\* the keys that have a deadline, with the deadline the entry has.  A node without
\* its entry would make the timer delete a key whose TTL was cleared; an entry
\* without its node would never be deleted by the timer.
HeapMatchesTable == Matches(db)

\* No empty container outlives the command that emptied or created it.
NoEmptyContainer == \A e \in db.store : Filled(e)

\* The inductive invariant.
IInv ==
    /\ now \in Time
    /\ Typed(db) /\ OneEntry(db)
    /\ HeapMatchesTable /\ NoEmptyContainer

\* Only a key whose own deadline has passed expires: the timer, the lazy checks
\* and a new TTL on another key never take away one that is still live, whatever
\* deadlines it had before.
LiveKeysStay ==
    [][\/ ActiveExpire
       \/ \E k \in Key : ReadCmd(k) \/ PttlCmd(k) \/ \E ttl \in Ttl : ExpireCmd(k, ttl)
       \/ \E batch \in SUBSET keysOf(db) : ScanCmd(batch)
       => \A e \in db.store :
             expired(e, now) \/ expired(e, now') \/ e.key \in keysOf(db')]_vars

\* The memory counter moves by what the stored objects gain or lose, modulo the
\* size_t wrap, in every step but the edits of a container in place, the clean-up
\* in ttl, and FLUSHDB, which resets it.
MemoryTracks ==
    [][\/ ActiveExpire
       \/ \E k \in Key : \/ ReadCmd(k)
                         \/ \E items \in 0..1 : SetCmd(k, items)
                         \/ \E ttl \in Ttl : ExpireCmd(k, ttl)
       \/ \E K \in SUBSET Key : DelCmd(K)
       \/ \E batch \in SUBSET keysOf(db) : ScanCmd(batch)
       => (db'.usedMemory - db.usedMemory) % SizeMod
             = (memTotal(db'.store) - memTotal(db.store)) % SizeMod]_vars

\* The key has a deadline that has passed.
overdue(k) == \E e \in at(db, k) : expired(e, now)

\* A key whose deadline has passed leaves the table (or is given a new deadline),
\* although each pass of the timer is limited to MaxWork keys and clients keep
\* adding others: unless they keep setting deadlines that are past at once, for the
\* timer takes the earliest first.
DueLeaves ==
    <>[][~ \E k \in Key, ttl \in {t \in Ttl : t <= 0} : ExpireCmd(k, ttl)]_vars
        => \A k \in Key : overdue(k) ~> ~overdue(k)

\* What PTTL replied stays true until the clock moves or a command runs, passes of the
\* timer included: a positive number is the time left of a key that is still there, and
\* a live key gets its exact time left, or -1 without a deadline.  Only a key whose
\* deadline passed between the two clock readings is told something else.
PttlTells ==
    \A k \in reply.key :
        /\ reply.ms > 0 => \E e \in at(db, k) : e.expireAt = now + reply.ms
        /\ \A e \in at(db, k) :
              ~expired(e, now) => reply.ms = IF e.expireAt < 0 THEN -1 ELSE e.expireAt - now

\* What keeps a key with a deadline from being taken for one without: no deadline
\* lies before the epoch.
DeadlinesAfterEpoch == \A t \in Time, ttl \in Ttl : t + ttl >= 0
=============================================================================
