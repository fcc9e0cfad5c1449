--------------------------- MODULE HashTableScan ---------------------------
(***************************************************************************)
(* SCAN: one client iterates with the cursor the server returned while     *)
(* other clients keep changing the table (HashTable::scan as called by     *)
(* Database::scan and cmdScan).                                            *)
(***************************************************************************)
EXTENDS HashTable

CONSTANT Count      \* the COUNT arguments; cmdScan refuses those below 1

ASSUME CountAssumption == Count \subseteq Nat \ {0}

\* The client's iteration: the cursor to send next, the keys returned so far,
\* the keys present ever since its first call, and whether a call after the
\* first ran while the table was rehashing.
VARIABLE it

vars == <<ht, it>>

keysOf(h) == {e.key : e \in entries(h)}

Idle == [running |-> FALSE, cursor |-> 0, seen |-> {}, kept |-> {},
         overlapped |-> FALSE]

\* The slot at which the walk over primary stops: `count' entries were visited
\* (a chain is never split) or the table ended.
scanEnd(t, cursor, count) ==
    IF cursor >= t.capacity THEN cursor
    ELSE CHOOSE to \in cursor..t.capacity :
            LET enough(j) == \/ j = t.capacity
                             \/ Cardinality(slotRange(t, cursor, j)) >= count
            IN  enough(to) /\ \A j \in cursor..(to - 1) : ~enough(j)

\* Mutant: the first call does not walk the old table.
scanPrimaryOnly(h, cursor, count) ==
    LET end == scanEnd(h.primary, cursor, count) IN
    [next |-> IF end >= h.primary.capacity THEN 0 ELSE end,
     keys |-> {e.key : e \in slotRange(h.primary, cursor, end)}]

\* HashTable::scan.  The old table is walked as a whole by the call with cursor
\* 0 and not at all by the later ones.
scan(h, cursor, count) ==
    IF h.primary.capacity = 0 THEN [next |-> 0, keys |-> {}]
    ELSE LET end == scanEnd(h.primary, cursor, count)
             old == IF h.isRehashing /\ cursor = 0
                    THEN tableEntries(h.rehash) ELSE {}
         IN  [next |-> IF end >= h.primary.capacity THEN 0 ELSE end,
              keys |-> {e.key : e \in slotRange(h.primary, cursor, end) \cup old}]

ScanInit == Init /\ it = Idle

\* One SCAN command: Database::scan runs rehashStep, then the walk.
ScanCall(count) ==
    LET h == rehashStep(ht)
        r == scan(h, it.cursor, count)
    IN  /\ ht' = h
        /\ it' = [running    |-> r.next # 0,
                  cursor     |-> r.next,
                  seen       |-> r.keys \cup IF it.running THEN it.seen ELSE {},
                  kept       |-> IF it.running THEN it.kept ELSE keysOf(h),
                  overlapped |-> it.running /\ (it.overlapped \/ h.isRehashing)]

\* Any other command, of any client.
OtherCall ==
    /\ Next
    /\ it' = IF it.running THEN [it EXCEPT !.kept = @ \cap keysOf(ht')] ELSE Idle

ScanNext == (\E count \in Count : ScanCall(count)) \/ OtherCall

ScanSpec == ScanInit /\ [][ScanNext]_vars

-----------------------------------------------------------------------------
\* A finished iteration returned every key that was in the table all along,
\* provided no call after the first overlapped a rehash: a rehash that starts and
\* ends between two calls, or is under way during the first, loses nothing.
ScanCompleteQuiet ==
    ~it.running /\ ~it.overlapped => it.kept \subseteq it.seen

\* The promise of the comment at HashTable.cpp:243, "We do a full scan of rehash_
\* to ensure no keys are missed": a finished iteration returned every key that
\* was in the table all along.
ScanComplete == ~it.running => it.kept \subseteq it.seen
=============================================================================
