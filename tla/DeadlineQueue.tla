--------------------------- MODULE DeadlineQueue ---------------------------
(***************************************************************************)
(* What store/TTLHeap promises Database: at most one deadline per key, and *)
(* keys leave through popExpired in the order of their deadlines.          *)
(***************************************************************************)
EXTENDS Integers

CONSTANTS Key, Time

VARIABLE queue      \* the set of [key, expireAtMs] records

Node == [key : Key, expireAtMs : Time]

At(k) == {e \in queue : e.key = k}

Init == queue = {}

\* push, which becomes update when the key is present.
Put(k, d) == queue' = (queue \ At(k)) \cup {[key |-> k, expireAtMs |-> d]}

Drop(k) == queue' = queue \ At(k)

\* One round of popExpired: among equal deadlines any may go first.
PopEarliest ==
    \E e \in queue :
        /\ \A f \in queue : e.expireAtMs <= f.expireAtMs
        /\ queue' = queue \ {e}

Next ==
    \/ \E k \in Key, d \in Time : Put(k, d)
    \/ \E k \in Key : Drop(k)
    \/ PopEarliest

Spec == Init /\ [][Next]_queue
=============================================================================
