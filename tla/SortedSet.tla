----------------------------- MODULE SortedSet -----------------------------
(***************************************************************************)
(* A sorted set (ZSetData): store/Skiplist beside the dict, under ZADD and *)
(* ZREM.  A search takes one step per comparison; level i of the code is   *)
(* level i + 1 here.                                                       *)
(***************************************************************************)
EXTENDS Integers, Sequences, FiniteSets

CONSTANTS
    Member,         \* in their lexicographic order
    Score,          \* what strtod can return
    NaN,            \* the score that neither equals nor precedes any, itself included
    Addr,           \* addresses of nodes
    kMaxLevel

ASSUME MemberAssumption == Member \subseteq Nat /\ IsFiniteSet(Member)
ASSUME ScoreAssumption == Score \subseteq Int /\ NaN \in Int
ASSUME AddrAssumption == Addr \subseteq Nat \ {0}
ASSUME LevelAssumption == kMaxLevel \in Nat \ {0}

VARIABLES
    node,           \* header_ and the nodes
    level,          \* level_
    size,           \* size_
    dict,           \* the other half of ZSetData
    call            \* the insert or remove in progress

vars == <<node, level, size, dict, call>>

Header == 0
Null == -1
Levels == 1..kMaxLevel

FreeNode == [member |-> 0, score |-> 0, forward |-> <<>>, backward |-> Null]
EmptyHeader == [FreeNode EXCEPT !.forward = [i \in Levels |-> Null]]

live == {a \in Addr : node[a].forward # <<>>}
height(a) == Len(node[a].forward)

scoreEq(s, t) == s = t /\ s # NaN
scoreLess(s, t) == s < t /\ NaN \notin {s, t}

lessThan(s1, m1, s2, m2) == IF ~scoreEq(s1, s2) THEN scoreLess(s1, s2) ELSE m1 < m2

NoCall == [op |-> "none", member |-> 0, score |-> 0, x |-> Header, i |-> 0,
           update |-> [i \in Levels |-> Header], new |-> 0, thenInsert |-> FALSE]

EmptyList == [a \in Addr \cup {Header} |-> IF a = Header THEN EmptyHeader ELSE FreeNode]

Init ==
    /\ node = EmptyList
    /\ level = 1 /\ size = 0
    /\ dict = <<>>
    /\ call = NoCall

-----------------------------------------------------------------------------
(* Skiplist. *)

\* A call starts at the header, on the top level.
begin(op, m, s, new, thenInsert, top) ==
    [op |-> op, member |-> m, score |-> s, x |-> Header, i |-> top,
     update |-> [i \in Levels |-> Header], new |-> new, thenInsert |-> thenInsert]

\* Mutant: the inner loop does not move on.
SearchStays ==
    /\ call.op # "none" /\ call.i > 0
    /\ LET next == node[call.x].forward[call.i] IN
       call' = IF /\ next # Null
                  /\ lessThan(node[next].score, node[next].member, call.score, call.member)
               THEN call
               ELSE [call EXCEPT !.update[call.i] = call.x, !.i = @ - 1]
    /\ UNCHANGED <<node, level, size, dict>>

\* One comparison of the search: on along the level, or down.
Search ==
    /\ call.op # "none" /\ call.i > 0
    /\ LET next == node[call.x].forward[call.i] IN
       call' = IF /\ next # Null
                  /\ lessThan(node[next].score, node[next].member, call.score, call.member)
               THEN [call EXCEPT !.x = next]
               ELSE [call EXCEPT !.update[call.i] = call.x, !.i = @ - 1]
    /\ UNCHANGED <<node, level, size, dict>>

\* Node b with other pointers.
relinked(b, forward, backward) ==
    [member |-> node[b].member, score |-> node[b].score, forward |-> forward, backward |-> backward]

\* Mutant: the levels above the old top are not linked from the header.
linkedBelowTop(update, a, h) ==
    [b \in Addr \cup {Header} |->
        IF b = a THEN [member |-> call.member, score |-> call.score,
                       forward |-> [i \in 1..h |-> node[update[i]].forward[i]],
                       backward |-> IF update[1] = Header THEN Null ELSE update[1]]
        ELSE relinked(b, [i \in DOMAIN node[b].forward |->
                             IF i <= h /\ i <= level /\ update[i] = b THEN a ELSE node[b].forward[i]],
                      IF b = node[update[1]].forward[1] THEN a ELSE node[b].backward)]

\* The nodes once a new one of height h was spliced in behind update, at address a.
linked(update, a, h) ==
    [b \in Addr \cup {Header} |->
        IF b = a THEN [member |-> call.member, score |-> call.score,
                       forward |-> [i \in 1..h |-> node[update[i]].forward[i]],
                       backward |-> IF update[1] = Header THEN Null ELSE update[1]]
        ELSE relinked(b, [i \in DOMAIN node[b].forward |->
                             IF i <= h /\ update[i] = b THEN a ELSE node[b].forward[i]],
                      IF b = node[update[1]].forward[1] THEN a ELSE node[b].backward)]

\* Mutant: the score in the dict stays the old one.
InsertKeepsScore(h) ==
    /\ call.op = "insert" /\ call.i = 0
    /\ \E a \in Addr \ live :
        /\ \A b \in Addr \ live : a <= b
        /\ node' = linked(call.update, a, h)
    /\ level' = IF h > level THEN h ELSE level
    /\ size' = size + 1
    /\ dict' = [m \in DOMAIN dict \cup {call.member} |->
                   IF m \notin DOMAIN dict THEN call.score ELSE dict[m]]
    /\ call' = NoCall

\* The end of insert, with the level randomLevel chose.  update is the header above
\* the old top level; the address is any free one, and which makes no difference.
\* The caller then records the score.
Insert(h) ==
    /\ call.op = "insert" /\ call.i = 0
    /\ \E a \in Addr \ live :
        /\ \A b \in Addr \ live : a <= b
        /\ node' = linked(call.update, a, h)
    /\ level' = IF h > level THEN h ELSE level
    /\ size' = size + 1
    /\ dict' = [m \in DOMAIN dict \cup {call.member} |->
                   IF m = call.member THEN call.score ELSE dict[m]]
    /\ call' = NoCall

\* The levels from which remove unlinks x: up to the first that does not lead to it.
unlinkedLevels(x) ==
    {i \in 1..level : \A j \in 1..i : node[call.update[j]].forward[j] = x}

unlinked(x) ==
    [b \in Addr \cup {Header} |->
        IF b = x THEN FreeNode
        ELSE relinked(b, [i \in DOMAIN node[b].forward |->
                             IF i \in unlinkedLevels(x) /\ call.update[i] = b
                             THEN node[x].forward[i] ELSE node[b].forward[i]],
                      IF b = node[x].forward[1] THEN node[x].backward ELSE node[b].backward)]

\* Mutant: level 1 goes with the others.
shrunkToZero(nodes) ==
    CHOOSE l \in 0..level :
        /\ l = 0 \/ nodes[Header].forward[l] # Null
        /\ \A i \in (l + 1)..level : nodes[Header].forward[i] = Null

\* Top levels that are empty go.
shrunk(nodes) ==
    CHOOSE l \in 1..level :
        /\ l = 1 \/ nodes[Header].forward[l] # Null
        /\ \A i \in (l + 1)..level : nodes[Header].forward[i] = Null

\* The end of remove.  It may find nothing, and neither caller looks at the answer:
\* ZADD goes on to insert the member with its new score; ZREM erases it from the dict,
\* and with the last member the key goes, so that the next ZADD finds a new object.
Remove ==
    LET x     == node[call.x].forward[1]
        found == x # Null /\ scoreEq(node[x].score, call.score) /\ node[x].member = call.member
        last  == ~call.thenInsert /\ DOMAIN dict = {call.member}
    IN
    /\ call.op = "remove" /\ call.i = 0
    /\ node' = IF last THEN EmptyList ELSE IF found THEN unlinked(x) ELSE node
    /\ level' = IF last THEN 1 ELSE IF found THEN shrunk(unlinked(x)) ELSE level
    /\ size' = IF last THEN 0 ELSE IF found THEN size - 1 ELSE size
    /\ \/ /\ call.thenInsert
          /\ call' = begin("insert", call.member, call.new, 0, FALSE, level')
          /\ dict' = dict
       \/ /\ ~call.thenInsert
          /\ call' = NoCall
          /\ dict' = [m \in DOMAIN dict \ {call.member} |-> dict[m]]

\* rangeByRank: level 1 from the start rank on.
walked(k) ==
    LET w[j \in 0..k] == IF j = 0 THEN node[Header].forward[1]
                         ELSE IF w[j - 1] = Null THEN Null
                         ELSE node[w[j - 1]].forward[1]
    IN  w

walk(k) == walked(k)[k]

\* Mutant: negative indices count from size_ - 1.
indexFromLast(i) == IF i < 0 THEN i + size - 1 ELSE i

\* Negative indices count from the end.
index(i) == IF i < 0 THEN i + size ELSE i

rangeByRank(start, stop) ==
    LET from == IF index(start) < 0 THEN 0 ELSE index(start)
        to   == IF index(stop) >= size THEN size - 1 ELSE index(stop)
    IN  IF from > to THEN <<>>
        ELSE [i \in 1..(to - from + 1) |->
                 <<node[walk(from + i - 1)].member, node[walk(from + i - 1)].score>>]

-----------------------------------------------------------------------------
(* Commands. *)

\* ZRANK looks for the pair the dict has in the whole range.
cmdZRank(m) ==
    LET range == rangeByRank(0, size - 1)
        hits  == {r \in 1..Len(range) : range[r][1] = m /\ scoreEq(range[r][2], dict[m])}
    IN  IF hits = {} THEN Null ELSE (CHOOSE r \in hits : \A q \in hits : r <= q) - 1

\* ZADD with one pair (with several it does this for each): a new member, a new score
\* for an old one, or nothing to do.
ZAdd(m, s) ==
    /\ call.op = "none"
    /\ m \in DOMAIN dict => ~scoreEq(dict[m], s)
    /\ call' = IF m \in DOMAIN dict THEN begin("remove", m, dict[m], s, TRUE, level)
               ELSE begin("insert", m, s, 0, FALSE, level)
    /\ UNCHANGED <<node, level, size, dict>>

ZRem(m) ==
    /\ call.op = "none" /\ m \in DOMAIN dict
    /\ call' = begin("remove", m, dict[m], 0, FALSE, level)
    /\ UNCHANGED <<node, level, size, dict>>

Next ==
    \/ \E m \in Member : ZRem(m) \/ \E s \in Score : ZAdd(m, s)
    \/ Search
    \/ \E h \in Levels : Insert(h)
    \/ Remove

Spec == Init /\ [][Next]_vars

\* A command runs to its end: nothing else runs on the thread until it returns.
FairSpec == Spec /\ WF_vars(Search \/ Remove \/ \E h \in Levels : Insert(h))

-----------------------------------------------------------------------------
(* Properties. *)

\* The values the list, the dict and a call's cursor take.
TypeOK ==
    /\ DOMAIN node = Addr \cup {Header}
    /\ height(Header) = kMaxLevel
    /\ \A a \in Addr \cup {Header} :
        /\ node[a].forward \in UNION {[1..h -> Addr \cup {Null}] : h \in 0..kMaxLevel}
        /\ node[a].backward \in Addr \cup {Null}
        /\ a \in live => node[a].member \in Member /\ node[a].score \in Score
    /\ level \in Levels /\ size \in 0..Cardinality(Member)
    /\ DOMAIN dict \subseteq Member /\ \A m \in DOMAIN dict : dict[m] \in Score
    /\ call.op \in {"none", "insert", "remove"} /\ call.i \in 0..kMaxLevel
    /\ call.x \in live \cup {Header}
    /\ \A i \in Levels : call.update[i] \in live \cup {Header}

idle == call.op = "none"

\* The order of the list, the header before all.
before(a, b) ==
    \/ a = Header /\ b # Header
    \/ a # Header /\ b # Header /\ lessThan(node[a].score, node[a].member,
                                           node[b].score, node[b].member)

\* The nodes behind a that reach level i, and the first of them.
behind(a, i) == {b \in live : height(b) >= i /\ before(a, b)}
first(S) == IF S = {} THEN Null ELSE CHOOSE b \in S : \A c \in S \ {b} : before(b, c)

\* Every pointer of a tower leads to the next node of at least its level.
Linked ==
    \A a \in live \cup {Header} : \A i \in 1..height(a) :
        node[a].forward[i] = first(behind(a, i))

\* A backward pointer leads to the node whose level 1 pointer leads here.
LinkedBack ==
    \A a \in live :
        LET prev == {b \in live : node[b].forward[1] = a}
        IN  IF prev = {} THEN node[a].backward = Null ELSE prev = {node[a].backward}

\* level_ is the height of the tallest node.
LevelTight ==
    /\ \A a \in live : height(a) <= level
    /\ level = 1 \/ \E a \in live : height(a) = level

\* Between commands the list is in order: every pointer of every tower leads to the
\* next node of at least its level, past the shorter ones, whichever heights were drawn
\* and in whichever order members came, moved and went; none leads to a node that was
\* deleted; level 1 is linked both ways; and level_ is exact, which is why insert may
\* take the header for granted above it.
Towers == idle => Linked /\ LinkedBack /\ LevelTight

\* "Both are kept in sync": between commands skiplist and dict hold the same pairs, one
\* node for each member, and size_ counts them.
InSync ==
    idle => /\ {<<node[a].member, node[a].score>> : a \in live}
                 = {<<m, dict[m]>> : m \in DOMAIN dict}
            /\ Cardinality(live) = Cardinality(DOMAIN dict)
            /\ size = Cardinality(DOMAIN dict)

\* The rank a reader of the dict would expect: how many pairs come before the member's.
rankOf(m) == Cardinality({o \in DOMAIN dict : lessThan(dict[o], o, dict[m], m)})

\* The pairs with ranks lo to hi.
pairsAt(lo, hi) ==
    [k \in 1..(hi - lo + 1) |->
        LET m == CHOOSE o \in DOMAIN dict : rankOf(o) = lo + k - 1 IN <<m, dict[m]>>]

\* What ZRANGE answers for every pair of indices, the negative ones and the ones out of
\* range too, is that stretch of the dict in order of score and member; ZRANK finds
\* every member of the dict, at its place.
ReadsAgree ==
    idle =>
        LET n    == Cardinality(DOMAIN dict)
            norm == [i \in (-n - 1)..(n + 1) |-> IF i < 0 THEN i + n ELSE i]
        IN
        /\ \A start, stop \in (-n - 1)..(n + 1) :
            rangeByRank(start, stop) =
                LET R == {r \in 0..(n - 1) : norm[start] <= r /\ r <= norm[stop]}
                IN  IF R = {} THEN <<>>
                    ELSE LET lo == CHOOSE r \in R : \A q \in R : r <= q
                             hi == CHOOSE r \in R : \A q \in R : q <= r
                         IN  pairsAt(lo, hi)
        /\ \A m \in DOMAIN dict : cmdZRank(m) = rankOf(m)

\* Every command ends: no search goes round in a list that was linked wrongly.
CallsEnd == ~idle ~> idle
=============================================================================
