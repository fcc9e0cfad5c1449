-------------------------- MODULE SortedSetProofs --------------------------
(***************************************************************************)
(* Skiplist and dict stay in step, and every tower is linked to the next   *)
(* node of its level, for any members, scores and number of levels, and    *)
(* whatever heights randomLevel draws, as long as no score is NaN.         *)
(***************************************************************************)
EXTENDS SortedSet, NatLemmas, FiniteSetTheorems

-----------------------------------------------------------------------------
(* One level of the list, as a set L of nodes and an order R of nodes. *)

StrictOrder(R, N) ==
    /\ \A a \in N : <<a, a>> \notin R
    /\ \A a, b, c \in N : <<a, b>> \in R /\ <<b, c>> \in R => <<a, c>> \in R
    /\ \A a, b \in N : a = b \/ <<a, b>> \in R \/ <<b, a>> \in R

\* n is the first node of L behind b, or Null when there is none.
IsNext(R, L, b, n) ==
    IF n = Null THEN \A c \in L : <<b, c>> \notin R
    ELSE /\ n \in L /\ <<b, n>> \in R
         /\ \A c \in L : <<b, c>> \in R => c = n \/ <<n, c>> \in R

\* No two nodes of a level have the same next one.
LEMMA NextInjective ==
    ASSUME NEW N, NEW R, StrictOrder(R, N), NEW L, L \subseteq N, NEW b \in N, NEW c \in N,
           b \in L \/ \A a \in L : <<b, a>> \in R,
           c \in L \/ \A a \in L : <<c, a>> \in R,
           b \in L \/ c \in L \/ b = c,
           NEW n, n # Null, IsNext(R, L, b, n), IsNext(R, L, c, n)
    PROVE  b = c
  <1> SUFFICES ASSUME b # c PROVE FALSE
    OBVIOUS
  <1>1. n \in L /\ n \in N /\ <<b, n>> \in R /\ <<c, n>> \in R
    BY DEF IsNext
  <1>2. ASSUME <<b, c>> \in R, c \in L PROVE FALSE
    <2>1. c = n \/ <<n, c>> \in R
      BY <1>2 DEF IsNext
    <2> QED
      BY <1>1, <2>1 DEF StrictOrder
  <1>3. ASSUME <<c, b>> \in R, b \in L PROVE FALSE
    <2>1. b = n \/ <<n, b>> \in R
      BY <1>3 DEF IsNext
    <2> QED
      BY <1>1, <2>1 DEF StrictOrder
  <1>4. <<b, c>> \in R \/ <<c, b>> \in R
    BY DEF StrictOrder
  <1>5. <<b, c>> \in R => <<c, b>> \notin R
    BY DEF StrictOrder
  <1> QED
    BY <1>2, <1>3, <1>4, <1>5

\* A node `new' goes in behind u.
LEMMA Splice ==
    ASSUME NEW N, NEW R, NEW new, StrictOrder(R, N \cup {new}), new \notin N, new # Null,
           NEW L, L \subseteq N, NEW u \in N, NEW n,
           u \in L \/ \A a \in L : <<u, a>> \in R,
           <<u, new>> \in R, IsNext(R, L, u, n), n # Null => <<new, n>> \in R
    PROVE  /\ IsNext(R, L \cup {new}, new, n)
           /\ IsNext(R, L \cup {new}, u, new)
           /\ \A b \in N, m \in L \cup {Null} :
                 /\ b # u /\ IsNext(R, L, b, m)
                 /\ b \in L \/ \A a \in L : <<b, a>> \in R
                 /\ b \in L \/ u \in L
                 => IsNext(R, L \cup {new}, b, m)
  <1>1. \A c \in L : <<new, c>> \in R => <<u, c>> \in R
    BY DEF StrictOrder
  <1>2. IsNext(R, L \cup {new}, new, n)
    <2>1. <<new, new>> \notin R
      BY DEF StrictOrder
    <2> QED
      BY <1>1, <2>1 DEF IsNext
  <1>3. \A c \in L : <<u, c>> \in R => <<new, c>> \in R
    <2>1. n # Null => n \in N
      BY DEF IsNext
    <2> QED
      BY <2>1 DEF IsNext, StrictOrder
  <1>4. IsNext(R, L \cup {new}, u, new)
    BY <1>3 DEF IsNext
  <1>5. ASSUME NEW b \in N, NEW m \in L \cup {Null}, b # u, IsNext(R, L, b, m),
               b \in L \/ \A a \in L : <<b, a>> \in R,
               b \in L \/ u \in L
        PROVE  IsNext(R, L \cup {new}, b, m)
    <2>1. CASE <<b, new>> \notin R
      BY <1>5, <2>1 DEF IsNext
    <2>2. CASE <<b, new>> \in R
      <3>1. <<u, b>> \notin R
        <4> SUFFICES ASSUME <<u, b>> \in R PROVE FALSE
          OBVIOUS
        <4>1. b \in L
          BY <1>5 DEF StrictOrder
        <4>2. <<new, b>> \in R
          BY <1>3, <4>1
        <4> QED
          BY <2>2, <4>2 DEF StrictOrder
      <3>2. <<b, u>> \in R /\ u \in L
        BY <1>5, <3>1 DEF StrictOrder
      <3>3. m # Null /\ m \in L /\ (m = u \/ <<m, u>> \in R)
        BY <1>5, <3>2 DEF IsNext
      <3>4. <<m, new>> \in R
        BY <3>3 DEF StrictOrder
      <3> QED
        BY <1>5, <3>3, <3>4 DEF IsNext
    <2> QED
      BY <2>1, <2>2
  <1> QED
    BY <1>2, <1>4, <1>5

\* A node x goes out from behind u.
LEMMA Unsplice ==
    ASSUME NEW N, NEW R, StrictOrder(R, N), NEW L, L \subseteq N, NEW u \in N, NEW x, NEW n,
           x # Null, IsNext(R, L, u, x), IsNext(R, L, x, n)
    PROVE  /\ IsNext(R, L \ {x}, u, n)
           /\ \A b \in N, m \in L \cup {Null} :
                 m # x /\ IsNext(R, L, b, m) => IsNext(R, L \ {x}, b, m)
  <1>1. x \in L /\ x \in N /\ <<u, x>> \in R
    BY DEF IsNext
  <1>2. IsNext(R, L \ {x}, u, n)
    <2>1. CASE n = Null
      BY <2>1, <1>1 DEF IsNext
    <2>2. CASE n # Null
      <3>1. n \in L /\ n # x /\ <<u, n>> \in R
        BY <1>1, <2>2 DEF IsNext, StrictOrder
      <3> QED
        BY <1>1, <2>2, <3>1 DEF IsNext
    <2> QED
      BY <2>1, <2>2
  <1> QED
    BY <1>2 DEF IsNext

\* A new node finds its place in the order: those in P come before it, the others after it.
LEMMA ExtendOrder ==
    ASSUME NEW N, NEW R, StrictOrder(R, N), NEW Q, NEW P, P \subseteq N, NEW new, new \notin N,
           \A a, b \in N : <<a, b>> \in R <=> <<a, b>> \in Q,
           \A a, b \in N : <<a, b>> \in R /\ b \in P => a \in P,
           \A a \in N : (<<a, new>> \in Q <=> a \in P) /\ (<<new, a>> \in Q <=> a \notin P),
           <<new, new>> \notin Q
    PROVE  StrictOrder(Q, N \cup {new})
  <1> DEFINE M == N \cup {new}
  <1>1. \A a \in M : <<a, a>> \notin Q
    BY DEF StrictOrder
  <1>2. \A a, b \in M : a = b \/ <<a, b>> \in Q \/ <<b, a>> \in Q
    BY DEF StrictOrder
  <1>3. ASSUME NEW a \in M, NEW b \in M, NEW c \in M, <<a, b>> \in Q, <<b, c>> \in Q
        PROVE  <<a, c>> \in Q
    <2>1. CASE a \in N /\ b \in N /\ c \in N
      BY <1>3, <2>1 DEF StrictOrder
    <2>2. CASE a = new
      <3>1. b \in N /\ b \notin P
        BY <1>3, <2>2
      <3>2. c \in N
        BY <1>3, <3>1
      <3> QED
        BY <1>3, <2>2, <3>1, <3>2
    <2>3. CASE b = new
      <3>1. a \in N /\ a \in P /\ c \in N /\ c \notin P
        BY <1>3, <2>3
      <3>2. a # c /\ <<c, a>> \notin R
        BY <3>1
      <3> QED
        BY <3>1, <3>2 DEF StrictOrder
    <2>4. CASE c = new /\ a \in N /\ b \in N
      BY <1>3, <2>4
    <2> QED
      BY <2>1, <2>2, <2>3, <2>4
  <1> QED
    BY <1>1, <1>2, <1>3 DEF StrictOrder

\* Only the order of the nodes at hand matters.
LEMMA NextAgree ==
    ASSUME NEW N, NEW R, NEW Q, \A a, b \in N : <<a, b>> \in R <=> <<a, b>> \in Q,
           NEW L, L \subseteq N, NEW b \in N, NEW n, IsNext(R, L, b, n)
    PROVE  IsNext(Q, L, b, n)
  <1>1. \A c \in L : <<b, c>> \in R <=> <<b, c>> \in Q
    OBVIOUS
  <1>2. CASE n = Null
    BY <1>1, <1>2 DEF IsNext
  <1>3. CASE n # Null
    <2>1. n \in L /\ n \in N
      BY <1>3 DEF IsNext
    <2>2. \A c \in L : <<n, c>> \in R <=> <<n, c>> \in Q
      BY <2>1
    <2> QED
      BY <1>1, <1>3, <2>1, <2>2 DEF IsNext
  <1> QED
    BY <1>2, <1>3

-----------------------------------------------------------------------------
(* The invariant. *)

\* strtod was given numbers.
NoNaN == NaN \notin Score

Ptr == Addr \cup {Null}
Place == Addr \cup {Header}

Node == [member : Nat, score : Int, forward : Seq(Ptr), backward : Ptr]

NodesTyped ==
    /\ node \in [Place -> Node]
    /\ height(Header) = kMaxLevel
    /\ \A a \in Place : height(a) <= kMaxLevel
    /\ \A a \in live : node[a].member \in Member /\ node[a].score \in Score

CallTyped ==
    call \in [op : {"none", "insert", "remove"}, member : Nat, score : Int, x : Place,
              i : 0..kMaxLevel, update : [Levels -> Place], new : Int, thenInsert : BOOLEAN]

Typed ==
    /\ NodesTyped
    /\ CallTyped
    /\ level \in Levels
    /\ DOMAIN dict \subseteq Member
    /\ dict \in [DOMAIN dict -> Score]

\* The members that have a node: between the two halves of ZADD the one that moves has none.
stays == IF call.op = "insert" THEN DOMAIN dict \ {call.member} ELSE DOMAIN dict

Distinct == \A a, b \in live : node[a].member = node[b].member => a = b

Pairs ==
    /\ \A a \in live : node[a].member \in stays /\ node[a].score = dict[node[a].member]
    /\ \A m \in stays : \E a \in live : node[a].member = m
    /\ Distinct
    /\ size = Cardinality(stays)

\* The nodes in their order, and those that reach level i.
nodes == live \cup {Header}
order == {p \in nodes \X nodes : before(p[1], p[2])}
at(i) == {a \in live : height(a) >= i}

\* Linked, said without CHOOSE.
Links == \A a \in nodes : \A i \in 1..height(a) : IsNext(order, at(i), a, node[a].forward[i])

\* LinkedBack, from the other end: the node that backward leads to, which is the header
\* for Null, leads here.
prior(a) == IF node[a].backward = Null THEN Header ELSE node[a].backward
Backs == \A a \in live : prior(a) \in nodes /\ node[prior(a)].forward[1] = a

\* Node a comes before the pair that the call looks for.
pre(a) ==
    a = Header \/ (a # Header /\ lessThan(node[a].score, node[a].member, call.score, call.member))

\* On level j the search has found its place.
Found(j) ==
    LET n == node[call.update[j]].forward[j] IN n = Null \/ ~pre(n)

CallOK ==
    IF call.op = "none" THEN call = NoCall
    ELSE /\ call.member \in Member /\ call.score \in Score
         /\ call.op = "remove" => call.member \in DOMAIN dict /\ call.score = dict[call.member]
         /\ call.thenInsert => call.op = "remove" /\ call.new \in Score
         /\ call.x \in nodes /\ pre(call.x) /\ height(call.x) >= call.i /\ call.i <= level
         /\ \A j \in Levels : /\ call.update[j] \in nodes /\ pre(call.update[j])
                               /\ height(call.update[j]) >= j
         /\ \A j \in Levels : j > level => call.update[j] = Header
         /\ \A j \in Levels : call.i < j /\ j <= level => Found(j)
         /\ call.i = 0 => call.x = call.update[1]

\* The inductive invariant.
SInv == Typed /\ Pairs /\ Links /\ Backs /\ LevelTight /\ CallOK

-----------------------------------------------------------------------------
(* Order. *)

LEMMA Addresses ==
    /\ Header \notin Addr /\ Null \notin Addr /\ Header # Null /\ Header \notin live
    /\ live \subseteq Addr /\ nodes \subseteq Place /\ Null \notin Place
    /\ Addr \subseteq Nat
  BY AddrAssumption DEF Header, Null, live, nodes, Place

LEMMA LessThan ==
    ASSUME NoNaN, NEW s \in Score, NEW t \in Score, NEW m, NEW o
    PROVE  lessThan(s, m, t, o) <=> s < t \/ (s = t /\ m < o)
  <1>1. s # NaN /\ t # NaN /\ s \in Int /\ t \in Int
    BY ScoreAssumption DEF NoNaN
  <1> QED
    BY <1>1 DEF lessThan, scoreEq, scoreLess

LEMMA BeforeLive ==
    ASSUME NoNaN, NodesTyped, NEW a \in live, NEW b \in live
    PROVE  /\ before(a, b) <=> \/ node[a].score < node[b].score
                               \/ /\ node[a].score = node[b].score
                                  /\ node[a].member < node[b].member
           /\ node[a].score \in Int /\ node[a].member \in Nat
  <1>1. a # Header /\ b # Header
    BY Addresses
  <1>2. node[a].score \in Score /\ node[b].score \in Score /\ node[a].member \in Member
    BY DEF NodesTyped
  <1>3. node[a].score \in Int /\ node[a].member \in Nat
    BY <1>2, ScoreAssumption, MemberAssumption
  <1>4. before(a, b) <=> lessThan(node[a].score, node[a].member, node[b].score, node[b].member)
    BY <1>1 DEF before
  <1> QED
    BY <1>2, <1>3, <1>4, LessThan

LEMMA InOrder ==
    ASSUME NEW a \in nodes, NEW b \in nodes
    PROVE  <<a, b>> \in order <=> before(a, b)
  BY DEF order

LEMMA OrderStrict ==
    ASSUME NoNaN, NodesTyped, Distinct
    PROVE  /\ StrictOrder(order, nodes)
           /\ \A a \in live : <<Header, a>> \in order /\ <<a, Header>> \notin order
  <1>0. Header \in nodes /\ live \subseteq nodes
    BY DEF nodes
  <1>1. \A a \in live : before(Header, a) /\ ~before(a, Header)
    BY Addresses DEF before
  <1>2. ~before(Header, Header)
    BY DEF before
  <1>3. \A a \in live : ~before(a, a)
    BY BeforeLive
  <1>4. \A a, b, c \in live : before(a, b) /\ before(b, c) => before(a, c)
    <2> SUFFICES ASSUME NEW a \in live, NEW b \in live, NEW c \in live, before(a, b), before(b, c)
                 PROVE  before(a, c)
      OBVIOUS
    <2>1. \/ node[a].score < node[b].score
          \/ node[a].score = node[b].score /\ node[a].member < node[b].member
      BY BeforeLive
    <2>2. \/ node[b].score < node[c].score
          \/ node[b].score = node[c].score /\ node[b].member < node[c].member
      BY BeforeLive
    <2>3. /\ node[a].score \in Int /\ node[a].member \in Nat
          /\ node[b].score \in Int /\ node[b].member \in Nat
          /\ node[c].score \in Int /\ node[c].member \in Nat
      BY BeforeLive
    <2>4. \/ node[a].score < node[c].score
          \/ node[a].score = node[c].score /\ node[a].member < node[c].member
      BY <2>1, <2>2, <2>3
    <2> QED
      BY <2>4, BeforeLive
  <1>5. \A a, b \in live : a = b \/ before(a, b) \/ before(b, a)
    <2> SUFFICES ASSUME NEW a \in live, NEW b \in live, a # b PROVE before(a, b) \/ before(b, a)
      OBVIOUS
    <2>1. /\ node[a].score \in Int /\ node[a].member \in Nat
          /\ node[b].score \in Int /\ node[b].member \in Nat
          /\ node[a].member # node[b].member
      BY BeforeLive DEF Distinct
    <2> QED
      BY <2>1, BeforeLive
  <1>6. \A a \in nodes : <<a, a>> \notin order
    BY <1>2, <1>3, InOrder DEF nodes
  <1>7. \A a, b, c \in nodes : before(a, b) /\ before(b, c) => before(a, c)
    BY <1>1, <1>2, <1>4 DEF nodes
  <1>8. \A a, b \in nodes : a = b \/ before(a, b) \/ before(b, a)
    BY <1>1, <1>5 DEF nodes
  <1>9. StrictOrder(order, nodes)
    BY <1>6, <1>7, <1>8, InOrder DEF StrictOrder
  <1> QED
    BY <1>0, <1>1, <1>9, InOrder

\* What comes before a node that comes before the pair does so itself.
LEMMA PreFacts ==
    ASSUME NoNaN, NodesTyped, call.score \in Score, call.member \in Member
    PROVE  /\ pre(Header)
           /\ \A a \in live : pre(a) <=> \/ node[a].score < call.score
                                         \/ /\ node[a].score = call.score
                                            /\ node[a].member < call.member
           /\ \A a \in nodes, b \in live : pre(a) /\ ~pre(b) => before(a, b)
  <1>1. pre(Header)
    BY DEF pre
  <1>2. ASSUME NEW a \in live
        PROVE  pre(a) <=> \/ node[a].score < call.score
                          \/ node[a].score = call.score /\ node[a].member < call.member
    <2>1. node[a].score \in Score /\ a # Header
      BY Addresses DEF NodesTyped
    <2> QED
      BY <2>1, LessThan DEF pre
  <1>3. ASSUME NEW a \in nodes, NEW b \in live, pre(a), ~pre(b)
        PROVE  before(a, b)
    <2>1. CASE a = Header
      BY <2>1, Addresses DEF before
    <2>2. CASE a \in live
      <3>1. /\ node[a].score \in Int /\ node[a].member \in Nat
            /\ node[b].score \in Int /\ node[b].member \in Nat
            /\ call.score \in Int /\ call.member \in Nat
        BY <2>2, BeforeLive, ScoreAssumption, MemberAssumption
      <3> QED
        BY <1>2, <1>3, <2>2, <3>1, BeforeLive
    <2> QED
      BY <2>1, <2>2 DEF nodes
  <1> QED
    BY <1>1, <1>2, <1>3

-----------------------------------------------------------------------------
(* An empty list, and the steps that leave the list alone. *)

LEMMA NoCallTyped ==
    /\ NoCall \in [op : {"none", "insert", "remove"}, member : Nat, score : Int, x : Place,
                   i : 0..kMaxLevel, update : [Levels -> Place], new : Int, thenInsert : BOOLEAN]
    /\ NoCall.op = "none" /\ NoCall.x = Header /\ NoCall.i = 0
    /\ \A j \in Levels : NoCall.update[j] = Header
  <1>1. Header \in Place /\ 0 \in 0..kMaxLevel
    BY LevelAssumption DEF Place
  <1>2. [i \in Levels |-> Header] \in [Levels -> Place]
    BY <1>1
  <1> QED
    BY <1>1, <1>2 DEF NoCall

LEMMA FreeNodeFacts ==
    /\ FreeNode \in Node /\ FreeNode.forward = <<>> /\ Len(<<>>) = 0
    /\ EmptyHeader \in Node /\ Len(EmptyHeader.forward) = kMaxLevel
    /\ \A i \in Levels : EmptyHeader.forward[i] = Null
  <1>1. Null \in Ptr /\ <<>> \in Seq(Ptr)
    BY DEF Ptr
  <1>2. FreeNode \in Node /\ FreeNode.forward = <<>>
    BY <1>1 DEF FreeNode, Node
  <1> DEFINE f == [i \in Levels |-> Null]
  <1>3. f \in Seq(Ptr) /\ Len(f) = kMaxLevel /\ \A i \in Levels : f[i] = Null
    BY <1>1, LevelAssumption DEF Levels
  <1> HIDE DEF f
  <1>4. EmptyHeader \in Node /\ EmptyHeader.forward = f
    BY <1>2, <1>3 DEF EmptyHeader, Node, f
  <1> QED
    BY <1>2, <1>3, <1>4

\* A list without nodes is in order.
LEMMA EmptyListFacts ==
    ASSUME node = EmptyList, level = 1
    PROVE  /\ NodesTyped /\ live = {} /\ level \in Levels
           /\ Links /\ Backs /\ LevelTight
  <1>1. node[Header] = EmptyHeader /\ \A a \in Addr : node[a] = FreeNode
    BY Addresses DEF EmptyList
  <1>2. live = {}
    BY <1>1, FreeNodeFacts DEF live
  <1>3. \A a \in Place : node[a] \in Node /\ Len(node[a].forward) <= kMaxLevel
    <2>1. 0 <= kMaxLevel /\ kMaxLevel <= kMaxLevel
      BY LevelAssumption
    <2> QED
      BY <1>1, <2>1, FreeNodeFacts DEF Place
  <1>4. node \in [Place -> Node]
    <2>1. node = [a \in Place |-> node[a]]
      BY DEF EmptyList, Place
    <2> QED
      BY <1>3, <2>1
  <1>5. NodesTyped
    BY <1>1, <1>2, <1>3, <1>4, FreeNodeFacts DEF NodesTyped, height
  <1>6. Links
    <2>1. ASSUME NEW i \in 1..height(Header) PROVE node[Header].forward[i] = Null
      BY <1>1, <2>1, FreeNodeFacts, LevelAssumption DEF height, Levels
    <2>2. \A i : at(i) = {}
      BY <1>2 DEF at
    <2> QED
      BY <1>2, <2>1, <2>2 DEF Links, nodes, IsNext
  <1>7. level \in Levels
    BY LevelAssumption DEF Levels
  <1> QED
    BY <1>2, <1>5, <1>6, <1>7 DEF Backs, LevelTight

LEMMA SInvInit == Init => SInv
  <1> SUFFICES ASSUME Init PROVE SInv
    OBVIOUS
  <1>1. NodesTyped /\ live = {} /\ level \in Levels /\ Links /\ Backs /\ LevelTight
    BY EmptyListFacts DEF Init
  <1>2. DOMAIN dict = {}
    BY DEF Init
  <1>3. dict \in [DOMAIN dict -> Score]
    <2>1. dict = [m \in {} |-> 0]
      BY DEF Init
    <2> QED
      BY <1>2, <2>1
  <1>4. CallTyped /\ CallOK /\ call.op = "none"
    BY NoCallTyped DEF Init, CallTyped, CallOK
  <1>5. Typed
    BY <1>1, <1>2, <1>3, <1>4 DEF Typed
  <1>6. Pairs
    BY <1>1, <1>2, <1>4, FS_EmptySet DEF Init, Pairs, stays, Distinct
  <1> QED
    BY <1>1, <1>4, <1>5, <1>6 DEF SInv

\* Whatever leaves the nodes alone leaves their order alone.
LEMMA ListUnchanged ==
    ASSUME SInv, UNCHANGED <<node, level>>
    PROVE  /\ NodesTyped' /\ Links' /\ Backs' /\ LevelTight' /\ Distinct'
           /\ live' = live /\ nodes' = nodes /\ \A a : height(a)' = height(a)
  <1>1. live' = live /\ \A a : height(a)' = height(a)
    BY DEF live, height
  <1>2. nodes' = nodes /\ \A i : at(i)' = at(i)
    BY <1>1 DEF nodes, at
  <1>3. order' = order
    BY <1>2 DEF order, before
  <1>4. NodesTyped'
    BY <1>1 DEF SInv, Typed, NodesTyped
  <1>5. Links'
    BY <1>1, <1>2, <1>3 DEF SInv, Links
  <1>6. Backs'
    BY <1>1, <1>2 DEF SInv, Backs, prior
  <1>7. LevelTight'
    BY <1>1 DEF SInv, LevelTight
  <1>8. Distinct'
    BY <1>1 DEF SInv, Pairs, Distinct
  <1> QED
    BY <1>1, <1>2, <1>4, <1>5, <1>6, <1>7, <1>8

\* The call that a command, or the first half of ZADD, starts is as it should be.
LEMMA CallBegins ==
    ASSUME NEW op \in {"insert", "remove"}, NEW m \in Member, NEW s \in Score, NEW new \in Int,
           NEW then \in BOOLEAN, call' = begin(op, m, s, new, then, level'),
           NodesTyped', level' \in Levels,
           op = "remove" => m \in DOMAIN dict' /\ s = dict'[m],
           then => op = "remove" /\ new \in Score
    PROVE  CallTyped' /\ CallOK' /\ call'.op = op /\ call'.member = m
  <1>1. Header \in Place /\ level' \in 0..kMaxLevel /\ m \in Nat /\ s \in Int
    BY LevelAssumption, MemberAssumption, ScoreAssumption DEF Place, Levels
  <1>2. [i \in Levels |-> Header] \in [Levels -> Place]
    BY <1>1
  <1>3. CallTyped'
    BY <1>1, <1>2 DEF begin, CallTyped
  <1>4. /\ call'.op = op /\ call'.member = m /\ call'.score = s /\ call'.new = new
        /\ call'.thenInsert = then /\ call'.x = Header /\ call'.i = level'
        /\ \A j \in Levels : call'.update[j] = Header
    BY DEF begin
  <1>5. (Header \in nodes)' /\ pre(Header)' /\ height(Header)' = kMaxLevel
    BY DEF nodes, pre, NodesTyped
  <1>6. kMaxLevel \in Nat /\ \A j \in Levels : j \in Nat /\ j > 0 /\ j <= kMaxLevel
    BY LevelAssumption DEF Levels
  <1>7. /\ call'.i # 0 /\ call'.i <= level' /\ kMaxLevel >= call'.i
        /\ ~ \E j \in Levels : call'.i < j /\ j <= level'
    BY <1>4, <1>6
  <1>8. \A j \in Levels : kMaxLevel >= j
    BY <1>6
  <1>9. CallOK'
    <2>1. op # "none"
      OBVIOUS
    <2>2. /\ (call.x \in nodes)' /\ pre(call.x)' /\ height(call.x)' >= call'.i
      BY <1>4, <1>5, <1>7
    <2>3. \A j \in Levels : /\ (call.update[j] \in nodes)' /\ pre(call.update[j])'
                            /\ height(call.update[j])' >= j
      BY <1>4, <1>5, <1>8
    <2> QED
      BY <1>4, <1>7, <2>1, <2>2, <2>3 DEF CallOK
  <1> QED
    BY <1>3, <1>4, <1>9

LEMMA SInvCommand ==
    ASSUME SInv, NEW m \in Member, ZRem(m) \/ \E s \in Score : ZAdd(m, s)
    PROVE  SInv'
  <1>1. call.op = "none" /\ UNCHANGED <<node, level, size, dict>>
    BY DEF ZRem, ZAdd
  <1>2. NodesTyped' /\ Links' /\ Backs' /\ LevelTight' /\ Distinct' /\ live' = live
    BY <1>1, ListUnchanged
  <1>3. level' \in Levels /\ \A o \in DOMAIN dict : dict[o] \in Score
    BY <1>1 DEF SInv, Typed
  <1>4. 0 \in Int /\ Score \subseteq Int /\ TRUE \in BOOLEAN /\ FALSE \in BOOLEAN
        /\ "insert" \in {"insert", "remove"} /\ "remove" \in {"insert", "remove"}
        /\ "insert" # "remove"
    BY ScoreAssumption
  <1>5. CallTyped' /\ CallOK' /\ stays' = stays
    <2>1. CASE ZRem(m)
      <3>1. call' = begin("remove", m, dict[m], 0, FALSE, level') /\ m \in DOMAIN dict'
            /\ dict[m] \in Score /\ dict[m] = dict'[m]
        BY <1>1, <1>3, <2>1 DEF ZRem
      <3>2. CallTyped' /\ CallOK' /\ call'.op = "remove"
        BY <1>2, <1>3, <1>4, <3>1, CallBegins, Zenon
      <3> QED
        BY <1>1, <3>2 DEF stays
    <2>2. ASSUME NEW s \in Score, ZAdd(m, s), m \in DOMAIN dict
          PROVE  CallTyped' /\ CallOK' /\ stays' = stays
      <3>1. call' = begin("remove", m, dict[m], s, TRUE, level') /\ m \in DOMAIN dict'
            /\ dict[m] \in Score /\ dict[m] = dict'[m] /\ s \in Int
        BY <1>1, <1>3, <1>4, <2>2 DEF ZAdd
      <3>2. CallTyped' /\ CallOK' /\ call'.op = "remove"
        BY <1>2, <1>3, <1>4, <3>1, CallBegins, Zenon
      <3> QED
        BY <1>1, <3>2 DEF stays
    <2>3. ASSUME NEW s \in Score, ZAdd(m, s), m \notin DOMAIN dict
          PROVE  CallTyped' /\ CallOK' /\ stays' = stays
      <3>1. call' = begin("insert", m, s, 0, FALSE, level')
        BY <1>1, <2>3 DEF ZAdd
      <3>2. CallTyped' /\ CallOK' /\ call'.op = "insert" /\ call'.member = m
        BY <1>2, <1>3, <1>4, <3>1, CallBegins, Zenon
      <3> QED
        BY <1>1, <2>3, <3>2 DEF stays
    <2> QED
      BY <2>1, <2>2, <2>3
  <1>6. Pairs'
    BY <1>1, <1>2, <1>5 DEF SInv, Pairs
  <1>7. Typed'
    BY <1>1, <1>2, <1>5 DEF SInv, Typed
  <1> QED
    BY <1>2, <1>5, <1>6, <1>7 DEF SInv

\* The node behind a on level i.
LEMMA NextNode ==
    ASSUME SInv, NEW a \in nodes, NEW i \in 1..height(a)
    PROVE  /\ IsNext(order, at(i), a, node[a].forward[i])
           /\ node[a].forward[i] # Null => node[a].forward[i] \in at(i)
  BY DEF SInv, Links, IsNext

LEMMA SInvSearch ==
    ASSUME SInv, Search
    PROVE  SInv'
  <1> DEFINE next == node[call.x].forward[call.i]
             on == next # Null /\ lessThan(node[next].score, node[next].member, call.score, call.member)
  <1>1. call.op # "none" /\ call.i > 0 /\ UNCHANGED <<node, level, size, dict>>
    BY DEF Search
  <1>2. call' = IF on THEN [call EXCEPT !.x = next]
                ELSE [call EXCEPT !.update[call.i] = call.x, !.i = @ - 1]
    BY DEF Search
  <1>3. NodesTyped' /\ Links' /\ Backs' /\ LevelTight' /\ Distinct' /\ live' = live
        /\ nodes' = nodes /\ \A a : height(a)' = height(a)
    BY <1>1, ListUnchanged
  <1>4. CallTyped /\ CallOK /\ NodesTyped /\ level \in Levels
    BY DEF SInv, Typed
  <1>5. call.i \in Levels /\ call.x \in nodes /\ call.x \in Place /\ call.i \in 1..height(call.x) /\ height(call.x) \in Nat
    <2>1. call.i \in 0..kMaxLevel /\ call.x \in nodes /\ height(call.x) >= call.i
      BY <1>1, <1>4 DEF CallTyped, CallOK
    <2>2. call.x \in Place /\ height(call.x) \in Nat
      BY <1>4, <2>1, Addresses DEF NodesTyped, height, Node
    <2> QED
      BY <1>1, <2>1, <2>2, LevelAssumption DEF Levels
  <1>6. next # Null => next \in live /\ height(next) >= call.i
    BY <1>5, NextNode DEF at
  <1> HIDE DEF next, on
  <1>7. /\ call'.op = call.op /\ call'.member = call.member /\ call'.score = call.score
        /\ call'.new = call.new /\ call'.thenInsert = call.thenInsert
    BY <1>2, <1>4 DEF CallTyped
  <1>8. \A a : pre(a)' <=> pre(a)
    BY <1>1, <1>7 DEF pre
  <1>9. CallTyped' /\ CallOK'
    <2>1. CASE on
      <3>1. call' = [call EXCEPT !.x = next]
        BY <1>2, <2>1
      <3>2. call'.x = next /\ call'.i = call.i /\ call'.update = call.update
        BY <1>4, <3>1 DEF CallTyped
      <3>3. next \in live /\ height(next) >= call.i /\ pre(next) /\ next \in Place /\ next \in nodes
        BY <1>6, <2>1, Addresses DEF on, pre, nodes
      <3>4. CallTyped'
        BY <1>4, <3>1, <3>3 DEF CallTyped
      <3>5. \A j \in Levels : Found(j)' <=> Found(j)
        BY <1>1, <1>8, <3>2 DEF Found
      <3>6. call.i # 0 /\ call.op # "none"
        BY <1>1, <1>5
      <3> QED
        BY <1>1, <1>3, <1>4, <1>7, <1>8, <3>2, <3>3, <3>4, <3>5, <3>6 DEF CallOK
    <2>2. CASE ~on
      <3>1. call' = [call EXCEPT !.update[call.i] = call.x, !.i = @ - 1]
        BY <1>2, <2>2
      <3>2. call'.x = call.x /\ call'.i = call.i - 1
            /\ call'.update = [call.update EXCEPT ![call.i] = call.x]
        BY <1>4, <3>1 DEF CallTyped
      <3>3. call.update \in [Levels -> Place]
        BY <1>4 DEF CallTyped
      <3>4. call'.update[call.i] = call.x /\ \A j \in Levels : j # call.i => call'.update[j] = call.update[j]
        BY <1>5, <3>2, <3>3
      <3>5. call.i - 1 \in 0..kMaxLevel /\ call'.update \in [Levels -> Place]
        BY <1>5, <3>2, <3>3, LevelAssumption DEF Levels
      <3>6. CallTyped'
        BY <1>4, <3>1, <3>2, <3>5 DEF CallTyped
      <3>7. next = Null \/ ~pre(next)
        <4>1. next # Null => next # Header
          BY <1>6, Addresses
        <4> QED
          BY <2>2, <4>1 DEF on, pre
      <3>8. \A j \in Levels : j = call.i => Found(j)'
        BY <1>1, <1>8, <3>4, <3>7 DEF Found, next
      <3>9. \A j \in Levels : j # call.i => (Found(j)' <=> Found(j))
        BY <1>1, <1>8, <3>4 DEF Found
      <3>10. /\ call.x \in nodes /\ pre(call.x) /\ height(call.x) >= call.i /\ call.i <= level
             /\ height(call.x) >= call.i - 1 /\ call.i - 1 <= level
        <4>1. call.x \in nodes /\ pre(call.x) /\ height(call.x) >= call.i /\ call.i <= level
          BY <1>1, <1>4 DEF CallOK
        <4> QED
          BY <1>4, <1>5, <4>1 DEF Levels
      <3>11. \A j \in Levels : /\ call'.update[j] \in nodes /\ pre(call'.update[j])
                               /\ height(call'.update[j]) >= j
        BY <1>1, <1>4, <3>4, <3>10 DEF CallOK
      <3>12. \A j \in Levels : j > level => call'.update[j] = Header
        <4>1. ~(call.i > level)
          BY <1>4, <1>5, <3>10 DEF Levels
        <4> QED
          BY <1>1, <1>4, <3>4, <4>1 DEF CallOK
      <3>13. \A j \in Levels : call.i - 1 < j /\ j <= level => Found(j)'
        <4>1. \A j \in Levels : call.i < j /\ j <= level => Found(j)
          BY <1>1, <1>4 DEF CallOK
        <4>2. \A j \in Levels : call.i - 1 < j => j = call.i \/ call.i < j
          BY <1>5 DEF Levels
        <4> QED
          BY <3>8, <3>9, <4>1, <4>2
      <3>14. call.i - 1 = 0 => call.x = call'.update[1]
        <4>1. call.i - 1 = 0 => call.i = 1
          BY <1>5 DEF Levels
        <4> QED
          BY <3>4, <4>1
      <3>15. CallOK'
        <4>1. /\ call'.member \in Member /\ call'.score \in Score
              /\ call'.op = "remove" => call'.member \in DOMAIN dict' /\ call'.score = dict'[call'.member]
              /\ call'.thenInsert => call'.op = "remove" /\ call'.new \in Score
          BY <1>1, <1>4, <1>7 DEF CallOK
        <4>2. /\ call'.x \in nodes' /\ pre(call.x)' /\ height(call.x)' >= call'.i /\ call'.i <= level'
          BY <1>1, <1>3, <1>8, <3>2, <3>10
        <4>3. \A j \in Levels : /\ call'.update[j] \in nodes' /\ pre(call.update[j])'
                                /\ height(call.update[j])' >= j
          BY <1>3, <1>8, <3>11
        <4>4. \A j \in Levels : call'.i < j /\ j <= level' => Found(j)'
          BY <1>1, <3>2, <3>13
        <4>5. call'.i = 0 => call'.x = call'.update[1]
          BY <3>2, <3>14
        <4>6. call'.op # "none" /\ \A j \in Levels : j > level' => call'.update[j] = Header
          BY <1>1, <1>7, <3>12
        <4> QED
          BY <4>1, <4>2, <4>3, <4>4, <4>5, <4>6 DEF CallOK
      <3> QED
        BY <3>6, <3>15
    <2> QED
      BY <2>1, <2>2
  <1>10. stays' = stays
    BY <1>1, <1>7 DEF stays
  <1>11. Pairs'
    BY <1>1, <1>3, <1>10 DEF SInv, Pairs
  <1>12. Typed'
    BY <1>1, <1>3, <1>9 DEF SInv, Typed
  <1> QED
    BY <1>3, <1>9, <1>11, <1>12 DEF SInv

-----------------------------------------------------------------------------
(* Insert. *)

LEMMA Heights ==
    ASSUME NodesTyped
    PROVE  /\ \A a \in Place : node[a] \in Node /\ node[a].forward \in Seq(Ptr) /\ height(a) \in Nat
                               /\ DOMAIN node[a].forward = 1..height(a)
                               /\ height(a) <= kMaxLevel
           /\ \A a \in Addr : a \in live <=> height(a) > 0
           /\ \A a \in nodes : height(a) > 0
  <1>1. ASSUME NEW a \in Place
        PROVE  /\ node[a] \in Node /\ node[a].forward \in Seq(Ptr) /\ height(a) \in Nat
               /\ DOMAIN node[a].forward = 1..height(a)
               /\ height(a) <= kMaxLevel
    <2>1. node[a] \in Node
      BY DEF NodesTyped
    <2>2. node[a].forward \in Seq(Ptr)
      BY <2>1 DEF Node
    <2> QED
      BY <2>1, <2>2 DEF NodesTyped, height
  <1>2. ASSUME NEW a \in Addr PROVE a \in live <=> height(a) > 0
    <2>1. node[a].forward \in Seq(Ptr)
      BY <1>1 DEF Place
    <2>2. node[a].forward # <<>> <=> Len(node[a].forward) > 0
      BY <2>1
    <2> QED
      BY <2>2 DEF live, height
  <1>3. height(Header) > 0
    BY LevelAssumption DEF NodesTyped
  <1> QED
    BY <1>1, <1>2, <1>3, Addresses DEF nodes

\* The place the search has found on level j.
LEMMA PlaceFound ==
    ASSUME NoNaN, SInv, call.op # "none", call.i = 0, NEW j \in Levels
    PROVE  LET u == call.update[j]
               n == node[u].forward[j]
           IN  /\ u \in nodes /\ pre(u) /\ j \in 1..height(u)
               /\ u \in at(j) \/ u = Header
               /\ IsNext(order, at(j), u, n)
               /\ n # Null => n \in at(j) /\ ~pre(n)
  <1> DEFINE u == call.update[j]
             n == node[u].forward[j]
  <1>1. u \in nodes /\ pre(u) /\ height(u) >= j
    BY DEF SInv, CallOK
  <1>2. u \in Place /\ height(u) \in Nat /\ j \in Nat /\ j >= 1
    BY <1>1, Addresses, Heights, LevelAssumption DEF SInv, Typed, Levels
  <1>3. j \in 1..height(u)
    BY <1>1, <1>2
  <1>4. IsNext(order, at(j), u, n) /\ (n # Null => n \in at(j))
    BY <1>1, <1>3, NextNode
  <1>5. CASE j <= level
    <2>1. Found(j)
      BY <1>2, <1>5 DEF SInv, CallOK
    <2> QED
      BY <1>1, <1>3, <1>4, <2>1 DEF Found, at, nodes
  <1>6. CASE ~(j <= level)
    <2>1. ASSUME NEW c \in at(j) PROVE FALSE
      <3>1. height(c) >= j /\ height(c) <= level /\ level \in Nat /\ height(c) \in Nat
        BY <2>1, Heights, LevelAssumption DEF at, SInv, LevelTight, Typed, Levels, Place, live
      <3> QED
        BY <1>2, <1>6, <3>1
    <2> QED
      BY <1>1, <1>3, <1>4, <2>1 DEF at, nodes
  <1> QED
    BY <1>5, <1>6

LEMMA LinkedFacts ==
    ASSUME NoNaN, SInv, call.op # "none", call.i = 0, NEW a \in Addr \ live, NEW h \in Levels,
           node' = linked(call.update, a, h)
    PROVE  /\ node' \in [Place -> Node]
           /\ node'[a].member = call.member /\ node'[a].score = call.score
           /\ height(a)' = h
           /\ \A i \in 1..h : node'[a].forward[i] = node[call.update[i]].forward[i]
           /\ node'[a].backward = IF call.update[1] = Header THEN Null ELSE call.update[1]
           /\ \A b \in Place \ {a} :
                 /\ node'[b].member = node[b].member /\ node'[b].score = node[b].score
                 /\ height(b)' = height(b)
                 /\ \A i \in 1..height(b) :
                       node'[b].forward[i] = IF i <= h /\ call.update[i] = b THEN a ELSE node[b].forward[i]
                 /\ node'[b].backward = IF b = node[call.update[1]].forward[1] THEN a ELSE node[b].backward
           /\ live' = live \cup {a} /\ nodes' = nodes \cup {a} /\ a \notin nodes /\ a # Null
  <1>0. NodesTyped /\ CallTyped /\ a \in Place /\ a \in Ptr /\ h \in Nat /\ h > 0 /\ h <= kMaxLevel
        /\ kMaxLevel \in Nat
    BY LevelAssumption DEF SInv, Typed, Place, Ptr, Levels
  <1>1. \A j \in Levels : call.update[j] \in Place /\ j \in 1..height(call.update[j])
    BY PlaceFound, Addresses
  <1>2. \A b \in Place : \A i \in 1..height(b) : node[b].forward[i] \in Ptr
    BY <1>0, Heights
  <1> DEFINE fa == [i \in 1..h |-> node[call.update[i]].forward[i]]
             ba == IF call.update[1] = Header THEN Null ELSE call.update[1]
             fb(b) == [i \in DOMAIN node[b].forward |->
                             IF i <= h /\ call.update[i] = b THEN a ELSE node[b].forward[i]]
             bb(b) == IF b = node[call.update[1]].forward[1] THEN a ELSE node[b].backward
  <1>3. \A b \in Place : node'[b] = IF b = a THEN [member |-> call.member, score |-> call.score,
                                                   forward |-> fa, backward |-> ba]
                                    ELSE [member |-> node[b].member, score |-> node[b].score,
                                          forward |-> fb(b), backward |-> bb(b)]
    BY Zenon DEF linked, relinked, Place
  <1>4. fa \in Seq(Ptr) /\ Len(fa) = h /\ \A i \in 1..h : fa[i] = node[call.update[i]].forward[i]
    <2>1. \A i \in 1..h : i \in Levels
      BY <1>0 DEF Levels
    <2>2. \A i \in 1..h : node[call.update[i]].forward[i] \in Ptr
      BY <1>1, <1>2, <2>1
    <2> QED
      BY <1>0, <2>2
  <1>5. ba \in Ptr
    <2>1. 1 \in Levels
      BY <1>0 DEF Levels
    <2> QED
      BY <1>1, <2>1 DEF Ptr, Place
  <1>6. ASSUME NEW b \in Place
        PROVE  /\ fb(b) \in Seq(Ptr) /\ Len(fb(b)) = height(b)
               /\ \A i \in 1..height(b) : fb(b)[i] = IF i <= h /\ call.update[i] = b THEN a ELSE node[b].forward[i]
    <2>1. DOMAIN node[b].forward = 1..height(b) /\ height(b) \in Nat
      BY <1>0, Heights
    <2> QED
      BY <1>0, <1>2, <2>1
  <1>7. ASSUME NEW b \in Place PROVE bb(b) \in Ptr /\ node[b].member \in Nat /\ node[b].score \in Int
    <2>1. node[b] \in Node
      BY <1>0, Heights
    <2> QED
      BY <1>0, <2>1 DEF Node
  <1>8. call.member \in Nat /\ call.score \in Int
    BY <1>0 DEF CallTyped
  <1> HIDE DEF fa, ba, fb, bb
  <1>9. \A b \in Place : node'[b] \in Node
    <2>1. [member |-> call.member, score |-> call.score, forward |-> fa, backward |-> ba] \in Node
      BY <1>4, <1>5, <1>8 DEF Node
    <2>2. ASSUME NEW b \in Place
          PROVE  [member |-> node[b].member, score |-> node[b].score,
                  forward |-> fb(b), backward |-> bb(b)] \in Node
      BY <1>6, <1>7 DEF Node
    <2> QED
      BY <1>3, <2>1, <2>2, Zenon
  <1>10. node' \in [Place -> Node]
    <2>1. node' = [b \in Place |-> node'[b]]
      BY DEF linked, Place
    <2> QED
      BY <1>9, <2>1
  <1>11. /\ node'[a].member = call.member /\ node'[a].score = call.score
         /\ node'[a].forward = fa /\ node'[a].backward = ba
    <2>1. node'[a] = [member |-> call.member, score |-> call.score, forward |-> fa, backward |-> ba]
      BY <1>0, <1>3, Zenon
    <2> QED
      BY <2>1
  <1>12. \A b \in Place \ {a} :
           /\ node'[b].member = node[b].member /\ node'[b].score = node[b].score
           /\ node'[b].forward = fb(b) /\ node'[b].backward = bb(b)
    <2> TAKE b \in Place \ {a}
    <2>1. node'[b] = [member |-> node[b].member, score |-> node[b].score,
                      forward |-> fb(b), backward |-> bb(b)]
      BY <1>3, Zenon
    <2> QED
      BY <2>1
  <1>13. height(a)' = h /\ \A b \in Place \ {a} : height(b)' = height(b)
    BY <1>4, <1>6, <1>11, <1>12 DEF height
  <1>14. live' = live \cup {a}
    <2>1. \A b \in Place : Len(node'[b].forward) > 0 <=> node'[b].forward # <<>>
      <3> SUFFICES ASSUME NEW b \in Place PROVE Len(node'[b].forward) > 0 <=> node'[b].forward # <<>>
        OBVIOUS
      <3>1. node'[b].forward \in Seq(Ptr)
        BY <1>9 DEF Node
      <3> QED
        BY <3>1
    <2>2. \A b \in Addr : b \in live' <=> height(b)' > 0
      BY <2>1 DEF live, height, Place
    <2> QED
      BY <1>0, <1>13, <2>2, Heights DEF live, Place
  <1>15. nodes' = nodes \cup {a} /\ a \notin nodes /\ a # Null
    BY <1>14, Addresses DEF nodes
  <1>16. \A i \in 1..h : node'[a].forward[i] = node[call.update[i]].forward[i]
    BY <1>4, <1>11
  <1>17. node'[a].backward = IF call.update[1] = Header THEN Null ELSE call.update[1]
    BY <1>11 DEF ba
  <1>18. \A b \in Place \ {a} :
           /\ \A i \in 1..height(b) :
                 node'[b].forward[i] = IF i <= h /\ call.update[i] = b THEN a ELSE node[b].forward[i]
           /\ node'[b].backward = IF b = node[call.update[1]].forward[1] THEN a ELSE node[b].backward
    BY <1>6, <1>12 DEF bb
  <1> QED
    BY <1>10, <1>11, <1>12, <1>13, <1>14, <1>15, <1>16, <1>17, <1>18

\* The new node takes its place among the others.
LEMMA InsertOrder ==
    ASSUME NoNaN, SInv, call.op = "insert", call.i = 0, NEW a \in Addr \ live, NEW h \in Levels,
           node' = linked(call.update, a, h)
    PROVE  /\ \A b, c \in nodes : <<b, c>> \in order <=> <<b, c>> \in order'
           /\ \A b \in nodes : (<<b, a>> \in order' <=> pre(b)) /\ (<<a, b>> \in order' <=> ~pre(b))
           /\ StrictOrder(order', nodes \cup {a})
  <1>1. /\ node'[a].member = call.member /\ node'[a].score = call.score
        /\ \A b \in Place \ {a} : node'[b].member = node[b].member /\ node'[b].score = node[b].score
        /\ nodes' = nodes \cup {a} /\ a \notin nodes
    BY LinkedFacts
  <1>2. NodesTyped /\ Distinct /\ call.score \in Score /\ call.member \in Member
    BY DEF SInv, Typed, Pairs, CallOK
  <1>3. \A b, c \in nodes' : <<b, c>> \in order' <=> before(b, c)'
    BY DEF order
  <1>4. \A b, c \in nodes : before(b, c)' <=> before(b, c)
    <2>1. \A b \in nodes : b \in Place \ {a}
      BY <1>1, Addresses
    <2> QED
      BY <1>1, <2>1 DEF before
  <1>5. \A b, c \in nodes : <<b, c>> \in order <=> <<b, c>> \in order'
    BY <1>1, <1>3, <1>4, InOrder
  <1>6. a # Header /\ Header \in nodes /\ \A b \in live : b # Header /\ b # a /\ b \in Place /\ b \in nodes
    BY <1>1, Addresses DEF nodes
  <1>7. /\ \A b \in live : node[b].score \in Score /\ node[b].score \in Int /\ node[b].member \in Nat
        /\ call.score \in Int /\ call.member \in Nat
    BY <1>2, ScoreAssumption, MemberAssumption DEF NodesTyped
  <1>8. \A b \in live : node[b].member # call.member
    BY DEF SInv, Pairs, stays
  <1>9. ASSUME NEW b \in live
        PROVE  /\ before(b, a)' <=> pre(b)
               /\ before(a, b)' <=> ~pre(b)
    <2>1. before(b, a)' <=> lessThan(node[b].score, node[b].member, call.score, call.member)
      BY <1>1, <1>6 DEF before
    <2>2. before(a, b)' <=> lessThan(call.score, call.member, node[b].score, node[b].member)
      BY <1>1, <1>6 DEF before
    <2>3. lessThan(node[b].score, node[b].member, call.score, call.member)
             <=> node[b].score < call.score \/ (node[b].score = call.score /\ node[b].member < call.member)
      BY <1>2, <1>7, LessThan
    <2>4. lessThan(call.score, call.member, node[b].score, node[b].member)
             <=> call.score < node[b].score \/ (call.score = node[b].score /\ call.member < node[b].member)
      BY <1>2, <1>7, LessThan
    <2>5. pre(b) <=> lessThan(node[b].score, node[b].member, call.score, call.member)
      BY <1>6 DEF pre
    <2> QED
      BY <1>7, <1>8, <2>1, <2>2, <2>3, <2>4, <2>5
  <1>10. before(Header, a)' /\ ~before(a, Header)' /\ pre(Header)
    BY <1>6 DEF before, pre
  <1>11. \A b \in nodes : (before(b, a)' <=> pre(b)) /\ (before(a, b)' <=> ~pre(b))
    BY <1>9, <1>10 DEF nodes
  <1>12. \A b \in nodes : (<<b, a>> \in order' <=> pre(b)) /\ (<<a, b>> \in order' <=> ~pre(b))
    BY <1>1, <1>3, <1>11
  <1>13. <<a, a>> \notin order'
    <2>1. before(a, a)' <=> lessThan(call.score, call.member, call.score, call.member)
      BY <1>1, <1>6 DEF before
    <2>2. ~lessThan(call.score, call.member, call.score, call.member)
      BY <1>2, <1>7, LessThan
    <2> QED
      BY <1>1, <1>3, <2>1, <2>2
  <1>14. \A b, c \in nodes : <<b, c>> \in order /\ pre(c) => pre(b)
    <2> SUFFICES ASSUME NEW b \in nodes, NEW c \in nodes, <<b, c>> \in order, pre(c), ~pre(b)
                 PROVE  FALSE
      OBVIOUS
    <2>1. b \in live /\ before(b, c)
      BY <1>10, InOrder DEF nodes
    <2>2. before(c, b)
      BY <1>2, <2>1, PreFacts
    <2>3. <<c, b>> \in order
      BY <2>2, InOrder
    <2>4. StrictOrder(order, nodes)
      BY <1>2, OrderStrict
    <2> QED
      BY <2>3, <2>4 DEF StrictOrder
  <1> DEFINE P == {b \in nodes : pre(b)}
  <1>15. StrictOrder(order', nodes \cup {a})
    <2>1. StrictOrder(order, nodes)
      BY <1>2, OrderStrict
    <2>2. /\ P \subseteq nodes
          /\ \A b, c \in nodes : <<b, c>> \in order /\ c \in P => b \in P
          /\ \A b \in nodes : (<<b, a>> \in order' <=> b \in P) /\ (<<a, b>> \in order' <=> b \notin P)
      BY <1>12, <1>14
    <2> HIDE DEF P
    <2> QED
      BY <1>1, <1>5, <1>13, <2>1, <2>2, ExtendOrder
  <1> QED
    BY <1>5, <1>12, <1>15

LEMMA InsertLinks ==
    ASSUME NoNaN, SInv, call.op = "insert", call.i = 0, NEW a \in Addr \ live, NEW h \in Levels,
           node' = linked(call.update, a, h)
    PROVE  Links' /\ Backs'
  <1>1. /\ height(a)' = h
        /\ \A i \in 1..h : node'[a].forward[i] = node[call.update[i]].forward[i]
        /\ node'[a].backward = IF call.update[1] = Header THEN Null ELSE call.update[1]
        /\ \A b \in Place \ {a} :
              /\ height(b)' = height(b)
              /\ \A i \in 1..height(b) :
                    node'[b].forward[i] = IF i <= h /\ call.update[i] = b THEN a ELSE node[b].forward[i]
              /\ node'[b].backward = IF b = node[call.update[1]].forward[1] THEN a ELSE node[b].backward
        /\ live' = live \cup {a} /\ nodes' = nodes \cup {a} /\ a \notin nodes /\ a # Null
    BY LinkedFacts
  <1>2. /\ \A b, c \in nodes : <<b, c>> \in order <=> <<b, c>> \in order'
        /\ \A b \in nodes : (<<b, a>> \in order' <=> pre(b)) /\ (<<a, b>> \in order' <=> ~pre(b))
        /\ StrictOrder(order', nodes \cup {a})
    BY InsertOrder
  <1>3. NodesTyped /\ Distinct /\ h \in Nat /\ h > 0 /\ h <= kMaxLevel /\ kMaxLevel \in Nat
    BY LevelAssumption DEF SInv, Typed, Pairs, Levels
  <1>4. /\ \A b \in nodes : b \in Place \ {a} /\ height(b) \in Nat /\ height(b) > 0 /\ height(b) <= kMaxLevel
        /\ \A b \in live : <<Header, b>> \in order
        /\ Header \in nodes /\ live \subseteq nodes
    BY <1>1, <1>3, Addresses, Heights, OrderStrict DEF nodes
  <1>5. \A i : at(i) \subseteq nodes /\ at(i) \subseteq live
    BY DEF at, nodes
  <1>6. ASSUME NEW i \in Levels
        PROVE  at(i)' = IF i <= h THEN at(i) \cup {a} ELSE at(i)
    BY <1>1, <1>3, <1>4, <1>6 DEF at, Levels
  <1>7. ASSUME NEW b \in nodes', NEW i \in 1..height(b)'
        PROVE  IsNext(order', at(i)', b, node'[b].forward[i])
    <2>0. i \in Levels
      BY <1>1, <1>3, <1>4, <1>7 DEF Levels
    <2>1. ASSUME NEW c \in nodes, i \in 1..height(c)
          PROVE  /\ IsNext(order', at(i), c, node[c].forward[i])
                 /\ node[c].forward[i] \in at(i) \cup {Null}
                 /\ c \in at(i) \/ (c = Header /\ \A d \in at(i) : <<c, d>> \in order')
      <3>1. IsNext(order, at(i), c, node[c].forward[i]) /\ node[c].forward[i] \in at(i) \cup {Null}
        BY <2>1, NextNode
      <3>2. IsNext(order', at(i), c, node[c].forward[i])
        BY <1>2, <1>5, <3>1, NextAgree
      <3>3. c = Header => \A d \in at(i) : <<c, d>> \in order'
        BY <1>2, <1>4, <1>5
      <3>4. c # Header => c \in at(i)
        BY <2>1, <1>4 DEF at, nodes
      <3> QED
        BY <3>1, <3>2, <3>3, <3>4
    <2>2. CASE i <= h
      <3> DEFINE u == call.update[i]
                 n == node[u].forward[i]
      <3>1. u \in nodes /\ pre(u) /\ i \in 1..height(u) /\ (n # Null => n \in at(i) /\ ~pre(n))
        BY <2>0, PlaceFound
      <3>2. IsNext(order', at(i), u, n) /\ (u \in at(i) \/ (u = Header /\ \A d \in at(i) : <<u, d>> \in order'))
        BY <2>1, <3>1
      <3>3. <<u, a>> \in order' /\ (n # Null => <<a, n>> \in order')
        BY <1>2, <1>5, <3>1
      <3>4. at(i)' = at(i) \cup {a}
        BY <1>6, <2>0, <2>2
      <3> HIDE DEF u, n
      <3>5. /\ IsNext(order', at(i) \cup {a}, a, n)
            /\ IsNext(order', at(i) \cup {a}, u, a)
            /\ \A c \in nodes, m \in at(i) \cup {Null} :
                 /\ c # u /\ IsNext(order', at(i), c, m)
                 /\ c \in at(i) \/ \A d \in at(i) : <<c, d>> \in order'
                 /\ c \in at(i) \/ u \in at(i)
                 => IsNext(order', at(i) \cup {a}, c, m)
        <4>1. /\ StrictOrder(order', nodes \cup {a}) /\ a \notin nodes /\ a # Null
              /\ at(i) \subseteq nodes /\ u \in nodes
              /\ u \in at(i) \/ \A d \in at(i) : <<u, d>> \in order'
              /\ <<u, a>> \in order' /\ IsNext(order', at(i), u, n)
              /\ n # Null => <<a, n>> \in order'
          BY <1>1, <1>2, <1>5, <3>1, <3>2, <3>3
        <4> QED
          BY <4>1, Splice, Zenon
      <3>6. CASE b = a
        BY <1>1, <1>7, <2>2, <3>4, <3>5, <3>6 DEF u, n
      <3>7. CASE b # a /\ b = u
        <4>1. node'[b].forward[i] = a
          BY <1>1, <1>4, <1>7, <2>2, <3>7 DEF u
        <4> QED
          BY <3>4, <3>5, <3>7, <4>1
      <3>8. CASE b # a /\ b # u
        <4>1. b \in nodes /\ i \in 1..height(b) /\ node'[b].forward[i] = node[b].forward[i]
          BY <1>1, <1>4, <1>7, <3>8 DEF u
        <4>2. b \in at(i) \/ u \in at(i)
          BY <2>1, <3>2, <3>8, <4>1
        <4> QED
          BY <2>1, <3>4, <3>5, <3>8, <4>1, <4>2
      <3> QED
        BY <3>6, <3>7, <3>8
    <2>3. CASE ~(i <= h)
      <3>1. b \in nodes
        BY <1>1, <1>3, <1>7, <2>3
      <3>2. i \in 1..height(b) /\ node'[b].forward[i] = node[b].forward[i]
        BY <1>1, <1>4, <1>7, <2>3, <3>1
      <3>3. at(i)' = at(i)
        BY <1>6, <2>0, <2>3
      <3> QED
        BY <2>1, <3>1, <3>2, <3>3
    <2> QED
      BY <2>2, <2>3
  <1>8. Links'
    BY <1>7 DEF Links
  <1>9. Backs'
    <2> DEFINE u == call.update[1]
               n == node[u].forward[1]
    <2>1. 1 \in Levels /\ 1 \in 1..h /\ 1 <= h /\ \A b \in nodes : 1 \in 1..height(b)
      BY <1>3, <1>4 DEF Levels
    <2>2. u \in nodes
      BY <2>1, PlaceFound
    <2>3. node'[u].forward[1] = a /\ node'[a].forward[1] = n
      BY <1>1, <1>4, <2>1, <2>2
    <2>4. u # Null /\ a # Null
      BY <1>1, <2>2, Addresses
    <2>5. ASSUME NEW c \in live' PROVE prior(c)' \in nodes' /\ node'[prior(c)'].forward[1] = c
      <3>1. CASE c = a
        <4>1. prior(c)' = u
          BY <1>1, <2>4, <3>1 DEF prior
        <4> QED
          BY <1>1, <2>2, <2>3, <3>1, <4>1
      <3>2. CASE c # a /\ c = n
        <4>1. prior(c)' = a
          BY <1>1, <1>4, <2>4, <2>5, <3>2 DEF prior
        <4> QED
          BY <1>1, <2>3, <3>2, <4>1
      <3>3. CASE c # a /\ c # n
        <4>1. c \in live /\ c \in Place \ {a}
          BY <1>1, <1>4, <2>5, <3>3
        <4>2. prior(c)' = prior(c)
          BY <1>1, <3>3, <4>1 DEF prior
        <4>3. prior(c) \in nodes /\ node[prior(c)].forward[1] = c
          BY <4>1 DEF SInv, Backs
        <4>4. prior(c) # u
          BY <3>3, <4>3
        <4>5. node'[prior(c)].forward[1] = c
          BY <1>1, <1>4, <2>1, <4>3, <4>4
        <4> QED
          BY <1>1, <4>2, <4>3, <4>5
      <3> QED
        BY <3>1, <3>2, <3>3
    <2> QED
      BY <2>5 DEF Backs
  <1> QED
    BY <1>8, <1>9

LEMMA FiniteDict ==
    ASSUME SInv
    PROVE  IsFiniteSet(DOMAIN dict) /\ IsFiniteSet(stays)
  <1>1. DOMAIN dict \subseteq Member /\ stays \subseteq Member
    BY DEF SInv, Typed, stays
  <1> QED
    BY <1>1, MemberAssumption, FS_Subset

LEMMA SInvInsert ==
    ASSUME NoNaN, SInv, NEW h \in Levels, Insert(h)
    PROVE  SInv'
  <1>1. call.op = "insert" /\ call.i = 0 /\ size' = size + 1 /\ call' = NoCall
    BY DEF Insert
  <1>2. PICK a \in Addr \ live : node' = linked(call.update, a, h)
    BY DEF Insert
  <1>3. /\ node' \in [Place -> Node]
        /\ node'[a].member = call.member /\ node'[a].score = call.score /\ height(a)' = h
        /\ \A b \in Place \ {a} : /\ node'[b].member = node[b].member /\ node'[b].score = node[b].score
                                  /\ height(b)' = height(b)
        /\ live' = live \cup {a}
    BY <1>1, <1>2, LinkedFacts
  <1>4. Links' /\ Backs'
    BY <1>1, <1>2, InsertLinks
  <1>5. /\ NodesTyped /\ level \in Nat /\ level > 0 /\ level <= kMaxLevel /\ kMaxLevel \in Nat
        /\ h \in Nat /\ h > 0 /\ h <= kMaxLevel /\ call.member \in Member /\ call.score \in Score
    BY <1>1, LevelAssumption DEF SInv, Typed, CallOK, Levels
  <1>6. \A b \in live : b \in Place \ {a} /\ b # Header
    BY <1>2, Addresses DEF Place
  <1>7. level' = (IF h > level THEN h ELSE level)
    BY DEF Insert
  <1>8. level' \in Levels
    BY <1>5, <1>7 DEF Levels
  <1>9. NodesTyped'
    <2>1. height(Header)' = kMaxLevel /\ \A b \in Place : height(b)' <= kMaxLevel
      BY <1>2, <1>3, <1>5, Addresses DEF NodesTyped, Place
    <2>2. \A b \in live' : node'[b].member \in Member /\ node'[b].score \in Score
      BY <1>3, <1>5, <1>6 DEF NodesTyped
    <2> QED
      BY <1>3, <2>1, <2>2 DEF NodesTyped
  <1>10. LevelTight'
    <2>1. /\ \A b \in live : height(b) <= level /\ height(b) \in Nat
          /\ level = 1 \/ \E b \in live : height(b) = level
      BY <1>5, <1>6, Heights DEF SInv, LevelTight
    <2>2. \A b \in live' : height(b)' <= level'
      BY <1>3, <1>5, <1>6, <1>7, <2>1
    <2>3. level' = 1 \/ \E b \in live' : height(b)' = level'
      <3>1. CASE h > level
        BY <1>3, <1>7, <3>1
      <3>2. CASE ~(h > level)
        BY <1>3, <1>6, <1>7, <2>1, <3>2
      <3> QED
        BY <3>1, <3>2
    <2> QED
      BY <2>2, <2>3 DEF LevelTight
  <1>11. CallTyped' /\ CallOK' /\ call'.op = "none"
    BY <1>1, NoCallTyped DEF CallTyped, CallOK
  <1>12. dict' = [m \in DOMAIN dict \cup {call.member} |-> IF m = call.member THEN call.score ELSE dict[m]]
    BY DEF Insert
  <1>13. /\ DOMAIN dict' = DOMAIN dict \cup {call.member}
         /\ dict'[call.member] = call.score
         /\ \A m \in DOMAIN dict : m # call.member => dict'[m] = dict[m]
    BY <1>12
  <1>14. stays' = DOMAIN dict \cup {call.member} /\ stays = DOMAIN dict \ {call.member}
    BY <1>1, <1>11, <1>13 DEF stays
  <1>15. Typed'
    <2>1. DOMAIN dict \subseteq Member /\ \A m \in DOMAIN dict : dict[m] \in Score
      BY DEF SInv, Typed
    <2>2. DOMAIN dict' \subseteq Member /\ \A m \in DOMAIN dict' : dict'[m] \in Score
      BY <1>5, <1>13, <2>1
    <2>3. dict' = [m \in DOMAIN dict' |-> dict'[m]]
      BY <1>12
    <2>4. dict' \in [DOMAIN dict' -> Score]
      BY <2>2, <2>3
    <2> QED
      BY <1>8, <1>9, <1>11, <2>2, <2>4 DEF Typed
  <1>16. Pairs'
    <2>1. /\ \A b \in live : node[b].member \in stays /\ node[b].score = dict[node[b].member]
          /\ \A m \in stays : \E b \in live : node[b].member = m
          /\ Distinct
          /\ size = Cardinality(stays)
      BY DEF SInv, Pairs
    <2>2. \A b \in live' : node'[b].member \in stays' /\ node'[b].score = dict'[node'[b].member]
      BY <1>3, <1>6, <1>13, <1>14, <2>1
    <2>3. \A m \in stays' : \E b \in live' : node'[b].member = m
      <3> SUFFICES ASSUME NEW m \in stays' PROVE \E b \in live' : node'[b].member = m
        OBVIOUS
      <3>1. CASE m = call.member
        BY <1>3, <3>1
      <3>2. CASE m # call.member
        <4>1. PICK b \in live : node[b].member = m
          BY <1>14, <2>1, <3>2
        <4> QED
          BY <1>3, <1>6, <4>1
      <3> QED
        BY <3>1, <3>2
    <2>4. Distinct'
      <3>1. \A b \in live : node'[b].member = node[b].member /\ node[b].member # call.member
        BY <1>3, <1>6, <1>14, <2>1
      <3> QED
        BY <1>3, <2>1, <3>1 DEF Distinct
    <2>5. size' = Cardinality(stays')
      <3>1. stays' = stays \cup {call.member} /\ call.member \notin stays
        BY <1>14
      <3>2. Cardinality(stays \cup {call.member}) = Cardinality(stays) + 1
        BY <3>1, FiniteDict, FS_AddElement
      <3> QED
        BY <1>1, <2>1, <3>1, <3>2
    <2> QED
      BY <2>2, <2>3, <2>4, <2>5 DEF Pairs
  <1> QED
    BY <1>4, <1>10, <1>11, <1>15, <1>16 DEF SInv

-----------------------------------------------------------------------------
(* Remove. *)

\* The search of a remove ends right before its node, on every level the node reaches.
LEMMA TargetFound ==
    ASSUME NoNaN, SInv, call.op = "remove", call.i = 0
    PROVE  LET x == node[call.x].forward[1] IN
           /\ x \in live /\ x # Null /\ node[x].member = call.member /\ node[x].score = call.score
           /\ scoreEq(node[x].score, call.score)
           /\ \A j \in Levels : node[call.update[j]].forward[j] = x <=> j <= height(x)
  <1>1. /\ call.member \in Member /\ call.score \in Score /\ call.member \in stays
        /\ call.score = dict[call.member] /\ NodesTyped /\ Distinct
    BY DEF SInv, CallOK, stays, Typed, Pairs
  <1>2. PICK t \in live : node[t].member = call.member
    BY <1>1 DEF SInv, Pairs
  <1>3. node[t].score = call.score
    BY <1>1, <1>2 DEF SInv, Pairs
  <1>4. StrictOrder(order, nodes) /\ t \in nodes /\ t \in Place
    BY <1>1, OrderStrict, Addresses DEF nodes
  <1>5. /\ \A b \in live : node[b].score \in Int /\ node[b].member \in Nat
        /\ call.score \in Int /\ call.member \in Nat
    BY <1>1, ScoreAssumption, MemberAssumption DEF NodesTyped
  <1>6. ~pre(t) /\ \A c \in live : ~pre(c) /\ c # t => <<t, c>> \in order
    <2>1. \A c \in live : pre(c) <=> \/ node[c].score < call.score
                                     \/ node[c].score = call.score /\ node[c].member < call.member
      BY <1>1, PreFacts
    <2>2. ~pre(t)
      BY <1>2, <1>3, <1>5, <2>1
    <2>3. ASSUME NEW c \in live, ~pre(c), c # t PROVE before(t, c)
      <3>1. node[c].member # node[t].member
        BY <1>1, <2>3 DEF Distinct
      <3>2. before(t, c) <=> \/ node[t].score < node[c].score
                             \/ node[t].score = node[c].score /\ node[t].member < node[c].member
        BY <1>1, BeforeLive
      <3> QED
        BY <1>2, <1>3, <1>5, <2>1, <2>3, <3>1, <3>2
    <2>4. \A c \in live : c \in nodes
      BY DEF nodes
    <2> QED
      BY <1>4, <2>2, <2>3, <2>4, InOrder
  <1>7. ASSUME NEW j \in Levels
        PROVE  node[call.update[j]].forward[j] = t <=> j <= height(t)
    <2> DEFINE u == call.update[j]
               n == node[u].forward[j]
    <2>1. u \in nodes /\ pre(u) /\ IsNext(order, at(j), u, n) /\ (n # Null => n \in at(j) /\ ~pre(n))
      BY PlaceFound
    <2>2. j \in Nat /\ height(t) \in Nat
      BY <1>1, <1>4, Heights, LevelAssumption DEF Levels
    <2>3. t # Null
      BY <1>4, Addresses
    <2> HIDE DEF u, n
    <2>4. CASE j <= height(t)
      <3>1. t \in at(j)
        BY <2>2, <2>4 DEF at
      <3>2. before(u, t)
        BY <1>1, <1>6, <2>1, PreFacts
      <3>3. <<u, t>> \in order
        BY <1>4, <2>1, <3>2, InOrder
      <3>4. n # Null /\ (n = t \/ <<n, t>> \in order)
        BY <2>1, <3>1, <3>3 DEF IsNext
      <3>5. n \in live /\ n \in nodes
        BY <2>1, <3>4 DEF at, nodes
      <3>6. n = t
        BY <1>4, <1>6, <2>1, <3>4, <3>5 DEF StrictOrder
      <3> QED
        BY <2>4, <3>6 DEF u, n
    <2>5. CASE ~(j <= height(t))
      <3>1. t \notin at(j)
        BY <2>2, <2>5 DEF at
      <3> QED
        BY <2>1, <2>3, <2>5, <3>1 DEF u, n
    <2> QED
      BY <2>4, <2>5
  <1>8. 1 \in Levels /\ 1 <= height(t)
    <2>1. height(t) > 0 /\ height(t) \in Nat
      BY <1>1, <1>4, Heights
    <2> QED
      BY <2>1, LevelAssumption DEF Levels
  <1>9. call.x = call.update[1]
    BY DEF SInv, CallOK
  <1>10. node[call.x].forward[1] = t
    BY <1>7, <1>8, <1>9
  <1>11. scoreEq(node[t].score, call.score) /\ t # Null
    BY <1>1, <1>3, <1>4, Addresses DEF scoreEq, NoNaN
  <1> QED
    BY <1>2, <1>3, <1>7, <1>10, <1>11

LEMMA UnlinkedFacts ==
    ASSUME NoNaN, SInv, call.op = "remove", call.i = 0, NEW x, x = node[call.x].forward[1],
           node' = unlinked(x)
    PROVE  /\ node' \in [Place -> Node]
           /\ \A b \in Place \ {x} :
                 /\ node'[b].member = node[b].member /\ node'[b].score = node[b].score
                 /\ height(b)' = height(b)
                 /\ \A i \in 1..height(b) :
                       node'[b].forward[i] = IF i <= height(x) /\ call.update[i] = b
                                             THEN node[x].forward[i] ELSE node[b].forward[i]
                 /\ node'[b].backward = IF b = node[x].forward[1] THEN node[x].backward ELSE node[b].backward
           /\ live' = live \ {x} /\ nodes' = nodes \ {x}
  <1>1. /\ x \in live /\ x # Header /\ x \in Place
        /\ \A j \in Levels : node[call.update[j]].forward[j] = x <=> j <= height(x)
    <2>1. x \in live /\ \A j \in Levels : node[call.update[j]].forward[j] = x <=> j <= height(x)
      BY TargetFound
    <2> QED
      BY <2>1, Addresses DEF Place
  <1>2. NodesTyped /\ level \in Nat /\ level <= kMaxLevel /\ kMaxLevel \in Nat
    BY LevelAssumption DEF SInv, Typed, Levels
  <1>3. height(x) \in Nat /\ height(x) <= level /\ height(x) > 0 /\ DOMAIN node[x].forward = 1..height(x)
    BY <1>1, <1>2, Heights DEF SInv, LevelTight, live
  <1>4. \A i : i \in unlinkedLevels(x) <=> i \in 1..height(x)
    <2> SUFFICES ASSUME NEW i PROVE i \in unlinkedLevels(x) <=> i \in 1..height(x)
      OBVIOUS
    <2>1. ASSUME i \in unlinkedLevels(x) PROVE i \in 1..height(x)
      <3>1. i \in 1..level /\ node[call.update[i]].forward[i] = x
        BY <2>1 DEF unlinkedLevels
      <3>2. i \in Levels
        BY <1>2, <3>1 DEF Levels
      <3> QED
        BY <1>1, <1>3, <3>1, <3>2
    <2>2. ASSUME i \in 1..height(x) PROVE i \in unlinkedLevels(x)
      <3>1. i \in 1..level
        BY <1>2, <1>3, <2>2
      <3>2. \A j \in 1..i : j \in Levels /\ j <= height(x)
        BY <1>2, <1>3, <2>2 DEF Levels
      <3> QED
        BY <1>1, <3>1, <3>2 DEF unlinkedLevels
    <2> QED
      BY <2>1, <2>2
  <1>5. \A b \in Place : \A i \in 1..height(b) : node[b].forward[i] \in Ptr
    BY <1>2, Heights
  <1> DEFINE fb(b) == [i \in DOMAIN node[b].forward |->
                             IF i \in unlinkedLevels(x) /\ call.update[i] = b
                             THEN node[x].forward[i] ELSE node[b].forward[i]]
             bb(b) == IF b = node[x].forward[1] THEN node[x].backward ELSE node[b].backward
  <1>6. \A b \in Place : node'[b] = IF b = x THEN FreeNode
                                    ELSE [member |-> node[b].member, score |-> node[b].score,
                                          forward |-> fb(b), backward |-> bb(b)]
    BY Zenon DEF unlinked, relinked, Place
  <1>7. ASSUME NEW b \in Place
        PROVE  /\ fb(b) \in Seq(Ptr) /\ Len(fb(b)) = height(b)
               /\ \A i \in 1..height(b) : fb(b)[i] = IF i <= height(x) /\ call.update[i] = b
                                                     THEN node[x].forward[i] ELSE node[b].forward[i]
    <2>1. DOMAIN node[b].forward = 1..height(b) /\ height(b) \in Nat
      BY <1>2, Heights
    <2>2. \A i \in 1..height(b) : fb(b)[i] = IF i <= height(x) /\ call.update[i] = b
                                             THEN node[x].forward[i] ELSE node[b].forward[i]
      <3> TAKE i \in 1..height(b)
      <3>1. i \in unlinkedLevels(x) <=> i <= height(x)
        BY <1>3, <1>4, <2>1
      <3> QED
        BY <2>1, <3>1
    <2>3. \A i \in 1..height(b) : (IF i \in unlinkedLevels(x) /\ call.update[i] = b
                                   THEN node[x].forward[i] ELSE node[b].forward[i]) \in Ptr
      BY <1>1, <1>4, <1>5
    <2>4. fb(b) \in Seq(Ptr) /\ Len(fb(b)) = height(b)
      BY <2>1, <2>3
    <2> QED
      BY <2>2, <2>4
  <1>8. ASSUME NEW b \in Place PROVE bb(b) \in Ptr /\ node[b].member \in Nat /\ node[b].score \in Int
    <2>1. node[b] \in Node /\ node[x] \in Node
      BY <1>1, <1>2, Heights
    <2> QED
      BY <2>1 DEF Node
  <1> HIDE DEF fb, bb
  <1>9. \A b \in Place : node'[b] \in Node
    <2>1. ASSUME NEW b \in Place
          PROVE  [member |-> node[b].member, score |-> node[b].score,
                  forward |-> fb(b), backward |-> bb(b)] \in Node
      BY <1>7, <1>8 DEF Node
    <2> QED
      BY <1>6, <2>1, FreeNodeFacts, Zenon
  <1>10. node' \in [Place -> Node]
    <2>1. node' = [b \in Place |-> node'[b]]
      BY DEF unlinked, Place
    <2> QED
      BY <1>9, <2>1
  <1>11. \A b \in Place \ {x} :
           /\ node'[b].member = node[b].member /\ node'[b].score = node[b].score
           /\ node'[b].forward = fb(b) /\ node'[b].backward = bb(b)
    <2> TAKE b \in Place \ {x}
    <2>1. node'[b] = [member |-> node[b].member, score |-> node[b].score,
                      forward |-> fb(b), backward |-> bb(b)]
      BY <1>6, Zenon
    <2> QED
      BY <2>1
  <1>12. \A b \in Place \ {x} : height(b)' = height(b)
    BY <1>7, <1>11 DEF height
  <1>13. node'[x].forward = <<>>
    <2>1. node'[x] = FreeNode
      BY <1>1, <1>6, Zenon
    <2> QED
      BY <2>1, FreeNodeFacts
  <1>14. live' = live \ {x}
    <2>1. \A b \in Addr \ {x} : node'[b].forward # <<>> <=> node[b].forward # <<>>
      <3> TAKE b \in Addr \ {x}
      <3>1. node'[b].forward \in Seq(Ptr) /\ node[b].forward \in Seq(Ptr)
        BY <1>2, <1>9, Heights DEF Node, Place
      <3>2. Len(node'[b].forward) = Len(node[b].forward)
        BY <1>12 DEF height, Place
      <3> QED
        BY <3>1, <3>2
    <2> QED
      BY <1>13, <2>1 DEF live
  <1>15. nodes' = nodes \ {x}
    BY <1>1, <1>14 DEF nodes
  <1>16. \A b \in Place \ {x} :
           /\ \A i \in 1..height(b) :
                 node'[b].forward[i] = IF i <= height(x) /\ call.update[i] = b
                                       THEN node[x].forward[i] ELSE node[b].forward[i]
           /\ node'[b].backward = IF b = node[x].forward[1] THEN node[x].backward ELSE node[b].backward
    BY <1>7, <1>11 DEF bb
  <1> QED
    BY <1>10, <1>11, <1>12, <1>14, <1>15, <1>16

LEMMA RemoveLinks ==
    ASSUME NoNaN, SInv, call.op = "remove", call.i = 0, NEW x, x = node[call.x].forward[1],
           node' = unlinked(x)
    PROVE  Links' /\ Backs' /\ \A b \in live' : <<Header, b>> \in order'
  <1>1. /\ \A b \in Place \ {x} :
              /\ node'[b].member = node[b].member /\ node'[b].score = node[b].score
              /\ height(b)' = height(b)
              /\ \A i \in 1..height(b) :
                    node'[b].forward[i] = IF i <= height(x) /\ call.update[i] = b
                                          THEN node[x].forward[i] ELSE node[b].forward[i]
              /\ node'[b].backward = IF b = node[x].forward[1] THEN node[x].backward ELSE node[b].backward
        /\ live' = live \ {x} /\ nodes' = nodes \ {x}
    BY UnlinkedFacts
  <1>2. /\ x \in live /\ x \in nodes /\ x # Null /\ x # Header
        /\ \A j \in Levels : node[call.update[j]].forward[j] = x <=> j <= height(x)
    <2>1. x \in live /\ x # Null /\ \A j \in Levels : node[call.update[j]].forward[j] = x <=> j <= height(x)
      BY TargetFound
    <2> QED
      BY <2>1, Addresses DEF nodes
  <1>3. NodesTyped /\ Distinct /\ kMaxLevel \in Nat
    BY LevelAssumption DEF SInv, Typed, Pairs
  <1>4. /\ \A b \in nodes : b \in Place /\ height(b) \in Nat /\ height(b) > 0 /\ height(b) <= kMaxLevel
        /\ \A b \in live : <<Header, b>> \in order
        /\ Header \in nodes /\ live \subseteq nodes
        /\ StrictOrder(order, nodes)
    BY <1>3, Addresses, Heights, OrderStrict DEF nodes
  <1>5. \A b, c \in nodes' : <<b, c>> \in order <=> <<b, c>> \in order'
    <2>1. \A b, c \in nodes' : before(b, c)' <=> before(b, c)
      BY <1>1, <1>4 DEF before
    <2>2. \A b, c \in nodes' : <<b, c>> \in order' <=> before(b, c)'
      BY DEF order
    <2> QED
      BY <1>1, <2>1, <2>2, InOrder
  <1>6. \A i : at(i) \subseteq nodes /\ at(i)' = at(i) \ {x} /\ at(i)' \subseteq nodes'
    BY <1>1, <1>4 DEF at, nodes
  <1>7. ASSUME NEW c \in nodes, NEW i \in 1..height(c)
        PROVE  /\ IsNext(order, at(i), c, node[c].forward[i])
               /\ node[c].forward[i] \in at(i) \cup {Null}
               /\ c \in at(i) \/ (c = Header /\ \A d \in at(i) : <<c, d>> \in order)
    <2>1. IsNext(order, at(i), c, node[c].forward[i]) /\ node[c].forward[i] \in at(i) \cup {Null}
      BY <1>7, NextNode
    <2>2. c = Header => \A d \in at(i) : <<c, d>> \in order
      BY <1>4 DEF at
    <2>3. c # Header => c \in at(i)
      BY <1>4, <1>7 DEF at, nodes
    <2> QED
      BY <2>1, <2>2, <2>3
  <1>8. ASSUME NEW b \in nodes', NEW i \in 1..height(b)'
        PROVE  IsNext(order', at(i)', b, node'[b].forward[i])
    <2>1. b \in nodes /\ b # x /\ b \in Place \ {x} /\ i \in 1..height(b) /\ i \in Levels /\ i \in Nat
      BY <1>1, <1>3, <1>4, <1>8 DEF Levels
    <2> DEFINE m == node[b].forward[i]
    <2>2. /\ IsNext(order, at(i), b, m) /\ m \in at(i) \cup {Null}
          /\ b \in at(i) \/ (b = Header /\ \A d \in at(i) : <<b, d>> \in order)
      BY <1>7, <2>1
    <2>3. IsNext(order, at(i)', b, node'[b].forward[i])
      <3>1. CASE i <= height(x)
        <4> DEFINE u == call.update[i]
                   n == node[x].forward[i]
        <4>1. u \in nodes /\ i \in 1..height(u) /\ node[u].forward[i] = x
          BY <1>2, <2>1, <3>1, PlaceFound
        <4>2. i \in 1..height(x)
          BY <1>2, <1>4, <2>1, <3>1
        <4>3. IsNext(order, at(i), u, x) /\ IsNext(order, at(i), x, n)
              /\ (u \in at(i) \/ (u = Header /\ \A d \in at(i) : <<u, d>> \in order))
          BY <1>2, <1>7, <4>1, <4>2
        <4>4. node'[b].forward[i] = IF b = u THEN n ELSE m
          BY <1>1, <2>1, <3>1
        <4> HIDE DEF m, u, n
        <4>5. /\ IsNext(order, at(i) \ {x}, u, n)
              /\ \A c \in nodes, k \in at(i) \cup {Null} :
                    k # x /\ IsNext(order, at(i), c, k) => IsNext(order, at(i) \ {x}, c, k)
          BY <1>2, <1>4, <1>6, <4>1, <4>3, Unsplice, Zenon
        <4>6. CASE b = u
          BY <1>6, <4>4, <4>5, <4>6
        <4>7. CASE b # u
          <5>1. m # x
            <6> SUFFICES ASSUME m = x PROVE FALSE
              OBVIOUS
            <6>1. IsNext(order, at(i), b, x)
              BY <2>2
            <6>2. b \in at(i) \/ u \in at(i) \/ b = u
              BY <2>2, <4>3
            <6>3. b \in at(i) \/ \A d \in at(i) : <<b, d>> \in order
              BY <2>2
            <6>4. u \in at(i) \/ \A d \in at(i) : <<u, d>> \in order
              BY <4>3
            <6>5. at(i) \subseteq nodes
              BY <1>6
            <6>6. StrictOrder(order, nodes) /\ b \in nodes /\ u \in nodes /\ x # Null /\ IsNext(order, at(i), u, x)
              BY <1>2, <1>4, <2>1, <4>1, <4>3
            <6>7. b = u
              BY <6>1, <6>2, <6>3, <6>4, <6>5, <6>6, NextInjective
            <6> QED
              BY <4>7, <6>7
          <5> QED
            BY <1>6, <2>1, <2>2, <4>4, <4>5, <4>7, <5>1
        <4> QED
          BY <4>6, <4>7
      <3>2. CASE ~(i <= height(x))
        <4>1. x \notin at(i)
          BY <1>2, <1>4, <2>1, <3>2 DEF at
        <4>2. at(i)' = at(i)
          BY <1>6, <4>1
        <4>3. node'[b].forward[i] = m
          BY <1>1, <2>1, <3>2
        <4> QED
          BY <2>2, <4>2, <4>3
      <3> QED
        BY <3>1, <3>2
    <2> QED
      BY <1>5, <1>6, <1>8, <2>3, NextAgree
  <1>9. Links'
    BY <1>8 DEF Links
  <1>10. Backs'
    <2> DEFINE u == call.update[1]
               n == node[x].forward[1]
    <2>1. 1 \in Levels /\ 1 <= height(x) /\ \A b \in nodes : 1 \in 1..height(b)
      BY <1>2, <1>3, <1>4, LevelAssumption DEF Levels
    <2>2. u \in nodes /\ node[u].forward[1] = x
      BY <1>2, <2>1, PlaceFound
    <2>3. \A b \in nodes : node[b].forward[1] = x => b = u
      <3> SUFFICES ASSUME NEW b \in nodes, node[b].forward[1] = x PROVE b = u
        OBVIOUS
      <3>1. IsNext(order, at(1), b, x) /\ (b \in at(1) \/ (b = Header /\ \A d \in at(1) : <<b, d>> \in order))
        BY <1>7, <2>1
      <3>2. IsNext(order, at(1), u, x) /\ (u \in at(1) \/ (u = Header /\ \A d \in at(1) : <<u, d>> \in order))
        BY <1>7, <2>1, <2>2
      <3>3. b \in at(1) \/ u \in at(1) \/ b = u
        BY <3>1, <3>2
      <3>4. at(1) \subseteq nodes
        BY <1>6
      <3>5. b \in at(1) \/ \A d \in at(1) : <<b, d>> \in order
        BY <3>1
      <3>6. u \in at(1) \/ \A d \in at(1) : <<u, d>> \in order
        BY <3>2
      <3>7. /\ StrictOrder(order, nodes) /\ u \in nodes /\ x # Null
            /\ IsNext(order, at(1), b, x) /\ IsNext(order, at(1), u, x)
        BY <1>2, <1>4, <2>2, <3>1, <3>2
      <3> HIDE DEF u
      <3> QED
        BY <3>3, <3>4, <3>5, <3>6, <3>7, NextInjective
    <2>4. u # x
      <3>1. IsNext(order, at(1), u, x)
        BY <1>7, <2>1, <2>2
      <3> QED
        BY <1>2, <1>4, <3>1 DEF IsNext, StrictOrder
    <2>5. node'[u].forward[1] = n
      BY <1>1, <1>4, <2>1, <2>2, <2>4
    <2>6. prior(x) = u
      BY <1>2, <2>3 DEF SInv, Backs
    <2>7. ASSUME NEW c \in live' PROVE prior(c)' \in nodes' /\ node'[prior(c)'].forward[1] = c
      <3>1. c \in live /\ c # x /\ c \in Place \ {x}
        BY <1>1, <1>4, <2>7
      <3>2. CASE c = n
        <4>1. node'[c].backward = node[x].backward
          BY <1>1, <3>1, <3>2
        <4>2. prior(c)' = prior(x)
          BY <4>1 DEF prior
        <4>3. prior(c)' = u /\ u \in nodes'
          BY <1>1, <2>2, <2>4, <2>6, <4>2
        <4> HIDE DEF u, n
        <4> QED
          BY <2>5, <3>2, <4>3
      <3>3. CASE c # n
        <4>1. prior(c)' = prior(c)
          BY <1>1, <3>1, <3>3 DEF prior
        <4>2. prior(c) \in nodes /\ node[prior(c)].forward[1] = c
          BY <3>1 DEF SInv, Backs
        <4>3. prior(c) # x /\ prior(c) # u
          BY <2>2, <3>1, <3>3, <4>2
        <4>4. node'[prior(c)].forward[1] = c
          BY <1>1, <1>4, <2>1, <4>2, <4>3
        <4> QED
          BY <1>1, <4>1, <4>2, <4>3, <4>4
      <3> QED
        BY <3>2, <3>3
    <2> QED
      BY <2>7 DEF Backs
  <1>11. \A b \in live' : <<Header, b>> \in order'
    <2>1. \A b \in live' : b \in live /\ b \in nodes' /\ Header \in nodes'
      BY <1>1, <1>2, <1>4
    <2> QED
      BY <1>4, <1>5, <2>1
  <1> QED
    BY <1>9, <1>10, <1>11

\* The loop that lowers level_ stops.
LEMMA ShrunkFacts ==
    ASSUME NEW nd, level \in Nat, level > 0
    PROVE  /\ shrunk(nd) \in 1..level
           /\ shrunk(nd) = 1 \/ nd[Header].forward[shrunk(nd)] # Null
           /\ \A i \in (shrunk(nd) + 1)..level : nd[Header].forward[i] = Null
  <1> DEFINE T == {l \in 1..level : \A i \in (l + 1)..level : nd[Header].forward[i] = Null}
  <1>1. T \in SUBSET Nat /\ level \in T
    OBVIOUS
  <1> HIDE DEF T
  <1>2. PICK l \in T : \A k \in T : l <= k
    BY <1>1, LeastNat
  <1>3. l \in 1..level /\ \A i \in (l + 1)..level : nd[Header].forward[i] = Null
    BY <1>2 DEF T
  <1>4. l = 1 \/ nd[Header].forward[l] # Null
    <2> SUFFICES ASSUME l # 1, nd[Header].forward[l] = Null PROVE FALSE
      OBVIOUS
    <2>1. l - 1 \in 1..level
      BY <1>3
    <2>2. ASSUME NEW i \in ((l - 1) + 1)..level PROVE nd[Header].forward[i] = Null
      <3>1. i = l \/ i \in (l + 1)..level
        BY <1>3, <2>2
      <3> QED
        BY <1>3, <3>1
    <2>3. l - 1 \in T
      BY <2>1, <2>2 DEF T
    <2> QED
      BY <1>2, <1>3, <2>3
  <1>5. \E k \in 1..level : /\ k = 1 \/ nd[Header].forward[k] # Null
                            /\ \A i \in (k + 1)..level : nd[Header].forward[i] = Null
    BY <1>3, <1>4
  <1> QED
    BY <1>5, Zenon DEF shrunk

\* A list whose last member went is as good as new.
LEMMA SInvReset == Init' => SInv'
  BY SInvInit, PTL

LEMMA SInvRemove ==
    ASSUME NoNaN, SInv, Remove
    PROVE  SInv'
  <1>0. PICK x : x = node[call.x].forward[1]
    OBVIOUS
  <1> DEFINE last == ~call.thenInsert /\ DOMAIN dict = {call.member}
  <1>1. call.op = "remove" /\ call.i = 0
    BY DEF Remove
  <1>2. /\ x \in live /\ x # Null /\ node[x].member = call.member /\ node[x].score = call.score
        /\ scoreEq(node[x].score, call.score)
    BY <1>0, <1>1, TargetFound
  <1>3. IF last THEN node' = EmptyList /\ level' = 1 /\ size' = 0
        ELSE node' = unlinked(x) /\ level' = shrunk(unlinked(x)) /\ size' = size - 1
    BY <1>0, <1>2 DEF Remove
  <1>4. \/ /\ call.thenInsert /\ dict' = dict
           /\ call' = begin("insert", call.member, call.new, 0, FALSE, level')
        \/ /\ ~call.thenInsert /\ call' = NoCall
           /\ dict' = [m \in DOMAIN dict \ {call.member} |-> dict[m]]
    BY DEF Remove
  <1>5. /\ call.member \in Member /\ call.score \in Score /\ call.member \in DOMAIN dict
        /\ call.thenInsert => call.new \in Score
        /\ NodesTyped /\ level \in Nat /\ level > 0 /\ level <= kMaxLevel /\ kMaxLevel \in Nat
    BY <1>1, LevelAssumption DEF SInv, Typed, CallOK, Levels
  <1>6. CASE last
    <2>1. DOMAIN dict \ {call.member} = {}
      BY <1>6
    <2>2. dict' = <<>>
      <3>1. dict' = [m \in DOMAIN dict \ {call.member} |-> dict[m]]
        BY <1>4, <1>6
      <3>2. DOMAIN dict' = {} /\ dict' = [m \in DOMAIN dict' |-> dict'[m]]
        BY <2>1, <3>1
      <3>3. dict' \in Seq({}) /\ Len(dict') = 0
        BY <3>2
      <3> QED
        BY <3>3
    <2>3. Init'
      BY <1>3, <1>4, <1>6, <2>2 DEF Init
    <2> QED
      BY <2>3, SInvReset
  <1>7. CASE ~last
    <2> HIDE DEF last
    <2>0. node' = unlinked(x) /\ level' = shrunk(unlinked(x)) /\ size' = size - 1
      BY <1>3, <1>7
    <2>1. node' = unlinked(x) /\ level' = shrunk(node') /\ size' = size - 1
      BY <2>0, Zenon
    <2>2. /\ node' \in [Place -> Node]
          /\ \A b \in Place \ {x} :
                /\ node'[b].member = node[b].member /\ node'[b].score = node[b].score
                /\ height(b)' = height(b)
          /\ live' = live \ {x} /\ nodes' = nodes \ {x}
      BY <1>0, <1>1, <2>1, UnlinkedFacts
    <2>3. Links' /\ Backs' /\ \A b \in live' : <<Header, b>> \in order'
      BY <1>0, <1>1, <2>1, RemoveLinks
    <2>4. /\ level' \in 1..level
          /\ level' = 1 \/ node'[Header].forward[level'] # Null
          /\ \A i \in (level' + 1)..level : node'[Header].forward[i] = Null
      BY <1>5, <2>1, ShrunkFacts
    <2>5. level' \in Levels /\ level' \in Nat
      BY <1>5, <2>4 DEF Levels
    <2>6. \A b \in live' : b \in live /\ b \in Place \ {x}
      BY <2>2, Addresses DEF nodes
    <2>7. Header \in Place \ {x} /\ height(Header)' = kMaxLevel /\ Header \in nodes'
      BY <1>2, <1>5, <2>2, Addresses DEF NodesTyped, Place, nodes
    <2>8. NodesTyped'
      <3>1. \A b \in Place \ {x} : height(b)' <= kMaxLevel
        BY <1>5, <2>2 DEF NodesTyped
      <3>2. height(x)' <= kMaxLevel
        <4>1. x \notin live' /\ x \in Addr
          BY <1>2, <2>2 DEF live
        <4>2. node'[x].forward = <<>>
          BY <4>1 DEF live
        <4>3. Len(<<>>) = 0
          OBVIOUS
        <4> QED
          BY <1>5, <4>2, <4>3 DEF height
      <3>3. \A b \in live' : node'[b].member \in Member /\ node'[b].score \in Score
        BY <1>5, <2>2, <2>6 DEF NodesTyped
      <3> QED
        BY <2>2, <2>7, <3>1, <3>2, <3>3 DEF NodesTyped
    <2>9. LevelTight'
      <3>1. ASSUME NEW b \in live', ~(height(b)' <= level') PROVE FALSE
        <4>1. height(b)' = height(b) /\ height(b) <= level /\ height(b) \in Nat
          BY <1>5, <2>2, <2>6, Heights DEF SInv, LevelTight
        <4>0. PICK k : k = height(b)
          OBVIOUS
        <4>2. k \in (level' + 1)..level /\ k \in 1..height(Header)'
          BY <1>5, <2>5, <2>7, <3>1, <4>0, <4>1
        <4>3. node'[Header].forward[k] = Null
          BY <2>4, <4>2
        <4>4. b \in at(k)'
          BY <3>1, <4>0, <4>1 DEF at
        <4>5. IsNext(order', at(k)', Header, Null)
          BY <2>3, <2>7, <4>2, <4>3 DEF Links
        <4> QED
          BY <2>3, <3>1, <4>4, <4>5 DEF IsNext
      <3>2. ASSUME level' # 1 PROVE \E b \in live' : height(b)' = level'
        <4>0. PICK b : b = node'[Header].forward[level']
          OBVIOUS
        <4>1. b # Null /\ level' \in 1..height(Header)'
          BY <1>5, <2>4, <2>5, <2>7, <3>2, <4>0
        <4>2. \A i \in 1..height(Header)' : IsNext(order', at(i)', Header, node'[Header].forward[i])
          BY <2>3, <2>7 DEF Links
        <4>3. IsNext(order', {c \in live' : height(c)' >= level'}, Header, b)
          BY <4>0, <4>1, <4>2 DEF at
        <4>4. b \in live' /\ height(b)' >= level'
          BY <4>1, <4>3 DEF IsNext
        <4>5. height(b)' <= level' /\ height(b)' \in Nat
          BY <1>5, <2>2, <2>6, <3>1, <4>4, Heights
        <4> QED
          BY <2>5, <4>4, <4>5
      <3> QED
        BY <3>1, <3>2 DEF LevelTight
    <2>10. /\ DOMAIN dict' \subseteq DOMAIN dict /\ DOMAIN dict \ {call.member} \subseteq DOMAIN dict'
           /\ \A m \in DOMAIN dict' : dict'[m] = dict[m]
           /\ dict' = [m \in DOMAIN dict' |-> dict'[m]]
      <3>1. dict = [m \in DOMAIN dict |-> dict[m]]
        BY DEF SInv, Typed
      <3> QED
        BY <1>4, <3>1
    <2>11. CallTyped' /\ CallOK' /\ stays' = DOMAIN dict \ {call.member}
      <3>1. CASE call.thenInsert
        <4>1. call' = begin("insert", call.member, call.new, 0, FALSE, level') /\ dict' = dict
          BY <1>4, <3>1
        <4>2. "insert" \in {"insert", "remove"} /\ 0 \in Int /\ FALSE \in BOOLEAN /\ "insert" # "remove"
          OBVIOUS
        <4>3. call.new \in Score
          BY <1>5, <3>1
        <4>4. CallTyped' /\ CallOK' /\ call'.op = "insert" /\ call'.member = call.member
          BY <1>5, <2>5, <2>8, <4>1, <4>2, <4>3, CallBegins, Zenon
        <4> QED
          BY <4>1, <4>4 DEF stays
      <3>2. CASE ~call.thenInsert
        <4>1. call' = NoCall /\ dict' = [m \in DOMAIN dict \ {call.member} |-> dict[m]]
          BY <1>4, <3>2
        <4>2. CallTyped' /\ CallOK' /\ call'.op = "none"
          BY <4>1, NoCallTyped DEF CallTyped, CallOK
        <4> QED
          BY <4>1, <4>2 DEF stays
      <3> QED
        BY <3>1, <3>2
    <2>12. Typed'
      <3>1. DOMAIN dict \subseteq Member /\ \A m \in DOMAIN dict : dict[m] \in Score
        BY DEF SInv, Typed
      <3>2. DOMAIN dict' \subseteq Member /\ dict' \in [DOMAIN dict' -> Score]
        BY <2>10, <3>1
      <3> QED
        BY <2>5, <2>8, <2>11, <3>2 DEF Typed
    <2>13. Pairs'
      <3>1. /\ \A b \in live : node[b].member \in DOMAIN dict /\ node[b].score = dict[node[b].member]
            /\ \A m \in DOMAIN dict : \E b \in live : node[b].member = m
            /\ Distinct /\ size = Cardinality(DOMAIN dict)
        BY <1>1 DEF SInv, Pairs, stays
      <3>2. \A b \in live' : /\ node'[b].member = node[b].member /\ node'[b].score = node[b].score
                             /\ node[b].member # call.member
        BY <1>2, <2>2, <2>6, <3>1 DEF Distinct
      <3>3. \A b \in live' : node'[b].member \in stays' /\ node'[b].score = dict'[node'[b].member]
        BY <2>6, <2>10, <2>11, <3>1, <3>2
      <3>4. \A m \in stays' : \E b \in live' : node'[b].member = m
        <4> TAKE m \in stays'
        <4>1. PICK b \in live : node[b].member = m
          BY <2>11, <3>1
        <4>2. b # x
          BY <1>2, <2>11, <4>1
        <4> QED
          BY <2>2, <3>2, <4>1, <4>2
      <3>5. Distinct'
        BY <2>6, <3>1, <3>2 DEF Distinct
      <3>6. size' = Cardinality(stays')
        <4>1. Cardinality(DOMAIN dict \ {call.member}) = Cardinality(DOMAIN dict) - 1
          BY <1>5, FiniteDict, FS_RemoveElement
        <4> QED
          BY <2>1, <2>11, <3>1, <4>1
      <3> QED
        BY <3>3, <3>4, <3>5, <3>6 DEF Pairs
    <2> QED
      BY <2>3, <2>9, <2>11, <2>12, <2>13 DEF SInv
  <1> QED
    BY <1>6, <1>7

-----------------------------------------------------------------------------
(* The theorems. *)

LEMMA SInvNext ==
    ASSUME NoNaN, SInv, [Next]_vars
    PROVE  SInv'
  <1>1. ASSUME NEW m \in Member, ZRem(m) \/ \E s \in Score : ZAdd(m, s) PROVE SInv'
    BY <1>1, SInvCommand
  <1>2. CASE Search
    BY <1>2, SInvSearch
  <1>3. ASSUME NEW h \in Levels, Insert(h) PROVE SInv'
    BY <1>3, SInvInsert
  <1>4. CASE Remove
    BY <1>4, SInvRemove
  <1>5. CASE UNCHANGED vars
    <2>1. UNCHANGED <<node, level, size, dict, call>>
      BY <1>5 DEF vars
    <2>2. NodesTyped' /\ Links' /\ Backs' /\ LevelTight' /\ live' = live /\ nodes' = nodes
          /\ \A a : height(a)' = height(a)
      BY <2>1, ListUnchanged
    <2>3. stays' = stays
      BY <2>1 DEF stays
    <2>4. Pairs'
      BY <2>1, <2>2, <2>3 DEF SInv, Pairs, Distinct
    <2>5. Typed'
      BY <2>1, <2>2 DEF SInv, Typed, CallTyped
    <2>6. CallOK'
      BY <2>1, <2>2 DEF SInv, CallOK, Found, pre
    <2> QED
      BY <2>2, <2>4, <2>5, <2>6 DEF SInv
  <1> QED
    BY <1>1, <1>2, <1>3, <1>4, <1>5 DEF Next

\* The invariant holds of every behaviour of ZADD and ZREM, whatever heights are drawn.
THEOREM Invariance ==
    ASSUME NoNaN
    PROVE  Spec => []SInv
  <1>1. Init => SInv
    BY SInvInit
  <1>2. SInv /\ [Next]_vars => SInv'
    BY SInvNext
  <1> QED
    BY <1>1, <1>2, PTL DEF Spec

\* Nodes, dict and cursor keep their types; the cursor and the update array of a search
\* only ever hold the header or nodes that are still in the list.
THEOREM TypeCorrect ==
    ASSUME NoNaN
    PROVE  Spec => []TypeOK
  <1>1. SInv => TypeOK
    <2> SUFFICES ASSUME SInv PROVE TypeOK
      OBVIOUS
    <2>1. NodesTyped /\ CallTyped /\ level \in Levels
      BY DEF SInv, Typed
    <2>2. DOMAIN node = Addr \cup {Header} /\ height(Header) = kMaxLevel
      BY <2>1 DEF NodesTyped, Place
    <2>3. ASSUME NEW a \in Addr \cup {Header}
          PROVE  /\ node[a].forward \in UNION {[1..h -> Addr \cup {Null}] : h \in 0..kMaxLevel}
                 /\ node[a].backward \in Addr \cup {Null}
                 /\ a \in live => node[a].member \in Member /\ node[a].score \in Score
      <3>1. node[a] \in Node /\ node[a].forward \in Seq(Ptr) /\ height(a) \in 0..kMaxLevel
        BY <2>1, Heights, LevelAssumption DEF Place
      <3>2. node[a].forward \in [1..height(a) -> Ptr]
        BY <3>1 DEF height
      <3>3. node[a].forward \in UNION {[1..h -> Ptr] : h \in 0..kMaxLevel}
        BY <3>1, <3>2
      <3> QED
        BY <2>1, <3>1, <3>3 DEF Ptr, Node, NodesTyped
    <2>4. size \in 0..Cardinality(Member)
      <3>1. stays \subseteq Member /\ size = Cardinality(stays)
        BY DEF SInv, Typed, Pairs, stays
      <3>2. IsFiniteSet(stays) /\ Cardinality(stays) <= Cardinality(Member)
        BY <3>1, MemberAssumption, FS_Subset
      <3>3. Cardinality(stays) \in Nat /\ Cardinality(Member) \in Nat
        BY <3>2, MemberAssumption, FS_CardinalityType
      <3> QED
        BY <3>1, <3>2, <3>3
    <2>5. DOMAIN dict \subseteq Member /\ \A m \in DOMAIN dict : dict[m] \in Score
      BY DEF SInv, Typed
    <2>6. call.op \in {"none", "insert", "remove"} /\ call.i \in 0..kMaxLevel
      BY <2>1 DEF CallTyped
    <2>7. call.x \in live \cup {Header} /\ \A i \in Levels : call.update[i] \in live \cup {Header}
      BY NoCallTyped DEF SInv, CallOK, nodes
    <2> QED
      BY <2>1, <2>2, <2>3, <2>4, <2>5, <2>6, <2>7 DEF TypeOK
  <1> QED
    BY <1>1, Invariance, PTL

\* Between commands every pointer of every tower leads to the next node of its level,
\* level 1 is linked both ways and level_ is exact: insert and remove leave no dangling
\* or skipped pointer behind, whatever heights were drawn.
THEOREM TowersCorrect ==
    ASSUME NoNaN
    PROVE  Spec => []Towers
  <1>1. SInv => Towers
    <2> SUFFICES ASSUME SInv PROVE Linked /\ LinkedBack /\ LevelTight
      BY DEF Towers
    <2>1. NodesTyped /\ Distinct
      BY DEF SInv, Typed, Pairs
    <2>2. /\ StrictOrder(order, nodes) /\ live \subseteq nodes /\ Header \in nodes
          /\ \A a \in live : <<Header, a>> \in order
      BY <2>1, OrderStrict DEF nodes
    <2>3. ASSUME NEW a \in live \cup {Header}, NEW i \in 1..height(a)
          PROVE  node[a].forward[i] = first(behind(a, i))
      <3> DEFINE n == node[a].forward[i]
                 S == behind(a, i)
      <3>1. a \in nodes
        BY DEF nodes
      <3>2. IsNext(order, at(i), a, n)
        BY <2>3, <3>1, NextNode
      <3>3. \A b \in nodes, c \in nodes : <<b, c>> \in order <=> before(b, c)
        BY InOrder
      <3>4. \A b : b \in S <=> b \in at(i) /\ <<a, b>> \in order
        BY <2>2, <3>1, <3>3 DEF behind, at
      <3>5. \A b \in S : b \in nodes
        BY <2>2 DEF behind
      <3> HIDE DEF n, S
      <3>6. CASE n = Null
        <4>1. S = {}
          BY <3>2, <3>4, <3>6 DEF IsNext
        <4> QED
          BY <3>6, <4>1 DEF first, n, S
      <3>7. CASE n # Null
        <4>1. n \in S /\ \A c \in S \ {n} : <<n, c>> \in order
          BY <3>2, <3>4, <3>7 DEF IsNext
        <4>2. \A c \in S \ {n} : before(n, c)
          BY <3>3, <3>5, <4>1
        <4>3. ASSUME NEW b \in S, \A c \in S \ {b} : before(b, c) PROVE b = n
          <5> SUFFICES ASSUME b # n PROVE FALSE
            OBVIOUS
          <5>1. <<b, n>> \in order /\ <<n, b>> \in order
            BY <3>3, <3>5, <4>1, <4>3
          <5> QED
            BY <2>2, <3>5, <4>1, <5>1 DEF StrictOrder
        <4>4. (CHOOSE b \in S : \A c \in S \ {b} : before(b, c)) = n
          BY <4>1, <4>2, <4>3
        <4> QED
          BY <4>1, <4>4 DEF first, n, S
      <3> QED
        BY <3>6, <3>7
    <2>4. Linked
      BY <2>3 DEF Linked
    <2>5. ASSUME NEW b \in nodes, NEW c \in nodes, node[b].forward[1] = node[c].forward[1],
                 node[b].forward[1] # Null
          PROVE  b = c
      <3> DEFINE n == node[b].forward[1]
      <3>1. \A d \in nodes : 1 \in 1..height(d) /\ (d \in at(1) \/ d = Header)
        <4>1. \A d \in nodes : height(d) > 0 /\ height(d) \in Nat
          BY <2>1, Heights, Addresses
        <4> QED
          BY <4>1 DEF at, nodes
      <3>2. IsNext(order, at(1), b, n) /\ IsNext(order, at(1), c, n)
        BY <2>5, <3>1, NextNode
      <3>3. at(1) \subseteq nodes /\ \A d \in at(1) : <<Header, d>> \in order
        BY <2>2 DEF at
      <3>4. b \in at(1) \/ \A d \in at(1) : <<b, d>> \in order
        BY <3>1, <3>3
      <3>5. c \in at(1) \/ \A d \in at(1) : <<c, d>> \in order
        BY <3>1, <3>3
      <3>6. b \in at(1) \/ c \in at(1) \/ b = c
        BY <3>1
      <3>7. StrictOrder(order, nodes) /\ at(1) \subseteq nodes /\ n # Null
        BY <2>2, <2>5, <3>3
      <3> HIDE DEF n
      <3> QED
        BY <3>2, <3>4, <3>5, <3>6, <3>7, NextInjective
    <2>6. LinkedBack
      <3> SUFFICES ASSUME NEW a \in live
                   PROVE  LET prev == {b \in live : node[b].forward[1] = a}
                          IN  IF prev = {} THEN node[a].backward = Null ELSE prev = {node[a].backward}
        BY DEF LinkedBack
      <3>1. prior(a) \in nodes /\ node[prior(a)].forward[1] = a
        BY DEF SInv, Backs
      <3>2. a # Null /\ Header \notin live
        BY Addresses
      <3>3. \A b \in live : node[b].forward[1] = a => b = prior(a)
        BY <2>2, <2>5, <3>1, <3>2
      <3>4. CASE node[a].backward = Null
        <4>1. prior(a) = Header
          BY <3>4 DEF prior
        <4> QED
          BY <3>2, <3>3, <3>4, <4>1
      <3>5. CASE node[a].backward # Null
        <4>1. prior(a) = node[a].backward
          BY <3>5 DEF prior
        <4>2. node[a].backward \in Ptr
          BY <2>1, Heights DEF Node, live, Place
        <4>3. prior(a) \in live
          BY <3>1, <3>5, <4>1, <4>2, Addresses DEF nodes, Ptr
        <4> QED
          BY <3>1, <3>3, <4>1, <4>3
      <3> QED
        BY <3>4, <3>5
    <2> QED
      BY <2>4, <2>6 DEF SInv
  <1> QED
    BY <1>1, Invariance, PTL

\* Between commands skiplist and dict hold the same pairs, one node for each member, and
\* size_ counts them: the insert that follows ZADD's remove restores what it took away.
THEOREM SyncCorrect ==
    ASSUME NoNaN
    PROVE  Spec => []InSync
  <1>1. SInv => InSync
    <2> SUFFICES ASSUME SInv, call.op = "none" PROVE InSync
      BY DEF InSync, idle
    <2>1. /\ \A a \in live : node[a].member \in DOMAIN dict /\ node[a].score = dict[node[a].member]
          /\ \A m \in DOMAIN dict : \E a \in live : node[a].member = m
          /\ Distinct /\ size = Cardinality(DOMAIN dict)
      BY DEF SInv, Pairs, stays
    <2>2. {<<node[a].member, node[a].score>> : a \in live} = {<<m, dict[m]>> : m \in DOMAIN dict}
      BY <2>1
    <2>3. Cardinality(live) = Cardinality(DOMAIN dict)
      <3> DEFINE f == [a \in live |-> node[a].member]
      <3>1. f \in Injection(live, DOMAIN dict) /\ f \in Surjection(live, DOMAIN dict)
        BY <2>1 DEF Injection, Surjection, IsInjective, Distinct
      <3> HIDE DEF f
      <3> QED
        BY <3>1, FiniteDict, FS_Injection
    <2> QED
      BY <2>1, <2>2, <2>3 DEF InSync
  <1> QED
    BY <1>1, Invariance, PTL
-----------------------------------------------------------------------------
(* Ranks. *)

\* walked is what its recursive definition says: a function on 0..m that obeys it can be
\* extended to 0..(m + 1).
LEMMA WalkedDef ==
    ASSUME NEW k \in Nat
    PROVE  walked(k) = [j \in 0..k |->
                          IF j = 0 THEN node[Header].forward[1]
                          ELSE IF walked(k)[j - 1] = Null THEN Null
                          ELSE node[walked(k)[j - 1]].forward[1]]
  <1> DEFINE val(w, j) == IF j = 0 THEN node[Header].forward[1]
                          ELSE IF w[j - 1] = Null THEN Null
                          ELSE node[w[j - 1]].forward[1]
             Runs(m) == \E w : w = [j \in 0..m |-> val(w, j)]
             bad == {m \in Nat : ~ Runs(m)}
  <1>1. ASSUME NEW j \in Nat, NEW d, NEW e, j > 0 => d[j - 1] = e[j - 1]
        PROVE  val(d, j) = val(e, j)
    BY <1>1
  <1>2. ASSUME bad # {} PROVE FALSE
    <2>1. PICK m \in bad : \A y \in bad : m <= y
      BY <1>2, LeastNat
    <2>2. CASE m = 0
      <3> DEFINE first1 == node[Header].forward[1]
      <3>1. [j \in 0..0 |-> first1] = [j \in 0..0 |-> val([i \in 0..0 |-> first1], j)]
        OBVIOUS
      <3> QED
        BY <2>1, <2>2, <3>1
    <2>3. CASE m # 0
      <3> HIDE DEF Runs
      <3>1. m - 1 \in Nat /\ m - 1 \notin bad
        BY <2>1, <2>3
      <3>2. Runs(m - 1)
        BY <3>1
      <3>3. PICK d : d = [j \in 0..(m - 1) |-> val(d, j)]
        BY <3>2 DEF Runs
      <3> HIDE DEF val
      <3> DEFINE e == [j \in 0..m |-> IF j < m THEN d[j] ELSE val(d, j)]
      <3>4. ASSUME NEW j \in 0..m PROVE e[j] = val(e, j)
        <4>1. j > 0 => d[j - 1] = e[j - 1]
          BY <2>1
        <4>2. val(d, j) = val(e, j)
          BY <4>1, <1>1
        <4>3. CASE j < m
          <5>1. e[j] = d[j] /\ d[j] = val(d, j)
            BY <4>3, <3>3, <2>1
          <5> QED
            BY <5>1, <4>2
        <4>4. CASE j = m
          BY <4>4, <4>2
        <4> QED
          BY <4>3, <4>4, <2>1
      <3>5. DOMAIN e = 0..m /\ e = [j \in DOMAIN e |-> e[j]]
        OBVIOUS
      <3> HIDE DEF e
      <3>6. e = [j \in 0..m |-> val(e, j)]
        BY <3>4, <3>5
      <3> QED
        BY <3>6, <2>1 DEF Runs
    <2> QED
      BY <2>2, <2>3
  <1>3. Runs(k)
    BY <1>2
  <1>4. walked(k) = [j \in 0..k |-> val(walked(k), j)]
    BY <1>3 DEF walked
  <1> QED
    BY <1>4

\* The nodes that come before a.
ahead(a) == {b \in live : <<b, a>> \in order}

LEMMA FiniteLive ==
    ASSUME SInv, call.op = "none"
    PROVE  /\ IsFiniteSet(live) /\ Cardinality(live) = Cardinality(DOMAIN dict)
           /\ size = Cardinality(live) /\ size \in Nat
  <1>1. /\ \A a \in live : node[a].member \in DOMAIN dict
        /\ \A m \in DOMAIN dict : \E a \in live : node[a].member = m
        /\ Distinct /\ size = Cardinality(DOMAIN dict)
    BY DEF SInv, Pairs, stays
  <1> DEFINE f == [a \in live |-> node[a].member]
  <1>2. f \in Injection(live, DOMAIN dict) /\ f \in Surjection(live, DOMAIN dict)
    BY <1>1 DEF Injection, Surjection, IsInjective, Distinct
  <1> HIDE DEF f
  <1>3. IsFiniteSet(live) /\ Cardinality(live) = Cardinality(DOMAIN dict)
    BY <1>2, FiniteDict, FS_Injection
  <1> QED
    BY <1>1, <1>3, FS_CardinalityType

\* The rank of a member among the pairs of the dict is that of its node among the nodes.
LEMMA RankOfNode ==
    ASSUME NoNaN, SInv, call.op = "none", NEW a \in live
    PROVE  rankOf(node[a].member) = Cardinality(ahead(a))
  <1> DEFINE m == node[a].member
             D == {o \in DOMAIN dict : lessThan(dict[o], o, dict[m], m)}
             f == [b \in ahead(a) |-> node[b].member]
  <1>1. /\ \A b \in live : node[b].member \in DOMAIN dict /\ node[b].score = dict[node[b].member]
        /\ \A o \in DOMAIN dict : \E b \in live : node[b].member = o
        /\ Distinct /\ NodesTyped
    BY DEF SInv, Pairs, stays, Typed
  <1>2. \A b \in live : b \in ahead(a) <=> node[b].member \in D
    <2> TAKE b \in live
    <2>1. b \in nodes /\ a \in nodes /\ b # Header /\ a # Header
      BY Addresses DEF nodes
    <2>2. b \in ahead(a) <=> before(b, a)
      BY <2>1, InOrder DEF ahead
    <2>3. before(b, a) <=> lessThan(node[b].score, node[b].member, node[a].score, node[a].member)
      BY <2>1 DEF before
    <2> QED
      BY <1>1, <2>2, <2>3
  <1>3. ahead(a) \subseteq live
    BY DEF ahead
  <1>4. D \subseteq DOMAIN dict
    OBVIOUS
  <1> HIDE DEF D
  <1>5. f \in Injection(ahead(a), D) /\ f \in Surjection(ahead(a), D)
    <2>1. f \in [ahead(a) -> D]
      BY <1>2, <1>3
    <2>2. \A o \in D : \E b \in ahead(a) : f[b] = o
      BY <1>1, <1>2, <1>4
    <2>3. \A b, c \in ahead(a) : f[b] = f[c] => b = c
      BY <1>1, <1>3 DEF Distinct
    <2> HIDE DEF f
    <2> QED
      BY <2>1, <2>2, <2>3 DEF Injection, Surjection, IsInjective
  <1> HIDE DEF f
  <1>6. IsFiniteSet(D)
    BY <1>4, FiniteDict, FS_Subset
  <1>7. Cardinality(ahead(a)) = Cardinality(D)
    BY <1>5, <1>6, FS_Injection
  <1> QED
    BY <1>7 DEF rankOf, D

LEMMA AheadFacts ==
    ASSUME NoNaN, SInv, call.op = "none", NEW a \in live
    PROVE  /\ IsFiniteSet(ahead(a)) /\ a \notin ahead(a)
           /\ Cardinality(ahead(a)) \in 0..(size - 1)
           /\ Cardinality(ahead(a) \cup {a}) = Cardinality(ahead(a)) + 1
  <1>1. StrictOrder(order, nodes) /\ a \in nodes
    BY OrderStrict DEF SInv, Typed, Pairs, nodes
  <1>2. a \notin ahead(a) /\ ahead(a) \cup {a} \in SUBSET live /\ ahead(a) \in SUBSET live
    BY <1>1 DEF ahead, StrictOrder
  <1>3. IsFiniteSet(live) /\ size = Cardinality(live) /\ size \in Nat
    BY FiniteLive
  <1>4. IsFiniteSet(ahead(a)) /\ Cardinality(ahead(a) \cup {a}) <= size
    BY <1>2, <1>3, FS_Subset
  <1>5. Cardinality(ahead(a) \cup {a}) = Cardinality(ahead(a)) + 1 /\ Cardinality(ahead(a)) \in Nat
    BY <1>2, <1>4, FS_AddElement, FS_CardinalityType
  <1> QED
    BY <1>2, <1>3, <1>4, <1>5

\* No two nodes have the same rank.
LEMMA RankInjective ==
    ASSUME NoNaN, SInv, call.op = "none", NEW a \in live, NEW b \in live,
           Cardinality(ahead(a)) = Cardinality(ahead(b))
    PROVE  a = b
  <1>1. StrictOrder(order, nodes) /\ live \subseteq nodes
    BY OrderStrict DEF SInv, Typed, Pairs, nodes
  <1>2. ASSUME NEW c \in live, NEW d \in live, <<c, d>> \in order
        PROVE  Cardinality(ahead(c)) # Cardinality(ahead(d))
    <2>1. ahead(c) \in SUBSET ahead(d) /\ c \in ahead(d) /\ c \notin ahead(c)
      BY <1>1, <1>2 DEF ahead, StrictOrder
    <2>2. IsFiniteSet(ahead(d))
      BY AheadFacts
    <2> QED
      BY <2>1, <2>2, FS_Subset
  <1> QED
    BY <1>1, <1>2 DEF StrictOrder

\* After j steps along level 1 the walk is at the node of rank j.
LEMMA WalkRank ==
    ASSUME NoNaN, SInv, call.op = "none", NEW k \in 0..(size - 1)
    PROVE  walk(k) \in live /\ Cardinality(ahead(walk(k))) = k
  <1> DEFINE w == walked(k)
             OK(j) == w[j] \in live /\ Cardinality(ahead(w[j])) = j
             bad == {j \in 0..k : ~OK(j)}
  <1>0. IsFiniteSet(live) /\ size = Cardinality(live) /\ size \in Nat /\ k \in Nat /\ k < size
    BY FiniteLive
  <1>1. w = [j \in 0..k |-> IF j = 0 THEN node[Header].forward[1]
                            ELSE IF w[j - 1] = Null THEN Null
                            ELSE node[w[j - 1]].forward[1]]
    BY <1>0, WalkedDef
  <1> HIDE DEF w
  <1>2. /\ StrictOrder(order, nodes) /\ live \subseteq nodes /\ Header \in nodes
        /\ \A a \in live : <<Header, a>> \in order
        /\ NodesTyped
    BY OrderStrict DEF SInv, Typed, Pairs, nodes
  <1>3. at(1) = live /\ \A a \in nodes : 1 \in 1..height(a)
    <2>1. \A a \in nodes : height(a) > 0 /\ height(a) \in Nat
      BY <1>2, Heights, Addresses
    <2> QED
      BY <1>2, <2>1 DEF at
  <1>4. \A a \in nodes : /\ IsNext(order, live, a, node[a].forward[1])
                         /\ node[a].forward[1] # Null => node[a].forward[1] \in live
    BY <1>3, NextNode
  <1>5. OK(0)
    <2> DEFINE n == node[Header].forward[1]
    <2>1. w[0] = n
      BY <1>0, <1>1
    <2>2. IsNext(order, live, Header, n) /\ (n # Null => n \in live)
      BY <1>2, <1>4
    <2> HIDE DEF n
    <2>3. n # Null
      <3> SUFFICES ASSUME n = Null PROVE FALSE
        OBVIOUS
      <3>1. live = {}
        BY <1>2, <2>2 DEF IsNext
      <3> QED
        BY <1>0, <3>1, FS_EmptySet
    <2>4. ahead(n) = {}
      <3> SUFFICES ASSUME NEW b \in live, <<b, n>> \in order PROVE FALSE
        BY DEF ahead
      <3>1. b = n \/ <<n, b>> \in order
        BY <1>2, <2>2, <2>3 DEF IsNext
      <3> QED
        BY <1>2, <2>2, <2>3, <3>1 DEF StrictOrder
    <2> QED
      BY <2>1, <2>2, <2>3, <2>4, FS_EmptySet
  <1>6. ASSUME NEW j \in 0..k, j + 1 \in 0..k, OK(j) PROVE OK(j + 1)
    <2>1. PICK a : a = w[j] /\ a \in live /\ Cardinality(ahead(a)) = j
      BY <1>6
    <2> DEFINE n == node[a].forward[1]
    <2>2. w[j + 1] = n
      <3>1. a # Null /\ (j + 1) - 1 = j /\ j + 1 # 0
        BY <2>1, Addresses
      <3>2. w[j + 1] = IF w[(j + 1) - 1] = Null THEN Null ELSE node[w[(j + 1) - 1]].forward[1]
        BY <1>1, <1>6, <3>1
      <3> QED
        BY <2>1, <3>1, <3>2
    <2>3. IsNext(order, live, a, n) /\ (n # Null => n \in live)
      BY <1>2, <1>4, <2>1
    <2>4. IsFiniteSet(ahead(a)) /\ a \notin ahead(a) /\ Cardinality(ahead(a) \cup {a}) = j + 1
      BY <2>1, AheadFacts
    <2> HIDE DEF n
    <2>5. \A b \in live : b = a \/ b \in ahead(a) \/ <<a, b>> \in order
      BY <1>2, <2>1 DEF ahead, StrictOrder
    <2>6. n # Null
      <3> SUFFICES ASSUME n = Null PROVE FALSE
        OBVIOUS
      <3>1. live = ahead(a) \cup {a}
        BY <2>1, <2>3, <2>5 DEF IsNext, ahead
      <3> QED
        BY <1>0, <1>6, <2>4, <3>1
    <2>7. ahead(n) = ahead(a) \cup {a}
      <3>1. n \in live /\ <<a, n>> \in order /\ \A c \in live : <<a, c>> \in order => c = n \/ <<n, c>> \in order
        BY <2>3, <2>6 DEF IsNext
      <3>2. ASSUME NEW b \in ahead(n) PROVE b \in ahead(a) \cup {a}
        <4>1. b \in live /\ <<b, n>> \in order
          BY <3>2 DEF ahead
        <4>2. ~(<<a, b>> \in order)
          BY <1>2, <3>1, <4>1 DEF StrictOrder
        <4> QED
          BY <2>5, <4>1, <4>2
      <3>3. ASSUME NEW b \in ahead(a) \cup {a} PROVE b \in ahead(n)
        <4>1. b \in live /\ (b = a \/ <<b, a>> \in order)
          BY <2>1, <3>3 DEF ahead
        <4>2. <<b, n>> \in order
          BY <1>2, <2>1, <3>1, <4>1 DEF StrictOrder
        <4> QED
          BY <4>1, <4>2 DEF ahead
      <3> QED
        BY <3>2, <3>3
    <2> QED
      BY <2>2, <2>3, <2>4, <2>6, <2>7
  <1> HIDE DEF OK
  <1>7. bad = {}
    <2> SUFFICES ASSUME bad # {} PROVE FALSE
      OBVIOUS
    <2>1. bad \in SUBSET Nat
      BY <1>0
    <2>2. PICK j \in bad : \A y \in bad : j <= y
      BY <2>1, LeastNat
    <2>3. j \in 0..k /\ ~OK(j) /\ j # 0
      BY <1>5, <2>2
    <2>4. j - 1 \in 0..k /\ (j - 1) + 1 = j /\ ~(j <= j - 1)
      BY <1>0, <2>3
    <2>5. OK(j - 1)
      BY <2>2, <2>4
    <2> QED
      BY <1>6, <2>3, <2>4, <2>5
  <1>8. OK(k)
    BY <1>0, <1>7
  <1> QED
    BY <1>8 DEF OK, w, walk

\* What the walk reads at rank q is the pair that has rank q in the dict.
LEMMA ReadAt ==
    ASSUME NoNaN, SInv, call.op = "none", NEW q \in 0..(size - 1)
    PROVE  LET m == CHOOSE o \in DOMAIN dict : rankOf(o) = q
           IN  <<node[walk(q)].member, node[walk(q)].score>> = <<m, dict[m]>>
  <1>1. PICK a : a = walk(q) /\ a \in live /\ Cardinality(ahead(a)) = q
    BY WalkRank
  <1>2. /\ \A b \in live : node[b].member \in DOMAIN dict /\ node[b].score = dict[node[b].member]
        /\ \A o \in DOMAIN dict : \E b \in live : node[b].member = o
    BY DEF SInv, Pairs, stays
  <1>3. node[a].member \in DOMAIN dict /\ rankOf(node[a].member) = q
    BY <1>1, <1>2, RankOfNode
  <1>4. ASSUME NEW o \in DOMAIN dict, rankOf(o) = q PROVE o = node[a].member
    <2>1. PICK b \in live : node[b].member = o
      BY <1>2
    <2>2. Cardinality(ahead(b)) = q
      BY <1>4, <2>1, RankOfNode
    <2> QED
      BY <1>1, <2>1, <2>2, RankInjective
  <1>5. (CHOOSE o \in DOMAIN dict : rankOf(o) = q) = node[a].member
    BY <1>3, <1>4
  <1> QED
    BY <1>1, <1>2, <1>5

\* A stretch of the walk is that stretch of the dict.
LEMMA RangeIs ==
    ASSUME NoNaN, SInv, call.op = "none", NEW lo \in 0..(size - 1), NEW hi \in 0..(size - 1), lo <= hi
    PROVE  [i \in 1..(hi - lo + 1) |-> <<node[walk(lo + i - 1)].member, node[walk(lo + i - 1)].score>>]
              = pairsAt(lo, hi)
  <1>1. size \in Nat
    BY FiniteLive
  <1>2. ASSUME NEW i \in 1..(hi - lo + 1)
        PROVE  <<node[walk(lo + i - 1)].member, node[walk(lo + i - 1)].score>>
                 = LET m == CHOOSE o \in DOMAIN dict : rankOf(o) = lo + i - 1 IN <<m, dict[m]>>
    <2>1. lo + i - 1 \in 0..(size - 1)
      BY <1>1
    <2> QED
      BY <2>1, ReadAt
  <1> QED
    BY <1>2, Zenon DEF pairsAt

\* rangeByRank, with its indices clamped.
LEMMA RangeByRank ==
    ASSUME NoNaN, SInv, call.op = "none", NEW start \in Int, NEW stop \in Int
    PROVE  LET R == {r \in 0..(size - 1) : index(start) <= r /\ r <= index(stop)}
           IN  rangeByRank(start, stop) =
                 IF R = {} THEN <<>>
                 ELSE LET lo == CHOOSE r \in R : \A q \in R : r <= q
                          hi == CHOOSE r \in R : \A q \in R : q <= r
                      IN  pairsAt(lo, hi)
  <1> DEFINE R == {r \in 0..(size - 1) : index(start) <= r /\ r <= index(stop)}
             from == IF index(start) < 0 THEN 0 ELSE index(start)
             to == IF index(stop) >= size THEN size - 1 ELSE index(stop)
             f == [i \in 1..(to - from + 1) |->
                      <<node[walk(from + i - 1)].member, node[walk(from + i - 1)].score>>]
             lo == CHOOSE r \in R : \A q \in R : r <= q
             hi == CHOOSE r \in R : \A q \in R : q <= r
  <1>1. size \in Nat
    BY FiniteLive
  <1>2. index(start) \in Int /\ index(stop) \in Int
    BY <1>1 DEF index
  <1>3. from \in Nat /\ to \in Int /\ to < size
    BY <1>1, <1>2
  <1>4. \A r \in Int : r \in R <=> from <= r /\ r <= to
    BY <1>1, <1>2
  <1>5. R \subseteq Int
    BY <1>1
  <1>6. rangeByRank(start, stop) = IF from > to THEN <<>> ELSE f
    BY DEF rangeByRank
  <1> HIDE DEF R, from, to
  <1>7. CASE from > to
    <2>1. R = {}
      BY <1>3, <1>4, <1>5, <1>7
    <2> QED
      BY <1>6, <1>7, <2>1 DEF R
  <1>8. CASE ~(from > to)
    <2>1. from \in R /\ to \in R /\ \A r \in R : r \in Int /\ from <= r /\ r <= to
      BY <1>3, <1>4, <1>5, <1>8
    <2>2. lo = from
      <3>1. \A r \in R : (\A q \in R : r <= q) => r = from
        BY <1>3, <2>1
      <3> QED
        BY <2>1, <3>1
    <2>3. hi = to
      <3>1. \A r \in R : (\A q \in R : q <= r) => r = to
        BY <1>3, <2>1
      <3> QED
        BY <2>1, <3>1
    <2>4. from \in 0..(size - 1) /\ to \in 0..(size - 1) /\ from <= to
      BY <1>1, <1>3, <1>8
    <2>5. f = pairsAt(from, to)
      BY <2>4, RangeIs
    <2> HIDE DEF f, lo, hi
    <2>6. rangeByRank(start, stop) = pairsAt(lo, hi) /\ R # {}
      BY <1>6, <1>8, <2>1, <2>2, <2>3, <2>5
    <2> QED
      BY <2>6 DEF R, lo, hi
  <1> QED
    BY <1>7, <1>8

LEMMA RankFound ==
    ASSUME NoNaN, SInv, call.op = "none", NEW m \in DOMAIN dict
    PROVE  cmdZRank(m) = rankOf(m)
  <1>1. /\ \A b \in live : node[b].member \in DOMAIN dict /\ node[b].score = dict[node[b].member]
        /\ Distinct /\ dict[m] \in Score
    BY DEF SInv, Pairs, stays, Typed
  <1>2. PICK a \in live : node[a].member = m
    BY DEF SInv, Pairs, stays
  <1>3. rankOf(m) = Cardinality(ahead(a)) /\ rankOf(m) \in 0..(size - 1) /\ size \in Nat
    BY <1>2, RankOfNode, AheadFacts, FiniteLive
  <1> DEFINE range == rangeByRank(0, size - 1)
             hits == {r \in 1..Len(range) : range[r][1] = m /\ scoreEq(range[r][2], dict[m])}
             f == [i \in 1..size |-> <<node[walk(i - 1)].member, node[walk(i - 1)].score>>]
  <1>4. range = f
    <2>1. index(0) = 0 /\ index(size - 1) = size - 1 /\ size > 0
      BY <1>3 DEF index
    <2>2. range = [i \in 1..((size - 1) - 0 + 1) |->
                      <<node[walk(0 + i - 1)].member, node[walk(0 + i - 1)].score>>]
      <3> DEFINE from == IF index(0) < 0 THEN 0 ELSE index(0)
                 to == IF index(size - 1) >= size THEN size - 1 ELSE index(size - 1)
      <3>1. range = IF from > to THEN <<>>
                    ELSE [i \in 1..(to - from + 1) |->
                             <<node[walk(from + i - 1)].member, node[walk(from + i - 1)].score>>]
        BY DEF rangeByRank
      <3>2. from = 0 /\ to = size - 1 /\ ~(from > to)
        BY <1>3, <2>1
      <3> HIDE DEF from, to, range
      <3> QED
        BY <3>1, <3>2
    <2>3. (size - 1) - 0 + 1 = size /\ \A i \in 1..size : 0 + i - 1 = i - 1
      BY <1>3
    <2>4. DOMAIN range = 1..size /\ range = [i \in 1..size |-> range[i]]
      <3> HIDE DEF range
      <3> QED
        BY <2>2, <2>3
    <2>5. ASSUME NEW i \in 1..size PROVE range[i] = f[i]
      <3>1. range[i] = <<node[walk(0 + i - 1)].member, node[walk(0 + i - 1)].score>>
        <4> HIDE DEF range
        <4> QED
          BY <2>2, <2>3
      <3> QED
        BY <2>3, <3>1
    <2> HIDE DEF range
    <2>6. DOMAIN f = 1..size /\ f = [i \in 1..size |-> f[i]]
      OBVIOUS
    <2> HIDE DEF f
    <2> QED
      BY <2>4, <2>5, <2>6
  <1>5. Len(f) = size
    <2>1. DOMAIN f = 1..size
      OBVIOUS
    <2> HIDE DEF f
    <2> QED
      BY <1>3, <2>1
  <1>6. \A r \in 1..size : f[r][1] = node[walk(r - 1)].member /\ f[r][2] = node[walk(r - 1)].score
    OBVIOUS
  <1>7. \A r \in 1..size : walk(r - 1) \in live /\ Cardinality(ahead(walk(r - 1))) = r - 1
    <2> TAKE r \in 1..size
    <2>1. r - 1 \in 0..(size - 1)
      BY <1>3
    <2> QED
      BY <2>1, WalkRank
  <1>8. Len(range) = size
    BY <1>4, <1>5
  <1> HIDE DEF range, f
  <1>9. \A r \in 1..size : r \in hits <=> r = rankOf(m) + 1
    <2> TAKE r \in 1..size
    <2>1. ASSUME r \in hits PROVE r = rankOf(m) + 1
      <3>1. node[walk(r - 1)].member = m
        BY <1>4, <1>6, <2>1
      <3>2. walk(r - 1) = a
        BY <1>1, <1>2, <1>7, <3>1 DEF Distinct
      <3> QED
        BY <1>3, <1>7, <3>2
    <2>2. ASSUME r = rankOf(m) + 1 PROVE r \in hits
      <3>1. r - 1 = rankOf(m)
        BY <1>3, <2>2
      <3>2. walk(r - 1) = a
        BY <1>3, <1>7, <3>1, RankInjective
      <3>3. range[r][1] = m /\ range[r][2] = dict[m]
        BY <1>1, <1>2, <1>4, <1>6, <3>2
      <3>4. scoreEq(range[r][2], dict[m])
        BY <1>1, <3>3 DEF scoreEq, NoNaN
      <3> QED
        BY <1>8, <3>3, <3>4
    <2> QED
      BY <2>1, <2>2
  <1>10. rankOf(m) + 1 \in 1..size
    BY <1>3
  <1>11. hits = {rankOf(m) + 1}
    <2>1. hits \subseteq 1..size
      BY <1>8
    <2> HIDE DEF hits
    <2> QED
      BY <1>9, <1>10, <2>1
  <1>12. cmdZRank(m) = IF hits = {} THEN Null ELSE (CHOOSE r \in hits : \A q \in hits : r <= q) - 1
    BY DEF cmdZRank, range
  <1> HIDE DEF hits
  <1>13. (CHOOSE r \in hits : \A q \in hits : r <= q) = rankOf(m) + 1
    BY <1>3, <1>11
  <1> QED
    BY <1>3, <1>11, <1>12, <1>13

\* Between commands ZRANGE answers every pair of indices, the negative ones and the ones
\* out of range too, with that stretch of the dict in order of score and member, and
\* ZRANK finds every member at its place.
THEOREM ReadsCorrect ==
    ASSUME NoNaN
    PROVE  Spec => []ReadsAgree
  <1>1. SInv => ReadsAgree
    <2> SUFFICES ASSUME SInv, call.op = "none" PROVE ReadsAgree
      BY DEF ReadsAgree, idle
    <2> DEFINE n == Cardinality(DOMAIN dict)
               norm == [i \in (-n - 1)..(n + 1) |-> IF i < 0 THEN i + n ELSE i]
    <2>1. n = size /\ size \in Nat
      BY FiniteLive
    <2>2. \A i \in (-n - 1)..(n + 1) : i \in Int /\ norm[i] = index(i)
      BY <2>1 DEF index
    <2>3. ASSUME NEW start \in (-n - 1)..(n + 1), NEW stop \in (-n - 1)..(n + 1)
          PROVE  rangeByRank(start, stop) =
                LET R == {r \in 0..(n - 1) : norm[start] <= r /\ r <= norm[stop]}
                IN  IF R = {} THEN <<>>
                    ELSE LET lo == CHOOSE r \in R : \A q \in R : r <= q
                             hi == CHOOSE r \in R : \A q \in R : q <= r
                         IN  pairsAt(lo, hi)
      <3>1. start \in Int /\ stop \in Int /\ norm[start] = index(start) /\ norm[stop] = index(stop)
        BY <2>2
      <3>2. {r \in 0..(n - 1) : norm[start] <= r /\ r <= norm[stop]}
              = {r \in 0..(size - 1) : index(start) <= r /\ r <= index(stop)}
        BY <2>1, <3>1
      <3> HIDE DEF n, norm
      <3> QED
        BY <3>1, <3>2, RangeByRank
    <2>4. \A m \in DOMAIN dict : cmdZRank(m) = rankOf(m)
      BY RankFound
    <2> QED
      BY <2>3, <2>4 DEF ReadsAgree
  <1> QED
    BY <1>1, Invariance, PTL
=============================================================================
